-------------------------- MODULE Registry_proofs --------------------------
(***************************************************************************)
(* What the processor does with the processes it is given: none is lost,   *)
(* those of one priority run in the order of their installation, and the   *)
(* databases implement the registry.                                       *)
(***************************************************************************)
EXTENDS ProcessorProps, Forest_proofs

----------------------------------------------------------------------------
(* An install loses no process.                                            *)

\* No process leaves a database between heaps h and g.
Keeps(h, g) == Grounded(g) /\ \A d \in Dbs : Members(h)[d] \subseteq Members(g)[d]

LEMMA KeepsAll ==
  ASSUME NEW h, NEW g, Grounded(h),
         \A d \in Dbs : /\ vals(h.store[d]) \subseteq vals(g.store[d])
                        /\ vals(g.store[d]) \cap Dbs \subseteq vals(h.store[d])
  PROVE  Keeps(h, g)
<1> DEFINE lost == {}
<1>1. /\ lost \cap Dbs = {}
      /\ \A d \in Dbs : /\ vals(h.store[d]) \subseteq vals(g.store[d]) \cup lost
                        /\ vals(g.store[d]) \cap Dbs \subseteq vals(h.store[d])
  OBVIOUS
<1> HIDE DEF lost
<1>2. /\ Grounded(g)
      /\ \A d \in Dbs : Members(h)[d] \subseteq Members(g)[d] \cup lost
  BY <1>1, NoneLost
<1> QED
  BY <1>2 DEF Keeps, lost

LEMMA InstallNodeKeeps ==
  ASSUME NEW c \in CallType, NEW p \in Procs, Grounded(c.heap), ~Taken(c, p)
  PROVE  Keeps(c.heap, InstallNode(c, p).heap)
<1> DEFINE h == c.heap
           g == InstallNode(c, p).heap
           s == offsetSet(h.store[c.at], h.prio[p], p)
<1>1. h \in HeapType /\ c.at \in Dbs /\ h.store[c.at] \in StorageType /\ h.prio[p] \in Int
  BY CallFields, HeapFields
<1>2. g.store = [h.store EXCEPT ![c.at] = s]
  BY <1>1 DEF InstallNode, CallType, HeapType
<1>3. vals(s) = vals(h.store[c.at]) \cup {p}
  BY <1>1, valsSet DEF Taken
<1> HIDE DEF g, s
<1>4. \A d \in Dbs : vals(g.store[d]) = IF d = c.at THEN vals(h.store[d]) \cup {p}
                                                   ELSE vals(h.store[d])
  BY <1>1, <1>2, <1>3, HeapFields
<1>5. \A d \in Dbs : /\ vals(h.store[d]) \subseteq vals(g.store[d])
                     /\ vals(g.store[d]) \cap Dbs \subseteq vals(h.store[d])
  BY <1>4, DisjointObjects
<1>6. Keeps(h, g)
  <2> HIDE DEF h
  <2> QED
    BY <1>5, KeepsAll DEF h
<1> QED
  BY <1>6 DEF g

LEMMA InstallInSubDatabaseKeeps ==
  ASSUME NEW c \in CallType, NEW p \in Procs, NEW sub \in Dbs, Grounded(c.heap)
  PROVE  Keeps(c.heap, InstallInSubDatabase(c, sub, p).heap)
<1> DEFINE h == c.heap
           i == InstallInSubDatabase(c, sub, p)
           ending == end(h.store[sub])
<1>1. h \in HeapType /\ h.store[sub] \in StorageType
  BY CallFields, HeapFields
<1>2. i.heap.store = [h.store EXCEPT ![sub] = ending] \/ i.heap.store = h.store
  BY <1>1 DEF InstallInSubDatabase, CallType, HeapType
<1>3. vals(ending) = vals(h.store[sub])
  BY <1>1, valsIterated DEF vals
<1> HIDE DEF i, ending
<1>4. \A d \in Dbs : vals(i.heap.store[d]) = vals(h.store[d])
  BY <1>1, <1>2, <1>3, HeapFields
<1> QED
  BY <1>4, KeepsAll DEF i

\* The process that makes room moves into the new sub-database.
LEMMA CreateSubDatabaseKeeps ==
  ASSUME NEW c, NEW roots, NEW free, InstallForest(c, roots, free), NEW p \in Procs,
         Grounded(c.heap), Taken(c, p), Found(c, p) \in Procs, c.heap.unused # {}
  PROVE  Keeps(c.heap, CreateSubDatabase(c, Found(c, p), p).heap)
<1> DEFINE h     == c.heap
           q     == Found(c, p)
           g     == CreateSubDatabase(c, q, p).heap
           key   == h.prio[p]
           sub   == CHOOSE d \in h.unused : TRUE
           prio  == [h.prio EXCEPT ![q] = XPSPL_SUBDATABASE_DEFAULT_PRIORITY]
           moved == offsetSet(empty, prio[q], q)
           keyed == offsetSet(offsetUnset(h.store[c.at], key), key, sub)
<1>1. c \in CallType /\ h \in HeapType /\ c.at \in Dbs /\ h.store[c.at] \in StorageType
      /\ ForestOf(h, roots) /\ c.at \notin h.unused /\ key \in Int /\ prio[q] \in Int
  BY CallFields, HeapFields DEF InstallForest, XPSPL_SUBDATABASE_DEFAULT_PRIORITY
<1>2. g.store = [h.store EXCEPT ![sub] = moved, ![c.at] = keyed]
  BY <1>1 DEF CreateSubDatabase, CallType, HeapType
<1>3. sub \in h.unused /\ sub \in Dbs /\ sub # c.at /\ h.store[sub] = empty
  BY <1>1, HeapFields, ForestFacts
<1> HIDE DEF g, sub, prio
<1>4. vals(moved) = {q}
  <2>1. vals(empty) = {} /\ ~offsetExists(empty, prio[q])
    BY DEF vals, empty, offsetExists, keys
  <2> QED
    BY <1>1, <2>1, emptyType, valsSet
<1>5. /\ vals(keyed) \subseteq vals(h.store[c.at]) \cup {sub}
      /\ vals(h.store[c.at]) \subseteq vals(keyed) \cup {q}
      /\ sub \in vals(keyed)
  <2> DEFINE s == offsetUnset(h.store[c.at], key)
  <2>1. /\ s \in StorageType /\ vals(s) \subseteq vals(h.store[c.at])
        /\ vals(h.store[c.at]) \subseteq vals(s) \cup {q} /\ ~offsetExists(s, key)
    BY <1>1, offsetUnsetType, valsUnset DEF Taken, Found
  <2> HIDE DEF s
  <2>2. vals(offsetSet(s, key, sub)) = vals(s) \cup {sub}
    BY <1>1, <1>3, <2>1, valsSet
  <2> QED
    BY <2>1, <2>2 DEF s
<1> HIDE DEF moved, keyed, key, q
<1>6. /\ vals(g.store[sub]) = {q} /\ vals(h.store[sub]) = {}
      /\ g.store[c.at] = keyed
      /\ \A d \in Dbs : d # sub /\ d # c.at => g.store[d] = h.store[d]
  <2>1. vals(h.store[sub]) = {}
    BY <1>3 DEF vals, empty
  <2>2. h.store \in [Dbs -> StorageType]
    BY <1>1, HeapFields
  <2> HIDE DEF h
  <2> QED
    BY <1>1, <1>2, <1>3, <1>4, <2>1, <2>2
<1>7. Grounded(g)
  <2> SUFFICES ASSUME NEW C \in SUBSET Dbs, C # {}
               PROVE  \E x \in C : vals(g.store[x]) \cap C = {}
    BY DEF Grounded
  <2>1. CASE sub \in C
    BY <1>6, <2>1, DisjointObjects DEF q
  <2>2. CASE sub \notin C
    <3>1. PICK x \in C : vals(h.store[x]) \cap C = {}
      BY DEF Grounded
    <3>2. vals(g.store[x]) \subseteq vals(h.store[x]) \cup {sub}
      BY <1>5, <1>6, <2>2
    <3> QED
      BY <2>2, <3>1, <3>2
  <2> QED
    BY <2>1, <2>2
<1>8. ASSUME NEW r \in Procs
      PROVE  \A d \in Dbs : r \in Members(h)[d] => r \in Members(g)[d]
  <2>1. q \in Members(g)[c.at]
    <3>1. q \in Members(g)[sub]
      BY <1>3, <1>6, MembersStep DEF q
    <3> QED
      BY <1>1, <1>3, <1>5, <1>6, <3>1, MembersStep
  <2>2. ASSUME NEW d \in Dbs, r \in vals(h.store[d]) PROVE r \in Members(g)[d]
    <3>1. d # sub /\ (r \in vals(g.store[d]) \/ (r = q /\ d = c.at))
      BY <1>5, <1>6, <2>2
    <3> QED
      BY <2>1, <3>1, MembersStep
  <2>3. \A d \in Dbs : vals(h.store[d]) \cap Dbs \subseteq vals(g.store[d])
    BY <1>5, <1>6, DisjointObjects DEF q
  <2> HIDE DEF h
  <2> QED
    BY <2>2, <2>3, MembersKept DEF h
<1>9. \A d \in Dbs : Members(h)[d] \subseteq Procs
  BY MembersProcs
<1> QED
  BY <1>7, <1>8, <1>9 DEF Keeps, g, q

LEMMA InstallStepKeeps ==
  ASSUME NEW c, NEW roots, NEW free, InstallForest(c, roots, free), NEW p \in Procs,
         Grounded(c.heap)
  PROVE  Keeps(c.heap, InstallStep(c, p).heap)
<1>1. c \in CallType
  BY DEF InstallForest
<1>2. Keeps(c.heap, c.heap)
  BY DEF Keeps
<1>3. CASE c.done
  BY <1>2, <1>3 DEF InstallStep
<1>4. CASE ~c.done /\ ~Taken(c, p)
  BY <1>1, <1>4, InstallNodeKeeps DEF InstallStep
<1>5. CASE ~c.done /\ Taken(c, p)
  <2>1. Found(c, p) \in Procs \cup Dbs
    BY <1>1, <1>5, FoundType
  <2>2. CASE Found(c, p) \in Dbs
    BY <1>1, <1>5, <2>2, InstallInSubDatabaseKeeps DEF InstallStep
  <2>3. CASE Found(c, p) \notin Dbs
    BY <1>2, <1>5, <2>1, <2>3, CreateSubDatabaseKeeps DEF InstallStep
  <2> QED
    BY <2>2, <2>3
<1> QED
  BY <1>3, <1>4, <1>5

\* An install loses no process, from whatever trees there are.
LEMMA InstallKeeps ==
  ASSUME NEW h \in HeapType, NEW roots, ForestOf(h, roots), Grounded(h), NEW d \in Dbs,
         d \notin h.unused, NEW p \in Procs
  PROVE  Keeps(h, Install(h, d, p).heap)
<1> DEFINE K(c) == InstallForest(c, roots, h.unused) /\ Keeps(h, c.heap)
<1>1. K(Call(h, d))
  BY DEF InstallForest, Call, CallType, Keeps
<1>2. ASSUME NEW c, K(c) PROVE K(InstallStep(c, p))
  <2>1. InstallForest(InstallStep(c, p), roots, h.unused)
    BY <1>2, InstallStepForest
  <2>2. Keeps(c.heap, InstallStep(c, p).heap)
    BY <1>2, InstallStepKeeps DEF Keeps
  <2> QED
    BY <1>2, <2>1, <2>2 DEF Keeps
<1> HIDE DEF K
<1>3. K(Install(h, d, p))
  BY <1>1, <1>2 DEF Install, TwoSteps
<1> QED
  BY <1>3 DEF K

\* A deletion loses the process it deletes, and nothing else.
LEMMA DeleteKeeps ==
  ASSUME NEW h \in HeapType, Grounded(h), NEW d \in Dbs, NEW p \in Procs
  PROVE  /\ Grounded(Delete(h, d, p))
         /\ \A x \in Dbs : Members(h)[x] \subseteq Members(Delete(h, d, p))[x] \cup {p}
<1> DEFINE g == Delete(h, d, p)
<1>1. ASSUME NEW x \in Dbs
      PROVE  /\ vals(h.store[x]) \subseteq vals(g.store[x]) \cup {p}
             /\ vals(g.store[x]) \cap Dbs \subseteq vals(h.store[x])
  <2>1. h.store[x] \in StorageType
    BY HeapFields
  <2>2. CASE Hit(h, d, p, x)
    <3> DEFINE i == StopAt(h, {p}, x)
    <3>1. i \in DOMAIN h.store[x].nodes /\ h.store[x].nodes[i].val = p
      BY <2>2 DEF Hit
    <3>2. g.store[x].nodes = RemoveAt(h.store[x].nodes, i)
      BY <2>2, DeleteNodes
    <3> HIDE DEF i, g
    <3>3. vals(g.store[x]) = vals(unsetAt(h.store[x], i))
      BY <2>1, <3>1, <3>2, valsUnsetAt DEF vals
    <3> QED
      BY <2>1, <3>1, <3>3, valsUnsetAt
  <2>3. CASE ~Hit(h, d, p, x)
    <3>1. g.store[x].nodes = h.store[x].nodes
      BY <2>3, DeleteNodes
    <3> HIDE DEF g
    <3> QED
      BY <3>1 DEF vals
  <2> QED
    BY <2>2, <2>3
<1> DEFINE lost == {p}
<1>2. lost \cap Dbs = {}
  BY DisjointObjects
<1>3. \A x \in Dbs : /\ vals(h.store[x]) \subseteq vals(g.store[x]) \cup lost
                     /\ vals(g.store[x]) \cap Dbs \subseteq vals(h.store[x])
  BY <1>1
<1> HIDE DEF g, lost
<1>4. /\ Grounded(g)
      /\ \A x \in Dbs : Members(h)[x] \subseteq Members(g)[x] \cup lost
  BY <1>2, <1>3, NoneLost
<1> QED
  BY <1>4 DEF g, lost

----------------------------------------------------------------------------
(* The steps that change what a database holds are few; the others move    *)
(* pointers.                                                               *)

\* Heap g has the nodes and priorities of heap h.
Unaltered(h, g) ==
  /\ \A d \in Dbs : g.store[d].nodes = h.store[d].nodes
  /\ g.unused = h.unused /\ g.prio = h.prio

LEMMA IteratedUnaltered ==
  ASSUME NEW h \in HeapType, NEW d \in Dbs
  PROVE  /\ Unaltered(h, [h EXCEPT !.store[d] = next(@)])
         /\ Unaltered(h, [h EXCEPT !.store[d] = reset(@)])
         /\ [h EXCEPT !.store[d] = next(@)].exhaust = h.exhaust
         /\ [h EXCEPT !.store[d] = reset(@)].exhaust = h.exhaust
<1>1. h.store[d] \in StorageType
  BY HeapFields
<1>2. next(h.store[d]).nodes = h.store[d].nodes /\ reset(h.store[d]).nodes = h.store[d].nodes
  BY <1>1, valsIterated
<1> QED
  BY <1>2, HeapFields DEF Unaltered, HeapType

LEMMA AfterExhaustedUnaltered ==
  ASSUME NEW h \in HeapType, NEW d \in Dbs
  PROVE  /\ Unaltered(h, AfterExhausted(h, d))
         /\ AfterExhausted(h, d).exhaust = h.exhaust
BY WalkNodes DEF AfterExhausted, Unaltered

LEMMA ExecuteUnaltered ==
  ASSUME TypeOK, NEW d \in Dbs, NEW pc, Execute(d, pc)
  PROVE  /\ Unaltered(heap, heap') /\ heap'.exhaust = heap.exhaust
         /\ UNCHANGED <<databases, made, complexes>>
BY IteratedUnaltered DEF Execute, Rewind, TypeOK

LEMMA InterruptUnaltered ==
  ASSUME TypeOK, frames # <<>>, NEW w \in Places, NEW pc, Interrupt(w, pc)
  PROVE  /\ Unaltered(heap, heap') /\ heap'.exhaust = heap.exhaust
         /\ UNCHANGED <<databases, made, complexes>>
<1>1. Top.sig \in Sigs
  BY TopType, FrameFields DEF TypeOK
<1>2. Find(w, Top.sig) \in Dbs \cup {NoDb}
  BY <1>1, FindType
<1> QED
  BY <1>2, ExecuteUnaltered DEF Interrupt, Unaltered

\* The steps of a loop or an emission that only move pointers.
Pointers ==
  \/ Accept \/ Reject \/ MergeSubDatabase \/ MergeFatal \/ MergeEnd
  \/ EmitBefore \/ EmitMain \/ EmitAfter \/ EmitEnd
  \/ ExecEnd \/ ExecSubDatabase \/ Advance

LEMMA PointersUnaltered ==
  ASSUME TypeOK, Pointers
  PROVE  /\ Unaltered(heap, heap') /\ heap'.exhaust = heap.exhaust
         /\ UNCHANGED <<databases, made, complexes>>
<1>1. heap \in HeapType /\ (\E op, pc : On(op, pc))
  BY DEF TypeOK, Pointers, Accept, Reject, MergeSubDatabase, MergeFatal, MergeEnd,
         EmitBefore, EmitMain, EmitAfter, EmitEnd, ExecEnd, ExecSubDatabase, Advance
<1>2. /\ frames # <<>> /\ Top.sig \in Sigs /\ Top.db \in Dbs /\ Top.loop \in Dbs
      /\ Top.pending \in Seq(Dbs)
  BY <1>1, OnType
<1>3. CASE Accept
  <2>1. Head(Top.pending) \in Dbs
    BY <1>2, <1>3, HeadTailProperties DEF Accept
  <2> QED
    BY <1>1, <1>3, <2>1, IteratedUnaltered DEF Accept, Rewind
<1>4. CASE Reject \/ MergeEnd \/ EmitEnd \/ ExecEnd
  BY <1>4 DEF Reject, MergeEnd, EmitEnd, ExecEnd, Unaltered
<1>5. CASE MergeSubDatabase
  BY <1>1, <1>5, IteratedUnaltered DEF MergeSubDatabase, Rewind
<1>6. CASE MergeFatal
  BY <1>1, <1>6 DEF MergeFatal, Unaltered, HeapType
<1>7. CASE EmitBefore \/ EmitAfter
  BY <1>2, <1>7, InterruptUnaltered DEF EmitBefore, EmitAfter, Places
<1>8. CASE EmitMain
  BY <1>2, <1>8, ExecuteUnaltered DEF EmitMain
<1>9. CASE ExecSubDatabase
  BY <1>9, ExecuteUnaltered DEF ExecSubDatabase
<1>10. CASE Advance
  BY <1>1, <1>2, <1>10, IteratedUnaltered DEF Advance
<1> QED
  BY <1>3, <1>4, <1>5, <1>6, <1>7, <1>8, <1>9, <1>10 DEF Pointers

\* The calls that change no database.
Inspects ==
  \/ \E s \in Sigs : HasSignalExhausted(s) \/ Emit(s) \/ EmitNothing(s)
                       \/ Halt(s) \/ NewSignal(s) \/ EraseHistory(s)
  \/ \E flag \in BOOLEAN : SetSignalHistory(flag)
  \/ Throw \/ UNCHANGED vars

\* The calls that take signals off the registry.
Unregisters == Flush \/ \E s \in Sigs, erase \in BOOLEAN : DeleteSignal(s, erase)

LEMMA DescendedUnaltered ==
  ASSUME TypeOK
  PROVE  Unaltered(heap, Descended) /\ Descended.exhaust = heap.exhaust
BY DEF TypeOK, HeapType, Descended, Unaltered

LEMMA UserUnaltered ==
  ASSUME TypeOK, Inspects \/ Unregisters
  PROVE  /\ Unaltered(heap, heap') /\ heap'.exhaust = heap.exhaust
         /\ UNCHANGED made
         /\ Inspects => UNCHANGED <<databases, complexes>>
<1>0. heap \in HeapType /\ Unaltered(heap, heap)
  BY DEF TypeOK, Unaltered
<1>1. ASSUME NEW s \in Sigs, HasSignalExhausted(s) \/ Emit(s) \/ EmitNothing(s)
      PROVE  /\ Unaltered(heap, heap') /\ heap'.exhaust = heap.exhaust
             /\ UNCHANGED <<databases, made, complexes>>
  <2>1. Find("index", s) \in Dbs \cup {NoDb}
    BY FindType DEF Places
  <2>2. /\ heap' = heap \/ (Find("index", s) \in Dbs /\ heap' = AfterExhausted(heap, Find("index", s)))
        /\ UNCHANGED <<databases, made, complexes>>
    BY <1>1, <2>1 DEF HasSignalExhausted, Emit, EmitNothing
  <2> QED
    BY <1>0, <2>2, AfterExhaustedUnaltered
<1>2. ASSUME NEW s \in Sigs, Halt(s) \/ NewSignal(s) \/ EraseHistory(s)
      PROVE  /\ Unaltered(heap, heap') /\ heap'.exhaust = heap.exhaust
             /\ UNCHANGED <<databases, made, complexes>>
  BY <1>0, <1>2, DescendedUnaltered DEF Halt, NewSignal, EraseHistory
<1>3. ASSUME Throw \/ UNCHANGED vars \/ \E flag \in BOOLEAN : SetSignalHistory(flag)
      PROVE  /\ Unaltered(heap, heap') /\ heap'.exhaust = heap.exhaust
             /\ UNCHANGED <<databases, made, complexes>>
  BY <1>0, <1>3 DEF Throw, vars, SetSignalHistory
<1>4. ASSUME Unregisters
      PROVE  /\ Unaltered(heap, heap') /\ heap'.exhaust = heap.exhaust /\ UNCHANGED made
  BY <1>0, <1>4, DescendedUnaltered DEF Unregisters, Flush, DeleteSignal
<1>5. CASE Inspects
  BY <1>1, <1>2, <1>3, <1>5 DEF Inspects
<1>6. CASE Unregisters /\ ~Inspects
  BY <1>4, <1>6
<1> QED
  BY <1>5, <1>6

\* Every step is one of those, or one that changes a database or a count.
LEMMA StepKinds ==
  ASSUME [Next]_vars
  PROVE  \/ Pointers \/ Inspects \/ Unregisters \/ MergeProcess \/ ExecProcess
         \/ \E result \in Returns : Return(result)
         \/ \E s \in Sigs, p \in Procs : DeleteProcess(s, p)
         \/ \E s \in Sigs, p \in Procs : Signal(s, p) \/ Before(s, p) \/ After(s, p)
<1>1. CASE UNCHANGED vars
  BY <1>1, Zenon DEF Inspects
<1>2. CASE Step
  BY <1>2, Zenon DEF Step, Pointers
<1>3. CASE User
  BY <1>3, Zenon DEF User, Inspects, Unregisters
<1> QED
  BY <1>1, <1>2, <1>3, Zenon DEF Next, Terminated

----------------------------------------------------------------------------
(* Nothing is lost.                                                        *)

\* The databases are trees, and so the processes of a database are those that
\* a walk down its sub-databases finds.
GroundedInv == ForestInv /\ WellNested /\ Grounded(heap)

LEMMA UnalteredKeeps ==
  ASSUME NEW h, NEW g, Grounded(h), Unaltered(h, g)
  PROVE  Keeps(h, g)
<1>1. \A d \in Dbs : vals(g.store[d]) = vals(h.store[d])
  BY DEF Unaltered, vals
<1> QED
  BY <1>1, KeepsAll

LEMMA UnalteredKept ==
  ASSUME NEW h, NEW g, NEW f, Unaltered(g, f), Keeps(h, g)
  PROVE  Keeps(h, f)
<1>1. Keeps(g, f)
  BY UnalteredKeeps DEF Keeps
<1> QED
  BY <1>1 DEF Keeps

LEMMA SameStoreKeeps ==
  ASSUME NEW h, NEW g, Grounded(h), g.store = h.store
  PROVE  Keeps(h, g)
BY KeepsAll

LEMMA InstallOnKeeps ==
  ASSUME GroundedInv, NEW w \in Places, NEW s \in Sigs, NEW p \in Procs, InstallOn(w, s, p)
  PROVE  Keeps(heap, heap')
<1>1. PICK g, d : Installs(g, d, w, s, p)
  BY InstallOnFacts DEF GroundedInv
<1> DEFINE roots == Registereds'
<1>2. /\ ForestOf(g, roots) /\ g \in HeapType /\ d \in Dbs /\ d \notin g.unused
      /\ heap' = Install(g, d, p).heap /\ g.store = heap.store
  BY <1>1 DEF Installs
<1> HIDE DEF roots
<1>3. Keeps(heap, g)
  BY <1>2, SameStoreKeeps DEF GroundedInv
<1>4. Keeps(g, heap')
  BY <1>2, <1>3, InstallKeeps DEF Keeps
<1> QED
  BY <1>3, <1>4 DEF Keeps

LEMMA MergeProcessKeeps ==
  ASSUME GroundedInv, MergeProcess
  PROVE  Keeps(heap, heap')
<1>1. TypeOK /\ On("merge", "fetch") /\ ForestOf(heap, Registereds)
  BY DEF MergeProcess, GroundedInv, ForestInv, TypeInv, Forest
<1>2. /\ frames # <<>> /\ Top.op = "merge" /\ Top.db \in Dbs /\ Top.loop \in Dbs
      /\ Top.key \in Int \cup {NoKey}
      /\ heap \in HeapType /\ frames \in Seq(FrameType)
  BY <1>1, OnType
<1>3. Top.db \notin heap.unused
  <2>1. Len(frames) \in DOMAIN frames /\ Top = frames[Len(frames)]
    BY <1>2, TopType, LenProperties
  <2> QED
    BY <1>2, <2>1 DEF GroundedInv, ForestInv, Working
<1> DEFINE h == IF Top.key = NoKey THEN heap ELSE Construct(heap, Fetched, 1, Top.key)
<1>4. Fetched \in Procs
  BY DEF MergeProcess
<1>5. h \in HeapType
  BY <1>2, <1>4, ConstructType
<1>6. h.unused = heap.unused /\ h.store = heap.store
  BY <1>2 DEF Construct, HeapType
<1>7. Merged = Install(h, Top.db, Fetched)
  BY DEF Merged
<1> HIDE DEF h
<1>8. ForestOf(h, Registereds)
  BY <1>1, <1>6 DEF ForestOf
<1>9. Keeps(heap, h)
  BY <1>6, SameStoreKeeps DEF GroundedInv
<1>10. Keeps(h, Merged.heap) /\ Merged.heap \in HeapType
  BY <1>2, <1>3, <1>4, <1>5, <1>6, <1>7, <1>8, <1>9, InstallKeeps, InstalledForest DEF Keeps
<1>11. Unaltered(Merged.heap, heap')
  BY <1>2, <1>10, IteratedUnaltered DEF MergeProcess
<1> QED
  BY <1>9, <1>10, <1>11, UnalteredKept DEF Keeps

\* A process that returns leaves only when it is exhausted.
LEMMA ReturnKeeps ==
  ASSUME GroundedInv, NEW result \in Returns, Return(result)
  PROVE  /\ Grounded(heap') /\ frames # <<>> /\ Top.proc \in Procs
         /\ \A d \in Dbs : Members(heap)[d] \subseteq Members(heap')[d]
              \cup (IF is_exhausted(heap.exhaust[Top.proc]) THEN {Top.proc} ELSE {})
<1> DEFINE p == Top.proc
           h == IF is_exhausted(heap.exhaust[p]) THEN Delete(heap, Top.db, p) ELSE heap
           lost == IF is_exhausted(heap.exhaust[p]) THEN {p} ELSE {}
<1>1. TypeOK /\ On("exec", "running") /\ StackInv
  BY DEF Return, GroundedInv, ForestInv, TypeInv, StackInv
<1>2. /\ frames # <<>> /\ Top.db \in Dbs /\ Top.loop \in Dbs /\ heap \in HeapType
      /\ p \in Procs
  BY <1>1, OnType, NestedTop, FrameFields
<1>3. h \in HeapType
  BY <1>2, DeleteType
<1>4. Unaltered(h, heap')
  BY <1>2, <1>3, IteratedUnaltered DEF Return
<1>5. Grounded(h) /\ \A d \in Dbs : Members(heap)[d] \subseteq Members(h)[d] \cup lost
  BY <1>2, DeleteKeeps DEF GroundedInv
<1> HIDE DEF h
<1>6. Keeps(h, heap')
  BY <1>4, <1>5, UnalteredKeeps
<1> QED
  BY <1>2, <1>5, <1>6 DEF Keeps

LEMMA DeleteProcessKeeps ==
  ASSUME GroundedInv, NEW s \in Sigs, NEW p \in Procs, DeleteProcess(s, p)
  PROVE  Grounded(heap') /\ \A d \in Dbs : Members(heap)[d] \subseteq Members(heap')[d] \cup {p}
<1>1. TypeOK /\ heap \in HeapType /\ Grounded(heap)
  BY DEF GroundedInv, ForestInv, TypeInv, TypeOK
<1>2. Find("index", s) \in Dbs /\ heap' = Delete(heap, Find("index", s), p)
  BY <1>1, FindType DEF DeleteProcess, Places
<1> QED
  BY <1>1, <1>2, DeleteKeeps

LEMMA NextKeeps ==
  ASSUME GroundedInv, [Next]_vars
  PROVE  /\ Grounded(heap')
         /\ \A d \in Dbs : \A p \in Members(heap)[d] \ Members(heap')[d] :
              \/ \E s \in Sigs : DeleteProcess(s, p)
              \/ ~Idle /\ p = Top.proc /\ is_exhausted(heap.exhaust[p])
<1>1. TypeOK /\ heap \in HeapType /\ Grounded(heap)
  BY DEF GroundedInv, ForestInv, TypeInv, TypeOK
<1>2. CASE Pointers \/ Inspects \/ Unregisters
  BY <1>1, <1>2, PointersUnaltered, UserUnaltered, UnalteredKeeps DEF Keeps
<1>3. CASE ExecProcess
  <2>1. heap'.store = heap.store
    BY <1>1, <1>3 DEF ExecProcess, HeapType
  <2> QED
    BY <1>1, <2>1, SameStoreKeeps DEF Keeps
<1>4. CASE MergeProcess
  BY <1>4, MergeProcessKeeps DEF Keeps
<1>5. ASSUME NEW s \in Sigs, NEW p \in Procs, Signal(s, p) \/ Before(s, p) \/ After(s, p)
      PROVE  Keeps(heap, heap')
  <2>1. \E w \in Places : InstallOn(w, s, p)
    BY <1>5 DEF Signal, Before, After, Places
  <2> QED
    BY <2>1, InstallOnKeeps
<1>6. CASE \E s \in Sigs, p \in Procs : Signal(s, p) \/ Before(s, p) \/ After(s, p)
  BY <1>5, <1>6 DEF Keeps
<1>7. CASE \E result \in Returns : Return(result)
  BY <1>7, ReturnKeeps DEF Idle
<1>8. CASE \E s \in Sigs, p \in Procs : DeleteProcess(s, p)
  BY <1>8, DeleteProcessKeeps
<1> QED
  BY <1>2, <1>3, <1>4, <1>6, <1>7, <1>8, StepKinds

LEMMA GroundedInit == Init => GroundedInv
<1> SUFFICES ASSUME Init PROVE Grounded(heap) /\ WellNested
  BY InitForest DEF GroundedInv
<1>1. \A d \in Dbs : vals(heap.store[d]) = {}
  BY DEF Init, vals, empty
<1>2. Grounded(heap)
  BY <1>1 DEF Grounded
<1>3. WellNested
  BY InitNested DEF StackInv
<1> QED
  BY <1>2, <1>3

LEMMA GroundedNext == GroundedInv /\ [Next]_vars => GroundedInv'
<1> SUFFICES ASSUME GroundedInv, [Next]_vars PROVE GroundedInv'
  OBVIOUS
<1>1. ForestInv' /\ WellNested'
  BY ForestNext, NestedNext DEF GroundedInv, ForestInv, StackInv
<1> QED
  BY <1>1, NextKeeps DEF GroundedInv

\* A process leaves a database only by delete_process() or when it is exhausted
\* and returns, whoever else iterates over the database, installs on it, or
\* merges it meanwhile.
THEOREM NoneIsLost == Spec => NothingLost
<1>1. GroundedInv /\ [Next]_vars =>
        [\A d \in Created : \A p \in Members(heap)[d] \ Members(heap')[d] :
           \/ \E s \in Sigs : DeleteProcess(s, p)
           \/ ~Idle /\ p = Top.proc /\ is_exhausted(heap.exhaust[p])]_vars
  BY NextKeeps DEF Created
<1> QED
  BY <1>1, GroundedInit, GroundedNext, PTL DEF Spec, NothingLost

----------------------------------------------------------------------------
(* Every process is in one place.  This is how processes are installed     *)
(* unless the program installs an object again, or has complex signals,    *)
(* whose merges store their processes with other signals as well.          *)

InstalledOnce == Complex = {} /\ ~Reinstall

NodesIn(h, d) == Range(h.store[d].nodes)

\* The processes stored anywhere.
Installed(h) == UNION {vals(h.store[d]) \cap Procs : d \in Dbs}

\* The keys of a sub-database increase, and it holds processes only.
Numbered(s) ==
  /\ \A n \in Range(s.nodes) : n.val \in Procs
  /\ \A i, j \in DOMAIN s.nodes : i < j => s.nodes[i].key < s.nodes[j].key

\* A process is in one node, under its priority, and sub-databases are numbered.
Once(h) ==
  /\ \A d, e \in Dbs : \A m \in NodesIn(h, d), n \in NodesIn(h, e) :
       m.val \in Procs /\ m.val = n.val => d = e /\ m = n
  /\ \A d \in Dbs : \A n \in NodesIn(h, d) : n.val \in Procs => n.key = h.prio[n.val]
  /\ \A d \in Dbs : \A n \in SubNodes(h.store[d]) : Numbered(h.store[n.val])

\* A loop over the database it works for, as there is nothing to merge.
Alone(f) == f.op # "merge" /\ f.pending = <<>> /\ f.loop = f.db

\* Nothing is merged: there are no complex signals.
Unmerged == complexes = <<>> /\ \A n \in DOMAIN frames : Alone(frames[n])

\* A process on the stack has been constructed, and is in the database its
\* frame works for if it is anywhere.
Minded(f, h) ==
  f.proc # NoProc => /\ f.proc \in made
                     /\ f.proc \in Installed(h) => f.proc \in Members(h)[f.db]

OnceInv ==
  /\ GroundedInv
  /\ Unmerged
  /\ Once(heap)
  /\ Installed(heap) \subseteq made
  /\ \A n \in DOMAIN frames : Minded(frames[n], heap)

\* An exhausted process that is stored is being run.
Purged == \A p \in Installed(heap) : is_exhausted(heap.exhaust[p]) =>
            \E n \in DOMAIN frames : frames[n].proc = p

\* Each database is registered for one signal, in one place.
OneEach ==
  \A w, v \in Places, i, j \in Idx :
    databases[w][i] = databases[v][j] /\ databases[w][i] # NoDb => w = v /\ i = j

PlacedInv == OnceInv /\ OneEach

\* The nodes of a storage, in whatever order ...
LEMMA RangeOf ==
  ASSUME NEW s \in StorageType
  PROVE  /\ \A n \in Range(s.nodes) : n \in NodeType /\ n.val \in Procs \cup Dbs /\ n.key \in Int
         /\ \A v : v \in vals(s) <=> \E n \in Range(s.nodes) : n.val = v
         /\ \A k : offsetExists(s, k) <=> \E n \in Range(s.nodes) : n.key = k
         /\ \A m, n \in Range(s.nodes) : m.key = n.key => m = n
         /\ \A n : n \in SubNodes(s) <=> n \in Range(s.nodes) /\ n.val \in Dbs
<1>1. \A n : n \in Range(s.nodes) <=> \E i \in DOMAIN s.nodes : n = s.nodes[i]
  BY DEF Range
<1>2. \A n \in Range(s.nodes) : n \in NodeType /\ n.val \in Procs \cup Dbs /\ n.key \in Int
  BY <1>1, NodeFields
<1>3. \A m, n \in Range(s.nodes) : m.key = n.key => m = n
  BY <1>1, StorageFields
<1>4. \A v : v \in vals(s) <=> \E n \in Range(s.nodes) : n.val = v
  BY <1>1 DEF vals
<1>5. \A k : offsetExists(s, k) <=> \E n \in Range(s.nodes) : n.key = k
  BY <1>1 DEF offsetExists, keys
<1> QED
  BY <1>2, <1>3, <1>4, <1>5 DEF SubNodes

\* ... the one that has a key ...
LEMMA RangeFound ==
  ASSUME NEW s \in StorageType, NEW k, offsetExists(s, k)
  PROVE  \E n \in Range(s.nodes) : /\ n.key = k /\ n.val = offsetGet(s, k)
                                   /\ n = s.nodes[PosOf(s, k)]
BY PosOfType DEF offsetGet, Range

\* ... with one more ...
LEMMA RangeSet ==
  ASSUME NEW s \in StorageType, NEW k \in Int, NEW v \in Procs \cup Dbs,
         ~offsetExists(s, k)
  PROVE  /\ Range(offsetSet(s, k, v).nodes) = Range(s.nodes) \cup {Node(k, v)}
         /\ Node(k, v).key = k /\ Node(k, v).val = v
<1> DEFINE n == Len(s.nodes)
           t == offsetSet(s, k, v).nodes
<1>1. t = Append(s.nodes, Node(k, v)) /\ Node(k, v) \in NodeType
  BY valsSet DEF Node, NodeType
<1>2. /\ n \in Nat /\ DOMAIN s.nodes = 1..n /\ DOMAIN t = 1..(n + 1)
      /\ t[n + 1] = Node(k, v) /\ \A j \in 1..n : t[j] = s.nodes[j]
  BY <1>1, StorageFields, AppendProperties
<1> HIDE DEF t, n
<1>3. n + 1 \in 1..(n + 1) /\ \A j \in 1..(n + 1) : j = n + 1 \/ j \in 1..n
  BY <1>2
<1>4. 1..n \subseteq 1..(n + 1)
  BY <1>2
<1>5. Range(t) = Range(s.nodes) \cup {Node(k, v)}
  BY <1>2, <1>3, <1>4 DEF Range
<1> QED
  BY <1>5 DEF t, Node

\* ... and with one less.
LEMMA RangeRemove ==
  ASSUME NEW s \in StorageType, NEW i \in DOMAIN s.nodes
  PROVE  Range(RemoveAt(s.nodes, i)) = Range(s.nodes) \ {s.nodes[i]}
<1>1. s.nodes \in Seq(NodeType) /\ IsInjective(s.nodes)
  BY StorageFields DEF IsInjective
<1> QED
  BY <1>1, QueueRemove

\* A key above all others keeps a storage numbered.
LEMMA NumberedSet ==
  ASSUME NEW s \in StorageType, Numbered(s), NEW k \in Int, NEW p \in Procs,
         \A n \in Range(s.nodes) : n.key < k
  PROVE  ~offsetExists(s, k) /\ Numbered(offsetSet(s, k, p))
<1> DEFINE n == Len(s.nodes)
           t == offsetSet(s, k, p).nodes
<1>1. ~offsetExists(s, k)
  BY RangeOf
<1>2. t = Append(s.nodes, Node(k, p)) /\ Node(k, p) \in NodeType /\ Node(k, p).key = k
  BY <1>1, valsSet DEF Node, NodeType
<1>3. /\ n \in Nat /\ DOMAIN s.nodes = 1..n /\ DOMAIN t = 1..(n + 1)
      /\ t[n + 1].key = k /\ \A j \in 1..n : t[j] = s.nodes[j]
  BY <1>2, StorageFields, AppendProperties
<1>4. \A j \in 1..n : s.nodes[j].key < k
  BY <1>3 DEF Range
<1>5. \A m \in Range(t) : m.val \in Procs
  BY <1>1, RangeSet DEF Numbered
<1> HIDE DEF t, n
<1>6. ASSUME NEW i \in 1..(n + 1), NEW j \in 1..(n + 1), i < j
      PROVE  t[i].key < t[j].key
  <2>1. i \in 1..n /\ (j = n + 1 \/ j \in 1..n)
    BY <1>3, <1>6
  <2>2. CASE j = n + 1
    BY <1>3, <1>4, <2>1, <2>2
  <2>3. CASE j \in 1..n
    BY <1>3, <1>6, <2>1, <2>3 DEF Numbered
  <2> QED
    BY <2>1, <2>2, <2>3
<1> QED
  BY <1>1, <1>3, <1>5, <1>6 DEF Numbered, t

LEMMA NumberedRemove ==
  ASSUME NEW s \in StorageType, Numbered(s), NEW i \in DOMAIN s.nodes, NEW t,
         t.nodes = RemoveAt(s.nodes, i)
  PROVE  Numbered(t)
<1> DEFINE r == RemoveAt(s.nodes, i)
           n == Len(s.nodes)
<1>1. /\ n \in Nat /\ i \in 1..n /\ DOMAIN s.nodes = 1..n /\ DOMAIN r = 1..(n - 1)
      /\ \A j \in 1..(n - 1) : r[j] = IF j < i THEN s.nodes[j] ELSE s.nodes[j + 1]
  BY StorageFields, RemoveAtElements
<1>2. \A m \in Range(r) : m.val \in Procs
  BY RangeRemove DEF Numbered
<1> HIDE DEF r, n
<1>3. ASSUME NEW j \in 1..(n - 1), NEW m \in 1..(n - 1), j < m
      PROVE  r[j].key < r[m].key
  <2> DEFINE a == IF j < i THEN j ELSE j + 1
             b == IF m < i THEN m ELSE m + 1
  <2>1. a \in 1..n /\ b \in 1..n /\ a < b /\ r[j] = s.nodes[a] /\ r[m] = s.nodes[b]
    BY <1>1, <1>3
  <2> HIDE DEF a, b
  <2> QED
    BY <1>1, <2>1 DEF Numbered
<1> QED
  BY <1>1, <1>2, <1>3 DEF Numbered, r

\* The last process of a numbered storage has its greatest key.
LEMMA NumberedLast ==
  ASSUME NEW s \in StorageType, Numbered(s), valid(end(s))
  PROVE  \E n \in Range(s.nodes) : /\ n.val = current(end(s))
                                   /\ \A m \in Range(s.nodes) : m.key <= n.key
<1> DEFINE k == Len(s.nodes)
<1>1. end(s).nodes = s.nodes /\ s.nodes # <<>>
  <2>1. s.nodes = <<>> => DOMAIN s.nodes = {}
    OBVIOUS
  <2> QED
    BY <2>1, valsIterated DEF valid, end
<1>2. k \in Nat /\ DOMAIN s.nodes = 1..k /\ k \in 1..k
  BY <1>1, StorageFields, EmptySeq
<1>3. end(s).ptr = k
  BY <1>1 DEF end, StorageType
<1>4. s.nodes[k] \in Range(s.nodes) /\ s.nodes[k].val = current(end(s))
  BY <1>1, <1>2, <1>3 DEF current, Range
<1>5. ASSUME NEW j \in 1..k PROVE s.nodes[j].key <= s.nodes[k].key
  <2>1. s.nodes[j].key \in Int /\ s.nodes[k].key \in Int
    BY <1>2, NodeFields
  <2>2. CASE j = k
    BY <2>1, <2>2
  <2>3. CASE j < k
    BY <1>2, <2>1, <2>3 DEF Numbered
  <2> QED
    BY <1>2, <2>2, <2>3
<1>6. \A m \in Range(s.nodes) : \E j \in 1..k : m = s.nodes[j]
  BY <1>2 DEF Range
<1> HIDE DEF k
<1> QED
  BY <1>4, <1>5, <1>6

----------------------------------------------------------------------------
(* Where the processes are.                                                *)

\* The processes of a database and of its sub-databases, one level down.
Held(h, d) ==
  {r \in Procs : r \in vals(h.store[d])
                   \/ \E v \in vals(h.store[d]) \cap Dbs : r \in vals(h.store[v])}

\* A database that another one holds is numbered, and holds no databases.
LEMMA OnceSub ==
  ASSUME NEW h \in HeapType, Once(h), NEW d \in Dbs, NEW v \in Dbs, v \in vals(h.store[d])
  PROVE  Numbered(h.store[v]) /\ vals(h.store[v]) \subseteq Procs
<1>1. h.store[d] \in StorageType /\ h.store[v] \in StorageType
  BY HeapFields
<1>2. \E n \in SubNodes(h.store[d]) : n.val = v
  BY <1>1, RangeOf
<1>3. Numbered(h.store[v])
  BY <1>2 DEF Once
<1> QED
  BY <1>1, <1>3, RangeOf DEF Numbered

LEMMA MembersHeld ==
  ASSUME NEW h \in HeapType, Once(h), NEW d \in Dbs
  PROVE  Members(h)[d] = Held(h, d)
<1>1. ASSUME NEW v \in vals(h.store[d]) \cap Dbs
      PROVE  Members(h)[v] = vals(h.store[v])
  <2>1. vals(h.store[v]) \subseteq Procs
    BY OnceSub
  <2>2. vals(h.store[v]) \cap Dbs = {}
    BY <2>1, DisjointObjects
  <2>3. Members(h)[v] = (vals(h.store[v]) \cap Procs)
                          \cup UNION {Members(h)[y] : y \in vals(h.store[v]) \cap Dbs}
    BY MembersStep
  <2> QED
    BY <2>1, <2>2, <2>3
<1>2. Members(h)[d] = (vals(h.store[d]) \cap Procs)
                        \cup UNION {Members(h)[v] : v \in vals(h.store[d]) \cap Dbs}
  BY MembersStep
<1>3. \A v \in vals(h.store[d]) \cap Dbs : vals(h.store[v]) \subseteq Procs
  BY OnceSub
<1> QED
  BY <1>1, <1>2, <1>3 DEF Held

\* Nothing else matters about a heap than its nodes, and the priorities of the
\* processes in them.
LEMMA OnceSame ==
  ASSUME NEW h \in HeapType, NEW g \in HeapType, Once(h),
         \A d \in Dbs : g.store[d].nodes = h.store[d].nodes,
         \A q \in Installed(h) : g.prio[q] = h.prio[q]
  PROVE  Once(g) /\ Installed(g) = Installed(h) /\ \A d \in Dbs : Held(g, d) = Held(h, d)
<1>1. \A d \in Dbs : /\ vals(g.store[d]) = vals(h.store[d])
                     /\ NodesIn(g, d) = NodesIn(h, d)
                     /\ SubNodes(g.store[d]) = SubNodes(h.store[d])
                     /\ Numbered(h.store[d]) => Numbered(g.store[d])
  BY DEF vals, NodesIn, SubNodes, Numbered
<1>2. \A d \in Dbs : \A n \in NodesIn(h, d) : n.val \in Procs => n.val \in Installed(h)
  BY HeapFields, RangeOf DEF NodesIn, Installed
<1>3. \A d \in Dbs : \A n \in SubNodes(h.store[d]) : n.val \in Dbs
  BY SubNodesOf
<1>4. Once(g)
  BY <1>1, <1>2, <1>3 DEF Once
<1>5. Installed(g) = Installed(h)
  BY <1>1 DEF Installed
<1>6. \A d \in Dbs : Held(g, d) = Held(h, d)
  BY <1>1 DEF Held
<1> QED
  BY <1>4, <1>5, <1>6

LEMMA OnceUnaltered ==
  ASSUME NEW h \in HeapType, NEW g \in HeapType, Once(h), Unaltered(h, g)
  PROVE  Once(g) /\ Installed(g) = Installed(h) /\ \A d \in Dbs : Members(g)[d] = Members(h)[d]
<1>1. Once(g) /\ Installed(g) = Installed(h) /\ \A d \in Dbs : Held(g, d) = Held(h, d)
  BY OnceSame DEF Unaltered
<1> QED
  BY <1>1, MembersHeld

\* Heap g is heap h with process p, which was nowhere, in a new node n of
\* database x.
Stores(h, g, x, p, n) ==
  /\ p \notin Installed(h)
  /\ n.val = p /\ n.key = h.prio[p] /\ g.prio = h.prio
  /\ NodesIn(g, x) = NodesIn(h, x) \cup {n}
  /\ Numbered(g.store[x]) \/ \A d \in Dbs : x \notin vals(h.store[d])
  /\ \A d \in Dbs : d # x => g.store[d] = h.store[d]

LEMMA OnceStored ==
  ASSUME NEW h \in HeapType, NEW g \in HeapType, Once(h), NEW x \in Dbs,
         NEW p \in Procs, NEW n, Stores(h, g, x, p, n)
  PROVE  /\ Once(g) /\ Installed(g) = Installed(h) \cup {p}
         /\ \A d \in Dbs : vals(g.store[d]) = IF d = x THEN vals(h.store[d]) \cup {p}
                                                       ELSE vals(h.store[d])
<1>0. /\ p \notin Installed(h)
      /\ n.val = p /\ n.key = h.prio[p] /\ g.prio = h.prio
      /\ NodesIn(g, x) = NodesIn(h, x) \cup {n}
      /\ Numbered(g.store[x]) \/ \A d \in Dbs : x \notin vals(h.store[d])
      /\ \A d \in Dbs : d # x => g.store[d] = h.store[d]
  BY DEF Stores
<1>1. /\ \A d \in Dbs : \A m \in NodesIn(h, d) : m.val \in Procs => m.val \in Installed(h)
      /\ \A d \in Dbs : \A v : v \in vals(h.store[d]) <=> \E m \in NodesIn(h, d) : m.val = v
      /\ \A d \in Dbs : \A v : v \in vals(g.store[d]) <=> \E m \in NodesIn(g, d) : m.val = v
      /\ \A d \in Dbs : \A m : m \in SubNodes(h.store[d]) <=> m \in NodesIn(h, d) /\ m.val \in Dbs
      /\ \A d \in Dbs : \A m : m \in SubNodes(g.store[d]) <=> m \in NodesIn(g, d) /\ m.val \in Dbs
  BY HeapFields, RangeOf DEF NodesIn, Installed
<1>2. \A d \in Dbs : NodesIn(g, d) = IF d = x THEN NodesIn(h, d) \cup {n} ELSE NodesIn(h, d)
  BY <1>0 DEF NodesIn
<1>3. \A d \in Dbs : vals(g.store[d]) = IF d = x THEN vals(h.store[d]) \cup {p} ELSE vals(h.store[d])
  <2> SUFFICES ASSUME NEW d \in Dbs, NEW v
               PROVE  v \in vals(g.store[d]) <=> v \in vals(h.store[d]) \/ (d = x /\ v = p)
    OBVIOUS
  <2> QED
    BY <1>0, <1>1, <1>2
<1>4. Installed(g) = Installed(h) \cup {p}
  <2> SUFFICES ASSUME NEW v PROVE v \in Installed(g) <=> v \in Installed(h) \/ v = p
    OBVIOUS
  <2>1. /\ v \in Installed(g) <=> v \in Procs /\ \E d \in Dbs : v \in vals(g.store[d])
        /\ v \in Installed(h) <=> v \in Procs /\ \E d \in Dbs : v \in vals(h.store[d])
    BY DEF Installed
  <2>2. \A d \in Dbs : v \in vals(g.store[d]) <=> v \in vals(h.store[d]) \/ (d = x /\ v = p)
    BY <1>3
  <2> QED
    BY <2>1, <2>2
<1>5. \A d, e \in Dbs : \A m \in NodesIn(g, d), k \in NodesIn(g, e) :
        m.val \in Procs /\ m.val = k.val => d = e /\ m = k
  <2>1. \A d, e \in Dbs : \A m \in NodesIn(h, d), k \in NodesIn(h, e) :
          m.val \in Procs /\ m.val = k.val => d = e /\ m = k
    BY DEF Once
  <2>2. \A d \in Dbs : \A m \in NodesIn(h, d) : m.val # p
    BY <1>0, <1>1
  <2> QED
    BY <1>0, <1>2, <2>1, <2>2
<1>6. \A d \in Dbs : \A m \in NodesIn(g, d) : m.val \in Procs => m.key = g.prio[m.val]
  BY <1>0, <1>2 DEF Once
<1>7. ASSUME NEW d \in Dbs, NEW m \in SubNodes(g.store[d]) PROVE Numbered(g.store[m.val])
  <2>1. m \in SubNodes(h.store[d]) /\ m.val \in Dbs
    BY <1>0, <1>1, <1>2, <1>7, DisjointObjects
  <2>2. Numbered(h.store[m.val]) /\ m.val \in vals(h.store[d])
    BY <1>1, <2>1 DEF Once
  <2> QED
    BY <1>0, <2>1, <2>2
<1> QED
  BY <1>3, <1>4, <1>5, <1>6, <1>7 DEF Once

----------------------------------------------------------------------------
(* An install of a process that is nowhere stores it in the database that  *)
(* install() was called on, or in a sub-database of it.                    *)

\* A database of heap h holds in heap g the sub-databases it held.
SubsKept(h, g) == \A y \in Dbs : vals(h.store[y]) \cap Dbs \subseteq vals(g.store[y])

\* A pass of an install of p on database d of heap h: it is on d, or on a
\* sub-database of d all keys of which are below the priority of p; in the end
\* p is among what d holds, unless PHP gave up.
OncePass(c, h, d, p, roots) ==
  /\ InstallForest(c, roots, h.unused)
  /\ Once(c.heap)
  /\ c.heap.exhaust = h.exhaust
  /\ d \in roots
  /\ c.at = d \/ c.at \in vals(c.heap.store[d])
  /\ ~c.done => /\ p \notin Installed(c.heap)
                /\ c.at # d => \A n \in NodesIn(c.heap, c.at) : n.key < c.heap.prio[p]
  /\ Installed(c.heap) \subseteq Installed(h) \cup {p}
  /\ SubsKept(h, c.heap)
  /\ \/ \A e \in roots : Held(c.heap, e) = Held(h, e)
     \/ /\ c.done
        /\ \A e \in roots : Held(c.heap, e) = Held(h, e) \cup (IF e = d THEN {p} ELSE {})

\* A root is no sub-database, and a sub-database is that of one database only.
LEMMA Apart ==
  ASSUME NEW h \in HeapType, NEW roots, ForestOf(h, roots), NEW d \in Dbs, NEW v \in Dbs,
         v \in vals(h.store[d])
  PROVE  /\ v \notin roots /\ v \notin h.unused
         /\ \A e \in Dbs : v \in vals(h.store[e]) => e = d
<1>1. \A e \in Dbs : v \in vals(h.store[e]) => \E n \in SubNodes(h.store[e]) : n.val = v
  BY HeapFields, RangeOf
<1>2. PICK n \in SubNodes(h.store[d]) : n.val = v
  BY <1>1
<1> QED
  BY <1>1, <1>2, ForestFacts

LEMMA InstallNodeOnce ==
  ASSUME NEW c, NEW h, NEW d \in Dbs, NEW p \in Procs, NEW roots \in SUBSET Dbs,
         OncePass(c, h, d, p, roots), ~c.done, ~Taken(c, p)
  PROVE  OncePass(InstallNode(c, p), h, d, p, roots)
<1> DEFINE i == InstallNode(c, p)
           f == c.heap
           g == i.heap
           x == c.at
           s == offsetSet(f.store[x], f.prio[p], p)
           n == Node(f.prio[p], p)
<1>1. /\ c \in CallType /\ f \in HeapType /\ x \in Dbs /\ f.store[x] \in StorageType
      /\ f.prio[p] \in Int /\ ForestOf(f, roots) /\ InstallForest(c, roots, h.unused)
  BY CallFields, HeapFields DEF OncePass, InstallForest
<1>2. InstallForest(i, roots, h.unused) /\ g \in HeapType
  <2>1. InstallForest(i, roots, h.unused)
    BY <1>1, InstallNodeForest
  <2> QED
    BY <2>1, CallFields DEF InstallForest
<1>3. /\ i.done /\ i.at = x /\ g.exhaust = f.exhaust /\ g.prio = f.prio
      /\ g.store = [f.store EXCEPT ![x] = s]
  BY <1>1 DEF InstallNode, CallType, HeapType
<1>4. /\ n.val = p /\ n.key = f.prio[p]
      /\ Range(s.nodes) = NodesIn(f, x) \cup {n}
  <2> DEFINE t == f.store[x]
             k == f.prio[p]
  <2>1. t \in StorageType /\ k \in Int /\ ~offsetExists(t, k)
    BY <1>1 DEF Taken
  <2> HIDE DEF t, k
  <2>2. /\ Range(offsetSet(t, k, p).nodes) = Range(t.nodes) \cup {Node(k, p)}
        /\ Node(k, p).key = k /\ Node(k, p).val = p
    BY <2>1, RangeSet
  <2> QED
    BY <2>2 DEF NodesIn, t, k
<1>5. (\A y \in Dbs : x \notin vals(f.store[y])) \/ Numbered(s)
  <2>1. CASE x = d
    BY <1>1, <2>1, Apart DEF OncePass
  <2>2. CASE x # d
    <3>1. Numbered(f.store[x])
      BY <1>1, <2>2, OnceSub DEF OncePass
    <3>2. \A m \in Range(f.store[x].nodes) : m.key < f.prio[p]
      BY <2>2 DEF OncePass, NodesIn
    <3> QED
      BY <1>1, <3>1, <3>2, NumberedSet
  <2> QED
    BY <2>1, <2>2
<1> HIDE DEF i, s, n
<1>6. g.store[x] = s /\ \A y \in Dbs : y # x => g.store[y] = f.store[y]
  BY <1>1, <1>3, HeapFields
<1>7. /\ Once(g) /\ Installed(g) = Installed(f) \cup {p}
      /\ \A y \in Dbs : vals(g.store[y]) = IF y = x THEN vals(f.store[y]) \cup {p}
                                                    ELSE vals(f.store[y])
  <2>1. NodesIn(g, x) = NodesIn(f, x) \cup {n}
    BY <1>4, <1>6 DEF NodesIn
  <2>2. Numbered(g.store[x]) \/ \A y \in Dbs : x \notin vals(f.store[y])
    BY <1>5, <1>6
  <2>3. Once(f) /\ p \notin Installed(f)
    BY DEF OncePass
  <2>4. f \in HeapType /\ g \in HeapType /\ x \in Dbs /\ g.prio = f.prio
    BY <1>1, <1>2, <1>3
  <2>5. n.val = p /\ n.key = f.prio[p] /\ \A y \in Dbs : y # x => g.store[y] = f.store[y]
    BY <1>4, <1>6
  <2> HIDE DEF f, x, g
  <2>6. Stores(f, g, x, p, n)
    BY <2>1, <2>2, <2>3, <2>4, <2>5 DEF Stores
  <2> QED
    BY <2>3, <2>4, <2>6, OnceStored
<1>8. \A e \in roots : Held(g, e) = Held(f, e) \cup (IF e = d THEN {p} ELSE {})
  <2>1. CASE x = d
    <3>1. \A y \in Dbs : d \notin vals(f.store[y])
      BY <1>1, Apart DEF OncePass
    <3> HIDE DEF f, x, g
    <3>2. \A y \in Dbs : vals(g.store[y]) \cap Dbs = vals(f.store[y]) \cap Dbs
      BY <1>7, DisjointObjects
    <3> SUFFICES ASSUME NEW e \in roots, NEW r \in Procs
                 PROVE  r \in Held(g, e) <=> r \in Held(f, e) \/ (e = d /\ r = p)
      BY DEF Held
    <3>3. \A v \in vals(f.store[e]) \cap Dbs : vals(g.store[v]) = vals(f.store[v])
      BY <1>7, <2>1, <3>1
    <3> QED
      BY <1>7, <2>1, <3>2, <3>3 DEF Held
  <2>2. CASE x # d
    <3>1. x \in vals(f.store[d]) /\ d \in roots
      BY <2>2 DEF OncePass
    <3>2. x \notin roots /\ \A e \in Dbs : x \in vals(f.store[e]) => e = d
      BY <1>1, <3>1, Apart
    <3> HIDE DEF f, x, g
    <3>3. \A y \in Dbs : vals(g.store[y]) \cap Dbs = vals(f.store[y]) \cap Dbs
      BY <1>7, DisjointObjects
    <3> SUFFICES ASSUME NEW e \in roots, NEW r \in Procs
                 PROVE  r \in Held(g, e) <=> r \in Held(f, e) \/ (e = d /\ r = p)
      BY DEF Held
    <3>4. vals(g.store[e]) = vals(f.store[e])
      BY <1>7, <3>2
    <3>5. r \in Held(f, e) <=> \/ r \in vals(f.store[e])
                              \/ \E v \in vals(f.store[e]) \cap Dbs : r \in vals(f.store[v])
      BY DEF Held
    <3>6. r \in Held(g, e) <=> \/ r \in vals(f.store[e])
                              \/ \E v \in vals(f.store[e]) \cap Dbs : r \in vals(g.store[v])
      BY <3>4 DEF Held
    <3>7. \A v \in vals(f.store[e]) \cap Dbs :
            r \in vals(g.store[v]) <=> r \in vals(f.store[v]) \/ (v = x /\ r = p)
      <4> TAKE v \in vals(f.store[e]) \cap Dbs
      <4>1. vals(g.store[v]) = IF v = x THEN vals(f.store[v]) \cup {p} ELSE vals(f.store[v])
        BY <1>7
      <4> QED
        BY <4>1
    <3>8. x \in vals(f.store[e]) \cap Dbs <=> e = d
      BY <1>1, <3>1, <3>2
    <3> QED
      BY <3>5, <3>6, <3>7, <3>8
  <2> QED
    BY <2>1, <2>2
<1>9. (\A e \in roots : Held(f, e) = Held(h, e)) /\ SubsKept(h, f)
  BY DEF OncePass
<1>10. x = d \/ x \in vals(g.store[d])
  BY <1>7 DEF OncePass
<1>11. SubsKept(h, g)
  BY <1>7, <1>9 DEF SubsKept
<1> QED
  BY <1>2, <1>3, <1>7, <1>8, <1>9, <1>10, <1>11 DEF OncePass, i

\* The keys of a sub-database leave the pass the next one.
LEMMA PassTaken ==
  ASSUME NEW c, NEW h, NEW d \in Dbs, NEW p \in Procs, NEW roots,
         OncePass(c, h, d, p, roots), ~c.done, Taken(c, p)
  PROVE  c.at = d
<1> DEFINE f == c.heap
           x == c.at
<1>1. f \in HeapType /\ x \in Dbs /\ f.store[x] \in StorageType /\ f.prio[p] \in Int
  BY CallFields, HeapFields DEF OncePass, InstallForest
<1>2. PICK n \in Range(f.store[x].nodes) : n.key = f.prio[p]
  BY <1>1, RangeOf DEF Taken
<1>3. x # d => n.key < f.prio[p]
  BY <1>2 DEF OncePass, NodesIn
<1> QED
  BY <1>1, <1>2, <1>3

LEMMA InstallInSubDatabaseOnce ==
  ASSUME NEW c, NEW h, NEW d \in Dbs, NEW p \in Procs, NEW roots \in SUBSET Dbs,
         OncePass(c, h, d, p, roots), ~c.done, Taken(c, p), Found(c, p) \in Dbs
  PROVE  OncePass(InstallInSubDatabase(c, Found(c, p), p), h, d, p, roots)
<1> DEFINE f == c.heap
           sub == Found(c, p)
           i == InstallInSubDatabase(c, sub, p)
           g == i.heap
           ending == end(f.store[sub])
           last == current(ending)
<1>1. /\ c \in CallType /\ f \in HeapType /\ c.at = d /\ f.store[d] \in StorageType
      /\ f.store[sub] \in StorageType /\ Once(f)
      /\ f.prio[p] \in Int /\ ForestOf(f, roots) /\ InstallForest(c, roots, h.unused)
  <2>1. c.at = d /\ Once(f) /\ InstallForest(c, roots, h.unused)
    BY PassTaken DEF OncePass
  <2>2. c \in CallType /\ ForestOf(f, roots)
    BY <2>1 DEF InstallForest
  <2> QED
    BY <2>1, <2>2, CallFields, HeapFields
<1>2. sub \in vals(f.store[d]) /\ sub \notin f.unused
  <2>1. \E n \in Range(f.store[d].nodes) : n.val = sub
    BY <1>1, RangeFound DEF Taken, Found
  <2>2. sub \in vals(f.store[d])
    BY <1>1, <2>1, RangeOf
  <2> QED
    BY <1>1, <2>2, Apart
<1>3. InstallForest(i, roots, h.unused) /\ g \in HeapType
  <2>1. InstallForest(i, roots, h.unused)
    BY <1>1, <1>2, InstallInSubDatabaseForest
  <2> QED
    BY <2>1, CallFields DEF InstallForest
<1>4. Numbered(f.store[sub])
  BY <1>1, <1>2, OnceSub
<1>5. /\ p \notin Installed(f) /\ f.exhaust = h.exhaust /\ d \in roots
      /\ Installed(f) \subseteq Installed(h) \cup {p}
      /\ \A e \in roots : Held(f, e) = Held(h, e)
      /\ SubsKept(h, f)
  BY DEF OncePass
<1>6. valid(ending) /\ last \in Procs => OncePass(i, h, d, p, roots)
  <2> HAVE valid(ending) /\ last \in Procs
  <2>1. /\ g.store = [f.store EXCEPT ![sub] = ending]
        /\ g.prio = [f.prio EXCEPT ![p] = f.prio[last] + 1]
        /\ i.at = sub /\ ~i.done /\ g.exhaust = f.exhaust
    BY <1>1 DEF InstallInSubDatabase, CallType, HeapType
  <2>2. ending.nodes = f.store[sub].nodes
    BY <1>1, valsIterated
  <2>3. PICK n \in Range(f.store[sub].nodes) :
          n.val = last /\ \A m \in Range(f.store[sub].nodes) : m.key <= n.key
    BY <1>1, <1>4, NumberedLast
  <2>4. n.key = f.prio[last]
    BY <1>1, <2>3 DEF Once, NodesIn
  <2> HIDE DEF f, sub, i, g, ending, last
  <2>5. g.prio[p] = f.prio[last] + 1 /\ \A q \in Procs : q # p => g.prio[q] = f.prio[q]
    BY <1>1, <2>1, HeapFields
  <2>6. \A y \in Dbs : g.store[y].nodes = f.store[y].nodes
    BY <1>1, <2>1, <2>2, HeapFields
  <2>7. \A q \in Installed(f) : g.prio[q] = f.prio[q]
    BY <1>5, <2>5 DEF Installed
  <2>8. Once(g) /\ Installed(g) = Installed(f) /\ \A y \in Dbs : Held(g, y) = Held(f, y)
    BY <1>1, <1>3, <2>6, <2>7, OnceSame
  <2>9. sub \in vals(g.store[d])
    BY <1>2, <2>6 DEF vals
  <2>10. \A m \in NodesIn(g, sub) : m.key < g.prio[p]
    <3>1. NodesIn(g, sub) = Range(f.store[sub].nodes)
      BY <1>1, <2>1, <2>2, HeapFields DEF NodesIn
    <3>2. \A m \in Range(f.store[sub].nodes) : m.key \in Int
      BY <1>1, RangeOf
    <3>3. n.key \in Int
      BY <2>3, <3>2
    <3> QED
      BY <2>3, <2>4, <2>5, <3>1, <3>2, <3>3
  <2>11. \A e \in roots : Held(g, e) = Held(h, e)
    BY <1>5, <2>8
  <2>12. SubsKept(h, g)
    BY <1>5, <2>6 DEF SubsKept, vals
  <2> QED
    BY <1>3, <1>5, <2>1, <2>8, <2>9, <2>10, <2>11, <2>12 DEF OncePass, g
<1>7. ~(valid(ending) /\ last \in Procs) => OncePass(i, h, d, p, roots)
  <2> HAVE ~(valid(ending) /\ last \in Procs)
  <2>1. /\ g.store = f.store /\ g.prio = f.prio
        /\ i.at = d /\ i.done /\ g.exhaust = f.exhaust
    BY <1>1 DEF InstallInSubDatabase, CallType, HeapType
  <2> HIDE DEF f, sub, i, g, ending, last
  <2>2. Once(g) /\ Installed(g) = Installed(f) /\ \A y \in Dbs : Held(g, y) = Held(f, y)
    BY <1>1, <1>3, <2>1, OnceSame
  <2>3. (\A e \in roots : Held(g, e) = Held(h, e)) /\ SubsKept(h, g)
    BY <1>5, <2>1, <2>2 DEF SubsKept
  <2> QED
    BY <1>3, <1>5, <2>1, <2>2, <2>3 DEF OncePass, g
<1> QED
  BY <1>6, <1>7

\* Heap g is heap h with process q, which was in node n of database d, in a new
\* sub-database of d, which has the key of n.
MakesRoom(h, g, d, q, n, sub) ==
  /\ n \in NodesIn(h, d) /\ n.val = q
  /\ sub \in h.unused /\ h.store[sub] = empty /\ sub # d
  /\ NodesIn(g, sub) = {Node(1, q)} /\ Numbered(g.store[sub])
  /\ NodesIn(g, d) = (NodesIn(h, d) \ {n}) \cup {Node(n.key, sub)}
  /\ \A y \in Dbs : y # d /\ y # sub => g.store[y] = h.store[y]
  /\ g.prio = [h.prio EXCEPT ![q] = 1]

LEMMA OnceMoved ==
  ASSUME NEW h \in HeapType, NEW g \in HeapType, Once(h), NEW roots \in SUBSET Dbs,
         ForestOf(h, roots), NEW d \in roots, NEW q \in Procs, NEW n, NEW sub \in Dbs,
         MakesRoom(h, g, d, q, n, sub)
  PROVE  /\ Once(g) /\ Installed(g) = Installed(h) /\ SubsKept(h, g)
         /\ \A e \in roots : Held(g, e) = Held(h, e)
<1>1. /\ n \in NodesIn(h, d) /\ n.val = q /\ sub \in h.unused /\ h.store[sub] = empty /\ sub # d
      /\ NodesIn(g, sub) = {Node(1, q)} /\ Numbered(g.store[sub])
      /\ NodesIn(g, d) = (NodesIn(h, d) \ {n}) \cup {Node(n.key, sub)}
      /\ g.prio = [h.prio EXCEPT ![q] = 1]
  BY DEF MakesRoom
<1>2. \A y \in Dbs : y # d /\ y # sub => g.store[y] = h.store[y]
  BY DEF MakesRoom
<1>3. /\ \A y \in Dbs : \A v : v \in vals(h.store[y]) <=> \E m \in NodesIn(h, y) : m.val = v
      /\ \A y \in Dbs : \A v : v \in vals(g.store[y]) <=> \E m \in NodesIn(g, y) : m.val = v
      /\ \A y \in Dbs : \A m : m \in SubNodes(h.store[y]) <=> m \in NodesIn(h, y) /\ m.val \in Dbs
      /\ \A y \in Dbs : \A m : m \in SubNodes(g.store[y]) <=> m \in NodesIn(g, y) /\ m.val \in Dbs
  BY HeapFields, RangeOf DEF NodesIn
<1>4. Node(1, q).val = q /\ Node(1, q).key = 1 /\ Node(n.key, sub).val = sub
  BY DEF Node
<1>5. NodesIn(h, sub) = {} /\ vals(h.store[sub]) = {}
  BY <1>1 DEF NodesIn, Range, empty, vals
\* The process was in no other node.
<1>6. \A y \in Dbs : \A m \in NodesIn(h, y) : m.val = q => y = d /\ m = n
  BY <1>1 DEF Once
<1>7. /\ vals(g.store[sub]) = {q}
      /\ vals(g.store[d]) = (vals(h.store[d]) \ {q}) \cup {sub}
      /\ q \in vals(h.store[d])
  <2>1. vals(g.store[sub]) = {q}
    BY <1>1, <1>3, <1>4
  <2>2. ASSUME NEW v PROVE v \in vals(g.store[d]) <=> v \in (vals(h.store[d]) \ {q}) \cup {sub}
    <3>1. v \in vals(g.store[d]) <=> \E m \in NodesIn(g, d) : m.val = v
      BY <1>3
    <3>2. (\E m \in NodesIn(g, d) : m.val = v) <=> v = sub \/ \E m \in NodesIn(h, d) : m # n /\ m.val = v
      BY <1>1, <1>4
    <3>3. (\E m \in NodesIn(h, d) : m # n /\ m.val = v) <=> v \in vals(h.store[d]) /\ v # q
      BY <1>1, <1>3, <1>6
    <3> QED
      BY <3>1, <3>2, <3>3
  <2>3. q \in vals(h.store[d])
    BY <1>1, <1>3
  <2> QED
    BY <2>1, <2>2, <2>3
<1>8. Installed(g) = Installed(h)
  <2> SUFFICES ASSUME NEW v \in Procs
               PROVE  (\E y \in Dbs : v \in vals(g.store[y])) <=> \E y \in Dbs : v \in vals(h.store[y])
    BY DEF Installed
  <2> QED
    BY <1>2, <1>5, <1>7, DisjointObjects
<1>9. ASSUME NEW y \in Dbs, NEW m \in NodesIn(g, y), m.val \in Procs
      PROVE  \/ m.val = q /\ y = sub /\ m = Node(1, q)
             \/ m.val # q /\ y # sub /\ m \in NodesIn(h, y)
  <2>1. CASE y = sub
    BY <1>1, <1>4, <1>9, <2>1
  <2>2. CASE y = d
    BY <1>1, <1>4, <1>6, <1>9, <2>2, DisjointObjects
  <2>3. CASE y # sub /\ y # d
    BY <1>2, <1>6, <1>9, <2>3 DEF NodesIn
  <2> QED
    BY <2>1, <2>2, <2>3
<1>10. Once(g)
  <2>1. ASSUME NEW y \in Dbs, NEW z \in Dbs, NEW m \in NodesIn(g, y), NEW k \in NodesIn(g, z),
               m.val \in Procs, m.val = k.val
        PROVE  y = z /\ m = k
    <3>1. CASE m.val = q
      BY <1>9, <2>1, <3>1
    <3>2. CASE m.val # q
      <4>1. m \in NodesIn(h, y) /\ k \in NodesIn(h, z)
        BY <1>9, <2>1, <3>2
      <4> QED
        BY <2>1, <4>1 DEF Once
    <3> QED
      BY <3>1, <3>2
  <2>2. ASSUME NEW y \in Dbs, NEW m \in NodesIn(g, y), m.val \in Procs
        PROVE  m.key = g.prio[m.val]
    <3>1. g.prio[q] = 1 /\ \A r \in Procs : r # q => g.prio[r] = h.prio[r]
      BY <1>1, HeapFields
    <3>2. m \in NodesIn(h, y) => m.key = h.prio[m.val]
      BY <2>2 DEF Once
    <3> QED
      BY <1>4, <1>9, <2>2, <3>1, <3>2
  <2>3. ASSUME NEW y \in Dbs, NEW m \in SubNodes(g.store[y])
        PROVE  Numbered(g.store[m.val])
    <3>1. m \in NodesIn(g, y) /\ m.val \in Dbs
      BY <1>3, <2>3
    <3>2. CASE m.val = sub
      BY <1>1, <3>2
    <3>3. CASE m.val # sub
      <4>1. m \in NodesIn(h, y)
        <5>1. CASE y = sub
          BY <1>1, <1>4, <3>1, <5>1, DisjointObjects
        <5>2. CASE y = d
          BY <1>1, <1>4, <3>1, <3>3, <5>2
        <5>3. CASE y # sub /\ y # d
          BY <1>2, <3>1, <5>3 DEF NodesIn
        <5> QED
          BY <5>1, <5>2, <5>3
      <4>2. m \in SubNodes(h.store[y])
        BY <1>3, <3>1, <4>1
      <4>3. Numbered(h.store[m.val]) /\ m.val # d
        BY <4>2, ForestFacts DEF Once
      <4> QED
        BY <1>2, <3>1, <3>3, <4>3
    <3> QED
      BY <3>2, <3>3
  <2> QED
    BY <2>1, <2>2, <2>3 DEF Once
<1>11. ASSUME NEW e \in roots, NEW r \in Procs
       PROVE  r \in Held(g, e) <=> r \in Held(h, e)
  <2>1. e # sub /\ \A y \in Dbs : sub \notin vals(h.store[y]) /\ d \notin vals(h.store[y])
    <3>1. \A y \in Dbs : \A v \in Dbs : v \in vals(h.store[y]) => v \notin roots /\ v \notin h.unused
      BY Apart
    <3> QED
      BY <1>1, <3>1, ForestFacts
  <2>2. \A v \in Dbs : v # d /\ v # sub => vals(g.store[v]) = vals(h.store[v])
    BY <1>2
  <2>3. r \in Held(g, e) <=> \/ r \in vals(g.store[e])
                             \/ \E v \in vals(g.store[e]) \cap Dbs : r \in vals(g.store[v])
    BY DEF Held
  <2>4. r \in Held(h, e) <=> \/ r \in vals(h.store[e])
                             \/ \E v \in vals(h.store[e]) \cap Dbs : r \in vals(h.store[v])
    BY DEF Held
  <2>5. CASE e # d
    BY <2>1, <2>2, <2>3, <2>4, <2>5
  <2>6. CASE e = d
    <3>1. (\E v \in vals(g.store[d]) \cap Dbs : r \in vals(g.store[v])) <=>
            r = q \/ \E v \in vals(h.store[d]) \cap Dbs : r \in vals(h.store[v])
      BY <1>7, <2>1, <2>2, DisjointObjects
    <3>2. r \in vals(g.store[d]) <=> r \in vals(h.store[d]) /\ r # q
      BY <1>7, DisjointObjects
    <3> QED
      BY <1>7, <2>3, <2>4, <2>6, <3>1, <3>2
  <2> QED
    BY <2>5, <2>6
<1>12. \A e \in roots : Held(g, e) = Held(h, e)
  <2> TAKE e \in roots
  <2>1. Held(g, e) \subseteq Procs /\ Held(h, e) \subseteq Procs
    BY DEF Held
  <2> QED
    BY <1>11, <2>1
<1>13. SubsKept(h, g)
  BY <1>2, <1>5, <1>7, DisjointObjects DEF SubsKept
<1> QED
  BY <1>8, <1>10, <1>12, <1>13

LEMMA CreateSubDatabaseOnce ==
  ASSUME NEW c, NEW h, NEW d \in Dbs, NEW p \in Procs, NEW roots \in SUBSET Dbs,
         OncePass(c, h, d, p, roots), ~c.done, Taken(c, p), Found(c, p) \in Procs,
         c.heap.unused # {}
  PROVE  OncePass(CreateSubDatabase(c, Found(c, p), p), h, d, p, roots)
<1> DEFINE f     == c.heap
           q     == Found(c, p)
           i     == CreateSubDatabase(c, q, p)
           g     == i.heap
           key   == f.prio[p]
           sub   == CHOOSE x \in f.unused : TRUE
           prio  == [f.prio EXCEPT ![q] = XPSPL_SUBDATABASE_DEFAULT_PRIORITY]
           moved == offsetSet(empty, prio[q], q)
           keyed == offsetSet(offsetUnset(f.store[d], key), key, sub)
<1>1. /\ c \in CallType /\ f \in HeapType /\ c.at = d /\ f.store[d] \in StorageType
      /\ Once(f) /\ key \in Int /\ ForestOf(f, roots) /\ InstallForest(c, roots, h.unused)
      /\ d \in roots
  <2>1. c.at = d /\ Once(f) /\ InstallForest(c, roots, h.unused) /\ d \in roots
    BY PassTaken DEF OncePass
  <2>2. c \in CallType /\ ForestOf(f, roots)
    BY <2>1 DEF InstallForest
  <2> QED
    BY <2>1, <2>2, CallFields, HeapFields
<1>2. /\ g.store = [f.store EXCEPT ![sub] = moved, ![d] = keyed] /\ g.prio = prio
      /\ g.exhaust = f.exhaust /\ ~i.done /\ i.at = d
  BY <1>1 DEF CreateSubDatabase, CallType, HeapType
<1>3. sub \in f.unused /\ sub \in Dbs /\ sub # d /\ f.store[sub] = empty
  BY <1>1, HeapFields, ForestFacts DEF InstallForest
<1>4. InstallForest(i, roots, h.unused) /\ g \in HeapType
  <2>1. InstallForest(i, roots, h.unused)
    BY <1>1, CreateSubDatabaseForest
  <2> QED
    BY <2>1, CallFields DEF InstallForest
<1>5. prio = [f.prio EXCEPT ![q] = 1] /\ prio[q] = 1
  BY <1>1, HeapFields DEF XPSPL_SUBDATABASE_DEFAULT_PRIORITY
<1>6. moved.nodes = <<Node(1, q)>> /\ Range(moved.nodes) = {Node(1, q)} /\ Numbered(moved)
  <2>1. ~offsetExists(empty, 1) /\ Range(empty.nodes) = {}
    BY DEF empty, offsetExists, keys, Range
  <2>2. moved.nodes = <<Node(1, q)>>
    BY <1>5, <2>1, emptyType, valsSet DEF empty
  <2>3. Range(moved.nodes) = {Node(1, q)}
    BY <2>2 DEF Range
  <2>4. Node(1, q).val \in Procs
    BY DEF Node
  <2> HIDE DEF moved, q
  <2>5. \A a, b \in DOMAIN moved.nodes : ~(a < b)
    BY <2>2
  <2> QED
    BY <2>2, <2>3, <2>4, <2>5 DEF Numbered
<1>7. PICK n \in Range(f.store[d].nodes) :
        n.key = key /\ n.val = q /\ Range(keyed.nodes) = (Range(f.store[d].nodes) \ {n}) \cup {Node(n.key, sub)}
  <2> DEFINE t == f.store[d]
             u == offsetUnset(t, key)
  <2>1. t \in StorageType /\ offsetExists(t, key) /\ q = offsetGet(t, key) /\ sub \in Dbs /\ key \in Int
    BY <1>1, <1>3 DEF Taken, Found
  <2> HIDE DEF t, key, q, sub
  <2>2. PICK n \in Range(t.nodes) : n.key = key /\ n.val = q /\ n = t.nodes[PosOf(t, key)]
    BY <2>1, RangeFound
  <2>3. /\ PosOf(t, key) \in DOMAIN t.nodes /\ u = unsetAt(t, PosOf(t, key))
        /\ u \in StorageType /\ ~offsetExists(u, key)
    BY <2>1, valsUnset, offsetUnsetType
  <2>4. u.nodes = RemoveAt(t.nodes, PosOf(t, key))
    BY <2>1, <2>3, valsUnsetAt
  <2>5. Range(u.nodes) = Range(t.nodes) \ {n}
    BY <2>1, <2>2, <2>3, <2>4, RangeRemove
  <2> HIDE DEF u
  <2>6. Range(offsetSet(u, key, sub).nodes) = Range(u.nodes) \cup {Node(key, sub)}
    BY <2>1, <2>3, RangeSet
  <2> QED
    BY <2>2, <2>5, <2>6 DEF u, t
<1> HIDE DEF g, i, sub, prio, moved, keyed, key, q
<1>8. f.store \in [Dbs -> StorageType]
  BY <1>1, HeapFields
<1>9. MakesRoom(f, g, d, q, n, sub)
  <2> HIDE DEF f
  <2>1. /\ g.store[sub] = moved /\ g.store[d] = keyed
        /\ \A y \in Dbs : y # d /\ y # sub => g.store[y] = f.store[y]
    BY <1>2, <1>3, <1>8
  <2> QED
    BY <1>2, <1>3, <1>5, <1>6, <1>7, <2>1 DEF MakesRoom, NodesIn
<1>10. q \in Procs
  BY DEF q
<1>11. /\ Once(g) /\ Installed(g) = Installed(f) /\ SubsKept(f, g)
       /\ \A e \in roots : Held(g, e) = Held(f, e)
  <2> HIDE DEF f
  <2> QED
    BY <1>1, <1>3, <1>4, <1>9, <1>10, OnceMoved
<1>12. /\ p \notin Installed(f) /\ f.exhaust = h.exhaust
       /\ Installed(f) \subseteq Installed(h) \cup {p}
       /\ \A e \in roots : Held(f, e) = Held(h, e)
       /\ SubsKept(h, f)
  BY DEF OncePass
<1>13. (\A e \in roots : Held(g, e) = Held(h, e)) /\ SubsKept(h, g)
  BY <1>11, <1>12 DEF SubsKept
<1>14. OncePass(i, h, d, p, roots)
  BY <1>1, <1>2, <1>4, <1>11, <1>12, <1>13 DEF OncePass, g
<1> QED
  BY <1>14 DEF i, q

LEMMA InstallStepOnce ==
  ASSUME NEW c, NEW h, NEW d \in Dbs, NEW p \in Procs, NEW roots \in SUBSET Dbs,
         OncePass(c, h, d, p, roots)
  PROVE  OncePass(InstallStep(c, p), h, d, p, roots)
<1>1. CASE c.done
  BY <1>1 DEF InstallStep
<1>2. CASE ~c.done /\ ~Taken(c, p)
  BY <1>2, InstallNodeOnce DEF InstallStep
<1>3. CASE ~c.done /\ Taken(c, p)
  <2>1. c \in CallType
    BY DEF OncePass, InstallForest
  <2>2. Found(c, p) \in Procs \cup Dbs
    BY <1>3, <2>1, FoundType
  <2>3. CASE Found(c, p) \in Dbs
    BY <1>3, <2>3, InstallInSubDatabaseOnce DEF InstallStep
  <2>4. CASE Found(c, p) \notin Dbs
    BY <1>3, <2>2, <2>4, CreateSubDatabaseOnce DEF InstallStep
  <2> QED
    BY <2>3, <2>4
<1> QED
  BY <1>1, <1>2, <1>3

LEMMA InstallOnce ==
  ASSUME NEW h \in HeapType, NEW roots \in SUBSET Dbs, ForestOf(h, roots), Once(h),
         NEW d \in roots, d \notin h.unused, NEW p \in Procs, p \notin Installed(h)
  PROVE  OncePass(Install(h, d, p), h, d, p, roots)
<1> DEFINE K(c) == OncePass(c, h, d, p, roots)
<1>1. K(Call(h, d))
  BY DEF InstallForest, Call, CallType, OncePass, SubsKept
<1>2. ASSUME NEW c, K(c) PROVE K(InstallStep(c, p))
  BY <1>2, InstallStepOnce
<1> HIDE DEF K
<1>3. K(Install(h, d, p))
  BY <1>1, <1>2 DEF Install, TwoSteps
<1> QED
  BY <1>3 DEF K

----------------------------------------------------------------------------
(* A deletion of a process that is in one place takes it from there.       *)

\* Heap g is heap h without node n, of process p, of database x.
Drops(h, g, x, p, n) ==
  /\ n \in NodesIn(h, x) /\ n.val = p /\ g.prio = h.prio
  /\ NodesIn(g, x) = NodesIn(h, x) \ {n}
  /\ Numbered(h.store[x]) => Numbered(g.store[x])
  /\ \A y \in Dbs : y # x => g.store[y].nodes = h.store[y].nodes

LEMMA OnceDropped ==
  ASSUME NEW h \in HeapType, NEW g \in HeapType, Once(h), NEW x \in Dbs,
         NEW p \in Procs, NEW n, Drops(h, g, x, p, n)
  PROVE  /\ Once(g) /\ Installed(g) = Installed(h) \ {p}
         /\ \A y \in Dbs : Held(g, y) = Held(h, y) \ {p}
<1>1. /\ n \in NodesIn(h, x) /\ n.val = p /\ g.prio = h.prio
      /\ NodesIn(g, x) = NodesIn(h, x) \ {n}
      /\ Numbered(h.store[x]) => Numbered(g.store[x])
      /\ \A y \in Dbs : y # x => g.store[y].nodes = h.store[y].nodes
  BY DEF Drops
<1>2. /\ \A y \in Dbs : \A v : v \in vals(h.store[y]) <=> \E m \in NodesIn(h, y) : m.val = v
      /\ \A y \in Dbs : \A v : v \in vals(g.store[y]) <=> \E m \in NodesIn(g, y) : m.val = v
      /\ \A y \in Dbs : \A m : m \in SubNodes(h.store[y]) <=> m \in NodesIn(h, y) /\ m.val \in Dbs
      /\ \A y \in Dbs : \A m : m \in SubNodes(g.store[y]) <=> m \in NodesIn(g, y) /\ m.val \in Dbs
  BY HeapFields, RangeOf DEF NodesIn
<1>3. \A y \in Dbs : NodesIn(g, y) = NodesIn(h, y) \ {n}
  <2> TAKE y \in Dbs
  <2>1. CASE y = x
    BY <1>1, <2>1
  <2>2. CASE y # x
    <3>1. NodesIn(g, y) = NodesIn(h, y)
      BY <1>1, <2>2 DEF NodesIn
    <3>2. n \notin NodesIn(h, y)
      BY <1>1, <2>2 DEF Once
    <3> QED
      BY <3>1, <3>2
  <2> QED
    BY <2>1, <2>2
<1>4. \A y \in Dbs : \A m \in NodesIn(h, y) : m.val = p => m = n
  BY <1>1 DEF Once
<1>5. \A y \in Dbs : \A v : v \in vals(g.store[y]) <=> v \in vals(h.store[y]) /\ v # p
  BY <1>1, <1>2, <1>3, <1>4
<1>6. Installed(g) = Installed(h) \ {p}
  <2> SUFFICES ASSUME NEW v \in Procs
               PROVE  (\E y \in Dbs : v \in vals(g.store[y])) <=> v # p /\ \E y \in Dbs : v \in vals(h.store[y])
    BY DEF Installed
  <2> QED
    BY <1>5
<1>7. \A y \in Dbs : Held(g, y) = Held(h, y) \ {p}
  <2> SUFFICES ASSUME NEW y \in Dbs, NEW r \in Procs
               PROVE  r \in Held(g, y) <=> r \in Held(h, y) /\ r # p
    BY DEF Held
  <2>1. \A v \in Dbs : v \in vals(g.store[y]) <=> v \in vals(h.store[y])
    BY <1>5, DisjointObjects
  <2>2. \A v \in Dbs : r \in vals(g.store[v]) <=> r \in vals(h.store[v]) /\ r # p
    BY <1>5
  <2>3. r \in Held(g, y) <=> \/ r \in vals(g.store[y])
                             \/ \E v \in Dbs : v \in vals(g.store[y]) /\ r \in vals(g.store[v])
    BY DEF Held
  <2>4. r \in Held(h, y) <=> \/ r \in vals(h.store[y])
                             \/ \E v \in Dbs : v \in vals(h.store[y]) /\ r \in vals(h.store[v])
    BY DEF Held
  <2> QED
    BY <2>1, <2>2, <2>3, <2>4
<1>8. \A y, z \in Dbs : \A m \in NodesIn(g, y), k \in NodesIn(g, z) :
        m.val \in Procs /\ m.val = k.val => y = z /\ m = k
  BY <1>3 DEF Once
<1>9. \A y \in Dbs : \A m \in NodesIn(g, y) : m.val \in Procs => m.key = g.prio[m.val]
  BY <1>1, <1>3 DEF Once
<1>10. ASSUME NEW y \in Dbs, NEW m \in SubNodes(g.store[y]) PROVE Numbered(g.store[m.val])
  <2>1. m \in SubNodes(h.store[y]) /\ m.val \in Dbs
    BY <1>2, <1>3, <1>10
  <2>2. Numbered(h.store[m.val])
    BY <2>1 DEF Once
  <2>3. CASE m.val = x
    BY <1>1, <2>2, <2>3
  <2>4. CASE m.val # x
    <3>1. g.store[m.val].nodes = h.store[m.val].nodes
      BY <1>1, <2>1, <2>4
    <3> QED
      BY <2>2, <3>1 DEF Numbered
  <2> QED
    BY <2>3, <2>4
<1> QED
  BY <1>6, <1>7, <1>8, <1>9, <1>10 DEF Once

\* A set of databases without a least member is empty.
LEMMA HoldingMembers ==
  ASSUME NEW h, Grounded(h), NEW p \in Procs
  PROVE  \A d \in Dbs : Holding(h, {p})[d] <=> p \in Members(h)[d]
<1> DEFINE C == {d \in Dbs : ~(Holding(h, {p})[d] <=> p \in Members(h)[d])}
<1>1. SUFFICES ASSUME C # {} PROVE FALSE
  OBVIOUS
<1>2. PICK d \in C : vals(h.store[d]) \cap C = {}
  BY <1>1 DEF Grounded
<1>3. \A v \in vals(h.store[d]) \cap Dbs : Holding(h, {p})[v] <=> p \in Members(h)[v]
  BY <1>2
<1>4. Holding(h, {p})[d] <=> \E v \in vals(h.store[d]) : v = p \/ (v \in Dbs /\ Holding(h, {p})[v])
  <2> DEFINE targets == {p}
  <2>1. \A v : v \in targets <=> v = p
    OBVIOUS
  <2> HIDE DEF targets
  <2>2. Holding(h, targets)[d] <=>
          \E v \in vals(h.store[d]) : v \in targets \/ (v \in Dbs /\ Holding(h, targets)[v])
    BY HoldingStep
  <2>3. Holding(h, targets)[d] <=>
          \E v \in vals(h.store[d]) : v = p \/ (v \in Dbs /\ Holding(h, targets)[v])
    BY <2>1, <2>2
  <2> QED
    BY <2>3 DEF targets
<1>5. p \in Members(h)[d] <=> p \in vals(h.store[d]) \/ \E v \in vals(h.store[d]) \cap Dbs : p \in Members(h)[v]
  BY MembersStep
<1> QED
  BY <1>2, <1>3, <1>4, <1>5

\* delete() finds the process it is given if the database has it at some depth.
LEMMA DeleteFinds ==
  ASSUME NEW h \in HeapType, Grounded(h), NEW p \in Procs, NEW d \in Dbs
  PROVE  p \in Members(h)[d] <=> \E x \in Dbs : Hit(h, d, p, x)
<1> DEFINE targets == {p}
<1>0. /\ \A e, x : Hit(h, e, p, x) <=> /\ x \in Walked(h, targets)[e]
                                       /\ StopAt(h, targets, x) \in DOMAIN h.store[x].nodes
                                       /\ h.store[x].nodes[StopAt(h, targets, x)].val = p
      /\ \A e \in Dbs : Holding(h, targets)[e] <=> p \in Members(h)[e]
      /\ \A v : v \in targets <=> v = p
  BY HoldingMembers DEF Hit
<1> HIDE DEF targets
<1>1. ASSUME NEW e \in Dbs
      PROVE  /\ \A v \in Visited(h, targets, e) : v \in vals(h.store[e])
             /\ Walked(h, targets)[e] = {e} \cup UNION {Walked(h, targets)[v] : v \in Visited(h, targets, e) \cap Dbs}
  <2>1. \A v \in Visited(h, targets, e) : v \in vals(h.store[e])
    BY DEF Visited, vals
  <2> QED
    BY <2>1, WalkedStep
<1>2. ASSUME NEW e \in Dbs, p \in Members(h)[e],
             \A v \in vals(h.store[e]) \cap Dbs : p \in Members(h)[v] => \E x \in Dbs : Hit(h, v, p, x)
      PROVE  \E x \in Dbs : Hit(h, e, p, x)
  <2> DEFINE i == StopAt(h, targets, e)
             v == h.store[e].nodes[i].val
  <2>1. \E j \in DOMAIN h.store[e].nodes : StopsAt(h, targets, e, j)
    <3>1. \E y \in vals(h.store[e]) : y = p \/ (y \in Dbs /\ p \in Members(h)[y])
      BY <1>2, MembersStep
    <3> QED
      BY <1>0, <3>1 DEF vals, StopsAt
  <2>2. i \in DOMAIN h.store[e].nodes /\ (v = p \/ (v \in Dbs /\ Holding(h, targets)[v])) /\ i \in Nat
    BY <1>0, <2>1, StopAtLeast DEF StopsAt
  <2>3. v \in Visited(h, targets, e)
    BY <2>2 DEF Visited
  <2>4. CASE v = p
    BY <1>0, <1>1, <2>2, <2>4
  <2>5. CASE v \in Dbs /\ Holding(h, targets)[v]
    <3>1. p \in Members(h)[v] /\ v \in vals(h.store[e])
      BY <1>0, <1>1, <2>3, <2>5
    <3>2. PICK x \in Dbs : Hit(h, v, p, x)
      BY <1>2, <2>5, <3>1
    <3>3. x \in Walked(h, targets)[e]
      BY <1>0, <1>1, <2>3, <2>5, <3>2
    <3> QED
      BY <1>0, <3>2, <3>3
  <2> QED
    BY <2>2, <2>4, <2>5
<1>3. ASSUME NEW e \in Dbs, NEW x \in Dbs, Hit(h, e, p, x),
             \A v \in vals(h.store[e]) \cap Dbs : (\E y \in Dbs : Hit(h, v, p, y)) => p \in Members(h)[v]
      PROVE  p \in Members(h)[e]
  <2>1. CASE x = e
    <3>1. p \in vals(h.store[e])
      BY <1>0, <1>3, <2>1 DEF vals
    <3> QED
      BY <3>1, MembersStep
  <2>2. CASE x # e
    <3>1. PICK v \in Visited(h, targets, e) \cap Dbs : x \in Walked(h, targets)[v]
      BY <1>0, <1>1, <1>3, <2>2
    <3>2. Hit(h, v, p, x) /\ v \in vals(h.store[e])
      BY <1>0, <1>1, <1>3, <3>1
    <3> QED
      BY <1>3, <3>1, <3>2, MembersStep
  <2> QED
    BY <2>1, <2>2
<1> DEFINE C == {e \in Dbs : ~(p \in Members(h)[e] <=> \E x \in Dbs : Hit(h, e, p, x))}
<1>4. SUFFICES ASSUME C # {} PROVE FALSE
  OBVIOUS
<1>5. PICK e \in C : vals(h.store[e]) \cap C = {}
  BY <1>4 DEF Grounded
<1>6. \A v \in vals(h.store[e]) \cap Dbs : p \in Members(h)[v] <=> \E x \in Dbs : Hit(h, v, p, x)
  BY <1>5
<1> QED
  BY <1>2, <1>3, <1>5, <1>6

LEMMA DeleteOnce ==
  ASSUME NEW h \in HeapType, Once(h), Grounded(h), NEW d \in Dbs, NEW p \in Procs
  PROVE  /\ Once(Delete(h, d, p))
         /\ IF p \in Members(h)[d]
              THEN /\ Installed(Delete(h, d, p)) = Installed(h) \ {p}
                   /\ \A y \in Dbs : Members(Delete(h, d, p))[y] = Members(h)[y] \ {p}
              ELSE Unaltered(h, Delete(h, d, p))
<1> DEFINE g == Delete(h, d, p)
<1>1. g \in HeapType
  BY DeleteType
<1>2. CASE p \notin Members(h)[d]
  <2>1. \A x \in Dbs : ~Hit(h, d, p, x)
    BY <1>2, DeleteFinds
  <2>2. Unaltered(h, g)
    BY <2>1, DeleteNodes DEF Unaltered
  <2> HIDE DEF g
  <2>3. Once(g)
    BY <1>1, <2>2, OnceUnaltered
  <2> QED
    BY <1>2, <2>2, <2>3 DEF g
<1>3. CASE p \in Members(h)[d]
  <2>1. PICK x \in Dbs : Hit(h, d, p, x)
    BY <1>3, DeleteFinds
  <2> DEFINE i == StopAt(h, {p}, x)
             n == h.store[x].nodes[i]
  <2>2. i \in DOMAIN h.store[x].nodes /\ n.val = p /\ h.store[x] \in StorageType
    BY <2>1, HeapFields DEF Hit
  <2>3. g.store[x].nodes = RemoveAt(h.store[x].nodes, i) /\ g.prio = h.prio
    BY <2>1, DeleteNodes
  <2>4. ASSUME NEW y \in Dbs, y # x PROVE g.store[y].nodes = h.store[y].nodes
    <3>1. ~Hit(h, d, p, y)
      <4>1. n \in NodesIn(h, x)
        BY <2>2 DEF NodesIn, Range
      <4>2. ASSUME Hit(h, d, p, y) PROVE \E m \in NodesIn(h, y) : m.val = p
        BY <4>2 DEF Hit, NodesIn, Range
      <4> QED
        BY <2>2, <2>4, <4>1, <4>2 DEF Once
    <3> QED
      BY <3>1, DeleteNodes
  <2> HIDE DEF g, i
  <2>5. Range(g.store[x].nodes) = Range(h.store[x].nodes) \ {n}
    BY <2>2, <2>3, RangeRemove
  <2>6. Numbered(h.store[x]) => Numbered(g.store[x])
    BY <2>2, <2>3, NumberedRemove
  <2>7. n \in NodesIn(h, x)
    BY <2>2 DEF NodesIn, Range
  <2> HIDE DEF n
  <2>8. Drops(h, g, x, p, n)
    BY <2>2, <2>3, <2>4, <2>5, <2>6, <2>7 DEF Drops, NodesIn
  <2>9. /\ Once(g) /\ Installed(g) = Installed(h) \ {p}
        /\ \A y \in Dbs : Held(g, y) = Held(h, y) \ {p}
    BY <1>1, <2>8, OnceDropped
  <2>10. \A y \in Dbs : Members(g)[y] = Members(h)[y] \ {p}
    BY <1>1, <2>9, MembersHeld
  <2> QED
    BY <1>3, <2>9, <2>10 DEF g
<1> QED
  BY <1>2, <1>3

----------------------------------------------------------------------------
(* The call stack, when no database is merged: a frame is there before a   *)
(* step, or starts in it.                                                  *)

Carried(f, g) == /\ f.op = g.op /\ f.db = g.db /\ f.loop = g.loop
                 /\ f.proc = g.proc /\ f.pending = g.pending

\* A frame that starts is for a database that is registered, or that a frame
\* below it has come to.
Started(f) ==
  /\ Alone(f) /\ f.proc = NoProc
  /\ \/ f.db \in Registereds
     \/ \E m \in DOMAIN frames : \/ f.db = frames[m].db
                                 \/ f.db \in vals(heap.store[frames[m].db])

Follows(s) == \A n \in DOMAIN s : (\E m \in DOMAIN frames : Carried(s[n], frames[m])) \/ Started(s[n])

\* No process is abandoned on stack s.
Retains(s) == \A m \in DOMAIN frames : frames[m].proc # NoProc =>
                \E n \in DOMAIN s : s[n].proc = frames[m].proc

LEMMA StackSame == Follows(frames) /\ Retains(frames)
BY DEF Follows, Retains, Carried

LEMMA StackAt ==
  ASSUME frames \in Seq(FrameType), frames # <<>>, NEW pc \in Pcs
  PROVE  At(pc) \in Seq(FrameType) /\ Follows(At(pc)) /\ Retains(At(pc))
<1>1. At(pc) \in Seq(FrameType) /\ Len(At(pc)) = Len(frames)
  BY AtType
<1>2. DOMAIN frames = 1..Len(frames) /\ DOMAIN At(pc) = 1..Len(frames)
  BY <1>1
<1>3. \A n \in 1..Len(frames) : Carried(At(pc)[n], frames[n])
  <2> TAKE n \in 1..Len(frames)
  <2>1. frames[n] \in FrameType
    BY <1>2
  <2>2. CASE n = Len(frames)
    <3>1. At(pc)[n] = [frames[n] EXCEPT !.pc = pc]
      BY <2>2, AtType, TopType
    <3> QED
      BY <2>1, <3>1 DEF Carried, FrameType
  <2>3. CASE n # Len(frames)
    BY <2>3, AtType DEF Carried
  <2> QED
    BY <2>2, <2>3
<1> QED
  BY <1>1, <1>2, <1>3 DEF Follows, Retains, Carried

LEMMA StackCut ==
  ASSUME frames \in Seq(FrameType), NEW k \in 0..Len(frames)
  PROVE  /\ Follows(SubSeq(frames, 1, k))
         /\ k = Len(frames) - 1 /\ Top.proc = NoProc => Retains(SubSeq(frames, 1, k))
<1> DEFINE s == SubSeq(frames, 1, k)
<1>1. Len(s) = k /\ s \in Seq(FrameType) /\ \A n \in 1..k : s[n] = frames[n]
  BY PrefixType
<1>2. DOMAIN s = 1..k /\ DOMAIN frames = 1..Len(frames) /\ 1..k \subseteq 1..Len(frames)
  BY <1>1, LenProperties
<1>3. \A n \in 1..Len(frames) : n = Len(frames) \/ n \in 1..(Len(frames) - 1)
  BY LenProperties
<1> HIDE DEF s
<1>4. Follows(s)
  BY <1>1, <1>2 DEF Follows, Carried
<1>5. k = Len(frames) - 1 /\ Top.proc = NoProc => Retains(s)
  BY <1>1, <1>2, <1>3 DEF Retains, Top
<1> QED
  BY <1>4, <1>5 DEF s

LEMMA StackPushed ==
  ASSUME NEW s \in Seq(FrameType), Follows(s), Retains(s), NEW f \in FrameType, Started(f)
  PROVE  Follows(Append(s, f)) /\ Retains(Append(s, f))
<1> DEFINE t == Append(s, f)
<1>1. /\ t \in Seq(FrameType) /\ Len(t) = Len(s) + 1
      /\ t[Len(s) + 1] = f /\ \A n \in 1..Len(s) : t[n] = s[n]
  BY PushType
<1>2. /\ DOMAIN s = 1..Len(s) /\ DOMAIN t = 1..(Len(s) + 1) /\ 1..Len(s) \subseteq 1..(Len(s) + 1)
      /\ \A n \in 1..(Len(s) + 1) : n = Len(s) + 1 \/ n \in 1..Len(s)
  BY <1>1, LenProperties
<1> HIDE DEF t
<1>3. Follows(t)
  <2> SUFFICES ASSUME NEW n \in 1..(Len(s) + 1)
               PROVE  (\E m \in DOMAIN frames : Carried(t[n], frames[m])) \/ Started(t[n])
    BY <1>2 DEF Follows
  <2>1. CASE n = Len(s) + 1
    BY <1>1, <2>1
  <2>2. CASE n \in 1..Len(s)
    BY <1>1, <1>2, <2>2 DEF Follows
  <2> QED
    BY <1>2, <2>1, <2>2
<1>4. Retains(t)
  BY <1>1, <1>2 DEF Retains
<1> QED
  BY <1>3, <1>4 DEF t

LEMMA ExecuteStack ==
  ASSUME TypeOK, frames # <<>>, NEW d \in Dbs, NEW pc \in Pcs, Execute(d, pc),
         \/ d \in Registereds
         \/ \E m \in DOMAIN frames : d = frames[m].db \/ d \in vals(heap.store[frames[m].db])
  PROVE  Follows(frames') /\ Retains(frames')
<1>1. frames \in Seq(FrameType) /\ Top.sig \in Sigs
  BY TopType, FrameFields DEF TypeOK
<1>2. ExecFrame(Top.sig, d) \in FrameType
  BY <1>1, EmptySeq, NewFrameType
<1>3. Started(ExecFrame(Top.sig, d))
  BY DEF Started, ExecFrame, Alone
<1>4. frames' = Append(At(pc), ExecFrame(Top.sig, d))
  BY DEF Execute
<1> QED
  BY <1>1, <1>2, <1>3, <1>4, StackAt, StackPushed

LEMMA InterruptStack ==
  ASSUME TypeOK, frames # <<>>, NEW w \in Places, NEW pc \in Pcs, Interrupt(w, pc)
  PROVE  Follows(frames') /\ Retains(frames')
<1>1. frames \in Seq(FrameType) /\ Top.sig \in Sigs
  BY TopType, FrameFields DEF TypeOK
<1>2. Find(w, Top.sig) # NoDb => Find(w, Top.sig) \in Dbs /\ Find(w, Top.sig) \in Registereds
  BY <1>1, FindType, RegisteredsType
<1>3. CASE Find(w, Top.sig) # NoDb
  BY <1>2, <1>3, ExecuteStack DEF Interrupt
<1>4. CASE Find(w, Top.sig) = NoDb
  BY <1>1, <1>4, StackAt DEF Interrupt
<1> QED
  BY <1>3, <1>4

LEMMA TopAlone ==
  ASSUME TypeOK, Unmerged, NEW op, NEW pc, On(op, pc)
  PROVE  /\ Len(frames) \in DOMAIN frames /\ Top = frames[Len(frames)]
         /\ Top.op # "merge" /\ Top.pending = <<>> /\ Top.loop = Top.db
         /\ op # "merge"
<1>1. frames # <<>> /\ frames \in Seq(FrameType) /\ Top.op = op
  BY OnType
<1>2. Len(frames) \in DOMAIN frames /\ Top = frames[Len(frames)]
  BY <1>1, TopType, LenProperties
<1> QED
  BY <1>1, <1>2 DEF Unmerged, Alone

LEMMA PointersStack ==
  ASSUME StackInv, Unmerged, Pointers
  PROVE  Follows(frames') /\ Retains(frames')
<1> USE DEF Pcs, Places
<1>1. TypeOK /\ (\E op, pc : On(op, pc))
  BY DEF StackInv, TypeInv, Pointers, Accept, Reject, MergeSubDatabase, MergeFatal, MergeEnd,
         EmitBefore, EmitMain, EmitAfter, EmitEnd, ExecEnd, ExecSubDatabase, Advance
<1>2. /\ frames # <<>> /\ Top.sig \in Sigs /\ Top.db \in Dbs /\ Top.loop \in Dbs
      /\ frames \in Seq(FrameType) /\ heap \in HeapType
      /\ Top.pc = "running" <=> Top.proc # NoProc
  BY <1>1, OnType, NestedTop
<1>3. /\ Len(frames) \in DOMAIN frames /\ Top = frames[Len(frames)]
      /\ Top.op # "merge" /\ Top.pending = <<>> /\ Top.loop = Top.db
  BY <1>1, TopAlone
<1>4. CASE Accept \/ Reject \/ MergeSubDatabase \/ MergeFatal \/ MergeEnd
  BY <1>3, <1>4 DEF Accept, Reject, MergeSubDatabase, MergeFatal, MergeEnd, On
<1>5. CASE EmitBefore \/ EmitAfter
  BY <1>1, <1>2, <1>5, InterruptStack DEF EmitBefore, EmitAfter
<1>6. CASE EmitMain
  BY <1>1, <1>2, <1>3, <1>6, ExecuteStack DEF EmitMain
<1>7. CASE EmitEnd \/ ExecEnd
  <2>1. frames' = SubSeq(frames, 1, Len(frames) - 1) /\ Top.proc = NoProc
    BY <1>2, <1>7 DEF EmitEnd, ExecEnd, Popped, On
  <2>2. Len(frames) - 1 \in 0..Len(frames)
    BY <1>2, TopType
  <2> QED
    BY <1>2, <2>1, <2>2, StackCut
<1>8. CASE ExecSubDatabase
  <2>1. Fetched \in Dbs /\ Execute(Fetched, "next") /\ valid(heap.store[Top.loop])
    BY <1>8 DEF ExecSubDatabase
  <2>2. Fetched \in vals(heap.store[frames[Len(frames)].db])
    BY <1>2, <1>3, <2>1 DEF Fetched, valid, current, vals
  <2> QED
    BY <1>1, <1>2, <1>3, <2>1, <2>2, ExecuteStack
<1>9. CASE Advance
  BY <1>2, <1>9, StackAt DEF Advance
<1> QED
  BY <1>4, <1>5, <1>6, <1>7, <1>8, <1>9 DEF Pointers

\* User code starts emissions, and an exception is the only thing that takes a
\* process that is running off the stack.
LEMMA UserStack ==
  ASSUME StackInv, Unmerged,
         \/ Inspects \/ Unregisters
         \/ \E s \in Sigs, p \in Procs : Signal(s, p) \/ Before(s, p) \/ After(s, p) \/ DeleteProcess(s, p)
  PROVE  Follows(frames') /\ (Throw \/ Retains(frames'))
<1>1. TypeOK /\ frames \in Seq(FrameType)
  BY DEF StackInv, TypeInv, TypeOK
<1>2. ASSUME NEW s \in Sigs, Emit(s) PROVE Follows(frames') /\ Retains(frames')
  <2> DEFINE d == Find("index", s)
             f == EmitFrame(s, d, <<>>)
  <2>1. d \in Dbs /\ d \in Registereds
    BY <1>1, <1>2, FindType, RegisteredsType DEF Emit, Places
  <2>2. Evaluated = <<>>
    BY DEF Evaluated, Unmerged
  <2>3. frames' = Append(frames, f)
    BY <1>2, <2>2 DEF Emit, Push
  <2>4. f \in FrameType /\ Started(f)
    BY <2>1, EmptySeq, NewFrameType DEF Started, Alone, EmitFrame
  <2> HIDE DEF f, d
  <2> QED
    BY <1>1, <2>3, <2>4, StackSame, StackPushed
<1>3. CASE Throw
  <2>1. \E k \in 0..Len(frames) : frames' = SubSeq(frames, 1, k)
    BY <1>1, <1>3, LenProperties DEF Throw
  <2> QED
    BY <1>1, <1>3, <2>1, StackCut
<1>4. CASE UNCHANGED frames
  BY <1>4, StackSame DEF Follows, Retains
<1>5. CASE Inspects
  BY <1>2, <1>3, <1>4, <1>5 DEF Inspects, HasSignalExhausted, EmitNothing, Halt, NewSignal,
     EraseHistory, SetSignalHistory, vars
<1>6. CASE Unregisters
  BY <1>4, <1>6 DEF Unregisters, Flush, DeleteSignal
<1>7. CASE \E s \in Sigs, p \in Procs : Signal(s, p) \/ Before(s, p) \/ After(s, p) \/ DeleteProcess(s, p)
  BY <1>4, <1>7 DEF Signal, Before, After, DeleteProcess, InstallOn
<1> QED
  BY <1>5, <1>6, <1>7

LEMMA FollowsAlone ==
  ASSUME Unmerged, Follows(frames')
  PROVE  \A n \in DOMAIN frames' : Alone(frames'[n])
BY DEF Unmerged, Follows, Carried, Started, Alone

\* The innermost frame takes up a process, or puts it down.
LEMMA StackProc ==
  ASSUME frames \in Seq(FrameType), frames # <<>>, NEW pc \in Pcs,
         NEW p \in Procs \cup {NoProc}, frames' = WithProc(pc, p)
  PROVE  /\ DOMAIN frames' = DOMAIN frames
         /\ \A n \in DOMAIN frames : n # Len(frames) => frames'[n] = frames[n]
         /\ frames'[Len(frames)].proc = p
         /\ frames'[Len(frames)].op = Top.op /\ frames'[Len(frames)].db = Top.db
         /\ frames'[Len(frames)].loop = Top.loop /\ frames'[Len(frames)].pending = Top.pending
<1> DEFINE s == WithProc(pc, p)
           f == [[Top EXCEPT !.pc = pc] EXCEPT !.proc = p]
<1>1. /\ f \in FrameType /\ f.op = Top.op /\ f.db = Top.db /\ f.loop = Top.loop
      /\ f.pending = Top.pending /\ f.proc = p
  BY TopType DEF FrameType, Pcs
<1>2. s = [At(pc) EXCEPT ![Len(frames)] = f]
  BY AtType DEF WithProc
<1>3. /\ At(pc) \in Seq(FrameType) /\ Len(At(pc)) = Len(frames) /\ Len(frames) \in 1..Len(frames)
      /\ \A n \in 1..Len(frames) : n # Len(frames) => At(pc)[n] = frames[n]
  BY AtType, TopType
<1> HIDE DEF f, s
<1>4. /\ s \in Seq(FrameType) /\ Len(s) = Len(frames) /\ s[Len(frames)] = f
      /\ \A n \in 1..Len(frames) : n # Len(frames) => s[n] = frames[n]
  BY <1>1, <1>2, <1>3, ExceptSeq
<1>5. DOMAIN s = 1..Len(frames) /\ DOMAIN frames = 1..Len(frames)
  BY <1>4, LenProperties
<1>6. frames' = s
  BY DEF s
<1> QED
  BY <1>1, <1>4, <1>5, <1>6

----------------------------------------------------------------------------
(* Every step leaves every process in one place.                           *)

\* Heap g has its processes in one place each, all constructed by now, and
\* those that heap h had are where they were or nowhere.
Moves(h, g) ==
  /\ Once(g) /\ Installed(g) \subseteq made' /\ made \subseteq made'
  /\ \A q \in made : q \in Installed(g) =>
       q \in Installed(h) /\ \A d \in Dbs : q \in Members(h)[d] => q \in Members(g)[d]

LEMMA MovesUnaltered ==
  ASSUME NEW h \in HeapType, NEW g \in HeapType, NEW f \in HeapType, Moves(h, g), Unaltered(g, f)
  PROVE  Moves(h, f)
<1>1. Once(f) /\ Installed(f) = Installed(g) /\ \A d \in Dbs : Members(f)[d] = Members(g)[d]
  BY OnceUnaltered DEF Moves
<1> QED
  BY <1>1 DEF Moves

LEMMA MovesNothing ==
  ASSUME NEW h, Once(h), Installed(h) \subseteq made, UNCHANGED made
  PROVE  Moves(h, h)
BY DEF Moves

LEMMA MindedFollows ==
  ASSUME TypeOK, Moves(heap, heap'), Follows(frames'),
         \A n \in DOMAIN frames : Minded(frames[n], heap)
  PROVE  \A n \in DOMAIN frames' : Minded(frames[n], heap)'
<1> SUFFICES ASSUME NEW n \in DOMAIN frames', frames'[n].proc # NoProc
             PROVE  /\ frames'[n].proc \in made'
                    /\ frames'[n].proc \in Installed(heap') =>
                         frames'[n].proc \in Members(heap')[frames'[n].db]
  BY DEF Minded
<1>1. PICK m \in DOMAIN frames : Carried(frames'[n], frames[m])
  BY DEF Follows, Started
<1>2. frames[m].db \in Dbs
  BY FrameFields DEF TypeOK
<1> QED
  BY <1>1, <1>2 DEF Carried, Minded, Moves

\* An install puts a new process into the database of its signal.
LEMMA InstallOnOnce ==
  ASSUME InstalledOnce, OnceInv, NEW w \in Places, NEW s \in Sigs, NEW p \in Procs,
         InstallOn(w, s, p)
  PROVE  \E g, d : /\ Installs(g, d, w, s, p)
                   /\ p \notin made /\ d \in Dbs
                   /\ OncePass(Install(g, d, p), g, d, p, Registereds')
                   /\ Installed(g) = Installed(heap)
                   /\ \A y \in Dbs : Held(g, y) = Held(heap, y)
<1>1. PICK g, d : Installs(g, d, w, s, p)
  BY InstallOnFacts DEF OnceInv, GroundedInv
<1> DEFINE roots == Registereds'
<1>2. /\ g \in HeapType /\ heap \in HeapType /\ d \in Dbs /\ d \notin g.unused
      /\ g.store = heap.store /\ p \notin made /\ ForestOf(g, roots) /\ d \in roots
      /\ roots \subseteq Dbs /\ \A q \in Procs : q # p => g.prio[q] = heap.prio[q]
  <2>1. TypeOK
    BY DEF OnceInv, GroundedInv, ForestInv, TypeInv
  <2>2. heap \in HeapType /\ Registereds \subseteq Dbs
    BY <2>1, RegisteredsType DEF TypeOK
  <2>3. p \notin made
    BY <1>1 DEF Installs, InstalledOnce
  <2>4. \A q \in Procs : q # p => g.prio[q] = heap.prio[q]
    <3>1. PICK k : g.prio = [heap.prio EXCEPT ![p] = k]
      BY <1>1, <2>3 DEF Installs
    <3> QED
      BY <2>2, <3>1, HeapFields
  <2> QED
    BY <1>1, <2>2, <2>3, <2>4 DEF Installs
<1> HIDE DEF roots
<1>3. p \notin Installed(heap) /\ Once(heap) /\ \A q \in Installed(heap) : q \in Procs
  BY <1>2 DEF OnceInv, Installed
<1>4. Once(g) /\ Installed(g) = Installed(heap) /\ \A y \in Dbs : Held(g, y) = Held(heap, y)
  BY <1>2, <1>3, OnceSame
<1>5. OncePass(Install(g, d, p), g, d, p, roots)
  BY <1>2, <1>3, <1>4, InstallOnce
<1> QED
  BY <1>1, <1>2, <1>4, <1>5 DEF roots

LEMMA InstallOnMoves ==
  ASSUME InstalledOnce, OnceInv, NEW w \in Places, NEW s \in Sigs, NEW p \in Procs,
         InstallOn(w, s, p)
  PROVE  Moves(heap, heap') /\ UNCHANGED <<frames, complexes>>
<1>1. PICK g, d : /\ Installs(g, d, w, s, p) /\ p \notin made
                  /\ OncePass(Install(g, d, p), g, d, p, Registereds')
                  /\ Installed(g) = Installed(heap)
  BY InstallOnOnce
<1>2. /\ Once(heap') /\ Installed(heap') \subseteq Installed(heap) \cup {p}
      /\ made' = made \cup {p} /\ UNCHANGED frames
  BY <1>1 DEF OncePass, Installs
<1>3. Keeps(heap, heap')
  BY InstallOnKeeps DEF OnceInv
<1>4. UNCHANGED complexes
  BY DEF InstallOn, Registering, InstalledOnce
<1> QED
  BY <1>1, <1>2, <1>3, <1>4 DEF Moves, Keeps, OnceInv

LEMMA DeleteMoves ==
  ASSUME OnceInv, NEW d \in Dbs, NEW p \in Procs, UNCHANGED made
  PROVE  Moves(heap, Delete(heap, d, p))
<1> DEFINE g == Delete(heap, d, p)
<1>1. heap \in HeapType /\ g \in HeapType
  BY DeleteType DEF OnceInv, GroundedInv, ForestInv, TypeInv, TypeOK
<1>2. Once(heap) /\ Grounded(heap) /\ Installed(heap) \subseteq made
  BY DEF OnceInv, GroundedInv
<1>3. CASE p \in Members(heap)[d]
  <2>1. /\ Once(g) /\ Installed(g) = Installed(heap) \ {p}
        /\ \A y \in Dbs : Members(g)[y] = Members(heap)[y] \ {p}
    BY <1>1, <1>2, <1>3, DeleteOnce
  <2> HIDE DEF g
  <2>2. Moves(heap, g)
    BY <1>2, <2>1 DEF Moves
  <2> QED
    BY <2>2 DEF g
<1>4. CASE p \notin Members(heap)[d]
  <2>1. Unaltered(heap, g)
    BY <1>1, <1>2, <1>4, DeleteOnce
  <2> HIDE DEF g
  <2>2. Moves(heap, g)
    BY <1>1, <1>2, <2>1, MovesNothing, MovesUnaltered
  <2> QED
    BY <2>2 DEF g
<1> QED
  BY <1>3, <1>4

\* A process returns, and is deleted where it runs if it is exhausted.
LEMMA ReturnMoves ==
  ASSUME OnceInv, NEW result \in Returns, Return(result)
  PROVE  /\ Moves(heap, heap')
         /\ frames # <<>> /\ Top.proc \in Procs /\ Top.db \in Dbs
         /\ frames' = WithProc("fetch", NoProc)
         /\ UNCHANGED <<databases, complexes, made>>
         /\ heap'.exhaust = heap.exhaust
         /\ Unaltered(IF is_exhausted(heap.exhaust[Top.proc])
                        THEN Delete(heap, Top.db, Top.proc) ELSE heap, heap')
<1> DEFINE p == Top.proc
           h == IF is_exhausted(heap.exhaust[p]) THEN Delete(heap, Top.db, p) ELSE heap
<1>1. TypeOK /\ TypeOK' /\ On("exec", "running") /\ StackInv
  <2>1. Return(result) => Step
    BY DEF Step
  <2>2. StackInv /\ TypeInv
    BY DEF OnceInv, GroundedInv, ForestInv, StackInv
  <2> QED
    BY <2>1, <2>2, StepType DEF Return, TypeInv
<1>2. /\ frames # <<>> /\ Top.db \in Dbs /\ Top.loop \in Dbs /\ heap \in HeapType
      /\ p \in Procs
  BY <1>1, OnType, NestedTop, FrameFields
<1>3. h \in HeapType /\ h.exhaust = heap.exhaust
  BY <1>2, DeleteType, DeleteNodes
<1>4. Moves(heap, h) /\ UNCHANGED <<databases, complexes, made>> /\ frames' = WithProc("fetch", NoProc)
  <2>1. UNCHANGED <<databases, complexes, made>> /\ frames' = WithProc("fetch", NoProc)
    BY DEF Return, WithProc
  <2> QED
    BY <1>2, <2>1, DeleteMoves, MovesNothing DEF OnceInv
<1>5. heap' = [h EXCEPT !.store[Top.loop] = next(@)]
  BY DEF Return
<1>6. Unaltered(h, heap') /\ heap'.exhaust = heap.exhaust
  <2> HIDE DEF h
  <2> QED
    BY <1>2, <1>3, <1>5, IteratedUnaltered
<1>7. heap' \in HeapType
  BY <1>1 DEF TypeOK
<1>8. Moves(heap, heap')
  <2> HIDE DEF h
  <2> QED
    BY <1>2, <1>3, <1>4, <1>6, <1>7, MovesUnaltered
<1> QED
  BY <1>2, <1>4, <1>6, <1>8

\* The other steps of a loop or an emission, and of user code, leave the nodes
\* of the databases alone.
LEMMA UnalteredMoves ==
  ASSUME InstalledOnce, OnceInv, Pointers \/ Inspects \/ Unregisters
  PROVE  Moves(heap, heap') /\ complexes' = <<>>
<1>1. TypeOK /\ TypeOK' /\ heap \in HeapType /\ heap' \in HeapType
  <2>1. TypeInv
    BY DEF OnceInv, GroundedInv, ForestInv
  <2>2. [Next]_vars
    BY DEF Pointers, Inspects, Unregisters, Next, Step, User
  <2> QED
    BY <2>1, <2>2, NextType DEF TypeInv, TypeOK
<1>2. Unaltered(heap, heap') /\ UNCHANGED made
  BY <1>1, PointersUnaltered, UserUnaltered
<1>3. Moves(heap, heap')
  BY <1>1, <1>2, MovesNothing, MovesUnaltered DEF OnceInv
<1>4. complexes' = <<>>
  <2>1. complexes = <<>> /\ DOMAIN complexes = {}
    BY EmptySeq DEF OnceInv, Unmerged
  <2>2. CASE Pointers \/ Inspects
    BY <1>1, <2>1, <2>2, PointersUnaltered, UserUnaltered
  <2>3. CASE Unregisters
    BY <2>1, <2>3 DEF Unregisters, Flush, DeleteSignal
  <2> QED
    BY <2>2, <2>3
<1> QED
  BY <1>3, <1>4

\* The process that a loop runs next is in the database of the loop.
LEMMA ExecProcessMoves ==
  ASSUME OnceInv, ExecProcess
  PROVE  /\ Moves(heap, heap') /\ Unaltered(heap, heap')
         /\ frames # <<>> /\ Top.db \in Dbs /\ Top.proc = NoProc
         /\ Fetched \in Procs /\ Fetched \in made
         /\ Fetched \in Installed(heap) /\ Fetched \in Members(heap)[Top.db]
         /\ frames' = WithProc("running", Fetched)
         /\ heap'.exhaust = [heap.exhaust EXCEPT ![Fetched] = decrement_exhaust(@)]
         /\ UNCHANGED <<databases, complexes, made>>
<1>1. TypeOK /\ TypeOK' /\ On("exec", "fetch") /\ StackInv
  <2>1. ExecProcess => Step
    BY DEF Step
  <2>2. StackInv /\ TypeInv
    BY DEF OnceInv, GroundedInv, ForestInv, StackInv
  <2> QED
    BY <2>1, <2>2, StepType DEF ExecProcess, TypeInv
<1>2. /\ frames # <<>> /\ Top.db \in Dbs /\ Top.loop = Top.db /\ heap \in HeapType
      /\ Top.proc = NoProc /\ heap' \in HeapType
  <2>1. Top.loop = Top.db /\ Top.pc = "fetch"
    BY <1>1, TopAlone DEF OnceInv, On
  <2> QED
    BY <1>1, <2>1, OnType, NestedTop DEF TypeOK
<1>3. Fetched \in Procs /\ Fetched \in vals(heap.store[Top.db])
  BY <1>2 DEF ExecProcess, Fetched, valid, current, vals
<1>4. Fetched \in Installed(heap) /\ Fetched \in Members(heap)[Top.db]
  BY <1>2, <1>3, MembersStep DEF Installed
<1>5. /\ heap' = [heap EXCEPT !.exhaust[Fetched] = decrement_exhaust(@)]
      /\ frames' = WithProc("running", Fetched)
      /\ UNCHANGED <<databases, complexes, made>>
  BY DEF ExecProcess, WithProc
<1>6. /\ heap'.store = heap.store /\ heap'.unused = heap.unused /\ heap'.prio = heap.prio
      /\ heap'.exhaust = [heap.exhaust EXCEPT ![Fetched] = decrement_exhaust(@)]
  BY <1>2, <1>5 DEF HeapType
<1>7. Unaltered(heap, heap')
  BY <1>6 DEF Unaltered
<1>8. Moves(heap, heap') /\ Fetched \in made
  BY <1>2, <1>4, <1>5, <1>7, MovesNothing, MovesUnaltered DEF OnceInv
<1> QED
  BY <1>2, <1>3, <1>4, <1>5, <1>6, <1>7, <1>8

\* The stack after a step that changes the innermost frame's process only.
LEMMA OnceProc ==
  ASSUME OnceInv, NEW pc \in Pcs, NEW p \in Procs \cup {NoProc}, frames # <<>>,
         frames' = WithProc(pc, p), UNCHANGED complexes, Moves(heap, heap'),
         p # NoProc => p \in made /\ p \in Members(heap)[Top.db]
  PROVE  Unmerged' /\ \A n \in DOMAIN frames' : Minded(frames[n], heap)'
<1>1. frames \in Seq(FrameType) /\ Unmerged /\ \A n \in DOMAIN frames : Minded(frames[n], heap)
  BY DEF OnceInv, GroundedInv, ForestInv, TypeInv, TypeOK
<1>2. /\ DOMAIN frames' = DOMAIN frames
      /\ \A n \in DOMAIN frames : n # Len(frames) => frames'[n] = frames[n]
      /\ frames'[Len(frames)].proc = p
      /\ frames'[Len(frames)].op = Top.op /\ frames'[Len(frames)].db = Top.db
      /\ frames'[Len(frames)].loop = Top.loop /\ frames'[Len(frames)].pending = Top.pending
  BY <1>1, StackProc
<1>3. Len(frames) \in DOMAIN frames /\ Top = frames[Len(frames)]
  BY <1>1, TopType, LenProperties
<1>4. \A n \in DOMAIN frames : frames[n].db \in Dbs
  BY <1>1, FrameFields
<1>5. Unmerged'
  BY <1>1, <1>2, <1>3 DEF Unmerged, Alone
<1>6. ASSUME NEW n \in DOMAIN frames PROVE Minded(frames[n], heap)'
  <2>1. CASE n = Len(frames)
    BY <1>2, <1>3, <1>4, <2>1 DEF Minded, Moves
  <2>2. CASE n # Len(frames)
    <3>1. frames'[n] = frames[n] /\ Minded(frames[n], heap)
      BY <1>1, <1>2, <2>2
    <3> QED
      BY <1>4, <3>1 DEF Minded, Moves
  <2> QED
    BY <2>1, <2>2
<1> QED
  BY <1>2, <1>5, <1>6

LEMMA OnceNext ==
  ASSUME InstalledOnce, OnceInv, [Next]_vars
  PROVE  OnceInv'
<1>1. GroundedInv' /\ TypeOK /\ Unmerged /\ StackInv
  BY GroundedNext DEF OnceInv, GroundedInv, ForestInv, TypeInv, StackInv
<1>2. SUFFICES /\ Moves(heap, heap') /\ Unmerged'
               /\ \A n \in DOMAIN frames' : Minded(frames[n], heap)'
  BY <1>1 DEF OnceInv, Moves
<1>3. ASSUME Moves(heap, heap'), complexes' = <<>>, Follows(frames')
      PROVE  Unmerged' /\ \A n \in DOMAIN frames' : Minded(frames[n], heap)'
  BY <1>1, <1>3, FollowsAlone, MindedFollows DEF Unmerged, OnceInv
<1>4. CASE Pointers
  BY <1>1, <1>3, <1>4, UnalteredMoves, PointersStack
<1>5. CASE Inspects \/ Unregisters
  BY <1>1, <1>3, <1>5, UnalteredMoves, UserStack
<1>6. CASE MergeProcess
  BY <1>1, <1>6, TopAlone DEF MergeProcess
<1>7. CASE ExecProcess
  BY <1>7, ExecProcessMoves, OnceProc DEF Pcs
<1>8. ASSUME NEW result \in Returns, Return(result)
      PROVE  /\ Moves(heap, heap') /\ Unmerged'
             /\ \A n \in DOMAIN frames' : Minded(frames[n], heap)'
  BY <1>8, ReturnMoves, OnceProc DEF Pcs
<1>9. ASSUME NEW s \in Sigs, NEW p \in Procs, DeleteProcess(s, p)
      PROVE  /\ Moves(heap, heap') /\ Unmerged'
             /\ \A n \in DOMAIN frames' : Minded(frames[n], heap)'
  <2>1. Find("index", s) \in Dbs /\ heap' = Delete(heap, Find("index", s), p)
    BY <1>1, <1>9, FindType DEF DeleteProcess, Places
  <2>2. UNCHANGED <<made, complexes>>
    BY <1>9 DEF DeleteProcess
  <2>3. Moves(heap, heap')
    BY <2>1, <2>2, DeleteMoves
  <2>4. Follows(frames')
    BY <1>1, <1>9, UserStack
  <2> QED
    BY <1>1, <1>3, <2>2, <2>3, <2>4 DEF Unmerged
<1>10. ASSUME NEW s \in Sigs, NEW p \in Procs, Signal(s, p) \/ Before(s, p) \/ After(s, p)
       PROVE  /\ Moves(heap, heap') /\ Unmerged'
              /\ \A n \in DOMAIN frames' : Minded(frames[n], heap)'
  <2>1. \E w \in Places : InstallOn(w, s, p)
    BY <1>10 DEF Signal, Before, After, Places
  <2>2. Moves(heap, heap') /\ UNCHANGED complexes
    BY <2>1, InstallOnMoves
  <2>3. Follows(frames')
    BY <1>1, <1>10, UserStack
  <2> QED
    BY <1>1, <1>3, <2>2, <2>3 DEF Unmerged
<1> QED
  BY <1>4, <1>5, <1>6, <1>7, <1>8, <1>9, <1>10, StepKinds

LEMMA OnceInit == Init => OnceInv
<1> SUFFICES ASSUME Init PROVE OnceInv
  OBVIOUS
<1>1. GroundedInv
  BY GroundedInit
<1>2. \A d \in Dbs : heap.store[d] = empty
  BY DEF Init
<1>3. \A d \in Dbs : NodesIn(heap, d) = {} /\ vals(heap.store[d]) = {} /\ SubNodes(heap.store[d]) = {}
  BY <1>2, SubNodesEmpty DEF empty, vals, NodesIn, Range
<1>4. Once(heap) /\ Installed(heap) = {}
  BY <1>3 DEF Once, Installed
<1>5. Unmerged /\ \A n \in DOMAIN frames : Minded(frames[n], heap)
  BY EmptySeq DEF Init, Unmerged
<1> QED
  BY <1>1, <1>4, <1>5 DEF OnceInv

\* Processes of one priority keep the order of their installation, and their
\* numbers, whatever is installed, exhausted and deleted among them, as long as
\* each process is installed once and none is merged into another database.
THEOREM InstalledInOrder ==
  ASSUME InstalledOnce
  PROVE  Spec => []SubDatabaseFIFO
<1>1. OnceInv => SubDatabaseFIFO
  <2> SUFFICES ASSUME OnceInv, NEW x \in Dbs, NEW d \in Dbs, x \in vals(heap.store[d])
               PROVE  LET nodes == heap.store[x].nodes
                      IN  /\ \A i, j \in DOMAIN nodes : i < j => nodes[i].key < nodes[j].key
                          /\ \A i \in DOMAIN nodes :
                               nodes[i].val \in Procs /\ nodes[i].key = heap.prio[nodes[i].val]
    BY DEF SubDatabaseFIFO, SubDatabases, Created, Stored
  <2>1. heap \in HeapType /\ Once(heap)
    BY DEF OnceInv, GroundedInv, ForestInv, TypeInv, TypeOK
  <2>2. Numbered(heap.store[x])
    BY <2>1, OnceSub
  <2>3. \A i \in DOMAIN heap.store[x].nodes : heap.store[x].nodes[i] \in NodesIn(heap, x)
    BY DEF NodesIn, Range
  <2> QED
    BY <2>1, <2>2, <2>3 DEF Numbered, Once, NodesIn
<1>2. OnceInv /\ [Next]_vars => OnceInv'
  BY OnceNext
<1> QED
  BY <1>1, <1>2, OnceInit, PTL DEF Spec

----------------------------------------------------------------------------
(* Exhausted processes are purged.  One that is installed with no execution *)
(* left runs all the same, and is not purged before; one that throws never  *)
(* returns to be.                                                           *)

Orderly == InstalledOnce /\ 0 \notin Exhausts /\ "throw" \notin BodyCalls

PurgedInv == OnceInv /\ Purged

LEMMA MembersInstalled ==
  ASSUME NEW h \in HeapType, Once(h), NEW d \in Dbs
  PROVE  Members(h)[d] \subseteq Installed(h)
BY MembersHeld DEF Held, Installed

LEMMA PurgedKept ==
  ASSUME Purged, Installed(heap') \subseteq Installed(heap), heap'.exhaust = heap.exhaust,
         Retains(frames')
  PROVE  Purged'
<1> SUFFICES ASSUME NEW p \in Installed(heap'), is_exhausted(heap'.exhaust[p])
             PROVE  \E n \in DOMAIN frames' : frames'[n].proc = p
  BY DEF Purged
<1>1. PICK n \in DOMAIN frames : frames[n].proc = p
  BY DEF Purged
<1>2. p # NoProc
  BY NothingType DEF Installed
<1> QED
  BY <1>1, <1>2 DEF Retains

\* A process is installed with executions left, or for ever.
LEMMA InstallPurged ==
  ASSUME Orderly, PurgedInv, NEW w \in Places, NEW s \in Sigs, NEW p \in Procs,
         InstallOn(w, s, p)
  PROVE  Purged'
<1>1. PICK g, d : /\ Installs(g, d, w, s, p) /\ p \notin made
                  /\ OncePass(Install(g, d, p), g, d, p, Registereds')
                  /\ Installed(g) = Installed(heap)
  BY InstallOnOnce DEF Orderly, PurgedInv
<1>2. PICK e \in Exhausts : g.exhaust = [heap.exhaust EXCEPT ![p] = set_exhaust(e)]
  BY <1>1 DEF Installs
<1>3. ~is_exhausted(set_exhaust(e))
  <2>1. e \in Int \cup {Never} /\ e # 0
    BY RatesType DEF Orderly
  <2> QED
    BY <2>1, NeverIsNoCount DEF set_exhaust, is_exhausted, XPSPL_PROCESS_DEFAULT_EXHAUST
<1>4. heap.exhaust \in [Procs -> Int \cup {Never}]
  BY HeapFields DEF PurgedInv, OnceInv, GroundedInv, ForestInv, TypeInv, TypeOK
<1>5. /\ heap'.exhaust = g.exhaust /\ Installed(heap') \subseteq Installed(heap) \cup {p}
      /\ UNCHANGED frames
  BY <1>1 DEF OncePass, Installs
<1> SUFFICES ASSUME NEW q \in Installed(heap'), is_exhausted(heap'.exhaust[q])
             PROVE  \E n \in DOMAIN frames' : frames'[n].proc = q
  BY DEF Purged
<1>6. q \in Procs
  BY DEF Installed
<1>7. q # p
  BY <1>2, <1>3, <1>4, <1>5
<1>8. q \in Installed(heap) /\ heap'.exhaust[q] = heap.exhaust[q]
  BY <1>2, <1>4, <1>5, <1>6, <1>7
<1> QED
  BY <1>5, <1>8 DEF PurgedInv, Purged

LEMMA PurgedNext ==
  ASSUME Orderly, PurgedInv, [Next]_vars
  PROVE  PurgedInv'
<1>1. /\ OnceInv' /\ OnceInv /\ Purged /\ TypeOK /\ StackInv /\ Unmerged /\ InstalledOnce
      /\ heap \in HeapType /\ heap' \in HeapType /\ frames \in Seq(FrameType) /\ Once(heap)
  <2>1. OnceInv' /\ OnceInv /\ Purged /\ InstalledOnce
    BY OnceNext DEF PurgedInv, Orderly
  <2> QED
    BY <2>1 DEF OnceInv, GroundedInv, ForestInv, TypeInv, TypeOK, StackInv
<1>2. SUFFICES Purged'
  BY <1>1 DEF PurgedInv
<1>3. CASE Pointers
  <2>1. Unaltered(heap, heap') /\ heap'.exhaust = heap.exhaust
    BY <1>1, <1>3, PointersUnaltered
  <2>2. Installed(heap') = Installed(heap)
    BY <1>1, <2>1, OnceUnaltered
  <2> QED
    BY <1>1, <1>3, <2>1, <2>2, PointersStack, PurgedKept
<1>4. CASE Inspects \/ Unregisters
  <2>1. Unaltered(heap, heap') /\ heap'.exhaust = heap.exhaust
    BY <1>1, <1>4, UserUnaltered
  <2>2. Installed(heap') = Installed(heap)
    BY <1>1, <2>1, OnceUnaltered
  <2>3. ~Throw
    BY DEF Throw, Calling, Orderly
  <2> QED
    BY <1>1, <1>4, <2>1, <2>2, <2>3, UserStack, PurgedKept
<1>5. CASE MergeProcess
  BY <1>1, <1>5, TopAlone DEF MergeProcess
<1>6. CASE ExecProcess
  <2>1. /\ Unaltered(heap, heap') /\ frames # <<>> /\ Top.proc = NoProc /\ Fetched \in Procs
        /\ frames' = WithProc("running", Fetched)
        /\ heap'.exhaust = [heap.exhaust EXCEPT ![Fetched] = decrement_exhaust(@)]
    BY <1>1, <1>6, ExecProcessMoves
  <2>2. Installed(heap') = Installed(heap)
    BY <1>1, <2>1, OnceUnaltered
  <2>3. /\ DOMAIN frames' = DOMAIN frames
        /\ \A n \in DOMAIN frames : n # Len(frames) => frames'[n] = frames[n]
        /\ frames'[Len(frames)].proc = Fetched
    BY <1>1, <2>1, StackProc DEF Pcs
  <2>4. Len(frames) \in DOMAIN frames /\ Top = frames[Len(frames)]
    BY <1>1, <2>1, TopType, LenProperties
  <2> SUFFICES ASSUME NEW q \in Installed(heap'), is_exhausted(heap'.exhaust[q])
               PROVE  \E n \in DOMAIN frames' : frames'[n].proc = q
    BY DEF Purged
  <2>5. q \in Procs /\ q # NoProc
    BY NothingType DEF Installed
  <2>6. CASE q = Fetched
    BY <2>3, <2>4, <2>6
  <2>7. CASE q # Fetched
    <3>1. heap'.exhaust[q] = heap.exhaust[q]
      BY <1>1, <2>1, <2>5, <2>7, HeapFields
    <3>2. PICK n \in DOMAIN frames : frames[n].proc = q
      BY <1>1, <2>2, <3>1 DEF Purged
    <3>3. n # Len(frames)
      BY <2>1, <2>4, <2>5, <3>2
    <3> QED
      BY <2>3, <3>2, <3>3
  <2> QED
    BY <2>6, <2>7
<1>7. ASSUME NEW result \in Returns, Return(result) PROVE Purged'
  <2> DEFINE p == Top.proc
             h == IF is_exhausted(heap.exhaust[p]) THEN Delete(heap, Top.db, p) ELSE heap
  <2>1. /\ Unaltered(h, heap') /\ frames # <<>> /\ p \in Procs /\ Top.db \in Dbs
        /\ frames' = WithProc("fetch", NoProc) /\ heap'.exhaust = heap.exhaust
        /\ Grounded(heap)
    BY <1>1, <1>7, ReturnMoves DEF OnceInv, GroundedInv
  <2>2. /\ DOMAIN frames' = DOMAIN frames
        /\ \A n \in DOMAIN frames : n # Len(frames) => frames'[n] = frames[n]
    BY <1>1, <2>1, StackProc DEF Pcs
  <2>3. Len(frames) \in DOMAIN frames /\ Top = frames[Len(frames)]
    BY <1>1, <2>1, TopType, LenProperties
  <2>4. p \in Installed(heap) => p \in Members(heap)[Top.db]
    BY <1>1, <2>1, <2>3, NothingType DEF OnceInv, Minded
  <2>5. /\ h \in HeapType /\ Once(h) /\ Installed(h) \subseteq Installed(heap)
        /\ is_exhausted(heap.exhaust[p]) => p \notin Installed(h)
    <3>1. CASE ~is_exhausted(heap.exhaust[p])
      BY <1>1, <3>1
    <3>2. CASE is_exhausted(heap.exhaust[p]) /\ p \in Members(heap)[Top.db]
      BY <1>1, <2>1, <3>2, DeleteOnce, DeleteType
    <3>3. CASE is_exhausted(heap.exhaust[p]) /\ p \notin Members(heap)[Top.db]
      <4>1. h \in HeapType /\ Unaltered(heap, h)
        BY <1>1, <2>1, <3>3, DeleteOnce, DeleteType
      <4> HIDE DEF h
      <4>2. Once(h) /\ Installed(h) = Installed(heap)
        BY <1>1, <4>1, OnceUnaltered
      <4> QED
        BY <2>4, <3>3, <4>1, <4>2
    <3> QED
      BY <3>1, <3>2, <3>3
  <2> HIDE DEF h
  <2>6. Installed(heap') = Installed(h)
    BY <1>1, <2>1, <2>5, OnceUnaltered
  <2> SUFFICES ASSUME NEW q \in Installed(heap'), is_exhausted(heap'.exhaust[q])
               PROVE  \E n \in DOMAIN frames' : frames'[n].proc = q
    BY DEF Purged
  <2>7. q # p /\ q \in Installed(heap) /\ is_exhausted(heap.exhaust[q])
    BY <2>1, <2>5, <2>6
  <2>8. PICK n \in DOMAIN frames : frames[n].proc = q
    BY <1>1, <2>7 DEF Purged
  <2>9. n # Len(frames)
    BY <2>3, <2>7, <2>8
  <2> QED
    BY <2>2, <2>8, <2>9
<1>8. ASSUME NEW s \in Sigs, NEW p \in Procs, DeleteProcess(s, p) PROVE Purged'
  <2> DEFINE d == Find("index", s)
  <2>1. d \in Dbs /\ heap' = Delete(heap, d, p) /\ UNCHANGED frames
    BY <1>1, <1>8, FindType DEF DeleteProcess, Places
  <2> HIDE DEF d
  <2>2. Grounded(heap)
    BY <1>1 DEF OnceInv, GroundedInv
  <2>3. Installed(heap') \subseteq Installed(heap)
    <3>1. CASE p \in Members(heap)[d]
      BY <1>1, <2>1, <2>2, <3>1, DeleteOnce
    <3>2. CASE p \notin Members(heap)[d]
      <4>1. Unaltered(heap, heap')
        BY <1>1, <2>1, <2>2, <3>2, DeleteOnce
      <4> QED
        BY <1>1, <4>1, OnceUnaltered
    <3> QED
      BY <3>1, <3>2
  <2>4. heap'.exhaust = heap.exhaust
    BY <1>1, <2>1, DeleteNodes
  <2>5. Retains(frames')
    BY <2>1 DEF Retains
  <2> QED
    BY <1>1, <2>3, <2>4, <2>5, PurgedKept
<1>9. ASSUME NEW s \in Sigs, NEW p \in Procs, Signal(s, p) \/ Before(s, p) \/ After(s, p)
      PROVE  Purged'
  <2>1. \E w \in Places : InstallOn(w, s, p)
    BY <1>9 DEF Signal, Before, After, Places
  <2> QED
    BY <2>1, InstallPurged
<1> QED
  BY <1>3, <1>4, <1>5, <1>6, <1>7, <1>8, <1>9, StepKinds

\* An exhausted process stays behind in no database: it is deleted when it
\* returns, in whatever emission it was run, and wherever others have moved it
\* to by then, unless it never returns, or is exhausted when it is installed.
THEOREM NoneStaysExhausted ==
  ASSUME Orderly
  PROVE  Spec => []ExhaustedIsPurged
<1>1. Init => PurgedInv
  <2> SUFFICES ASSUME Init PROVE Purged
    BY OnceInit DEF PurgedInv
  <2> QED
    BY DEF Init, Purged, Installed, vals, empty
<1>2. PurgedInv /\ [Next]_vars => PurgedInv'
  BY PurgedNext
<1>3. PurgedInv => ExhaustedIsPurged
  <2> SUFFICES ASSUME PurgedInv, NEW w \in Places, NEW i \in Idx, databases[w][i] # NoDb,
                      NEW p \in Members(heap)[databases[w][i]], is_exhausted(heap.exhaust[p])
               PROVE  \E n \in DOMAIN frames : frames[n].proc = p
    BY DEF ExhaustedIsPurged
  <2>1. heap \in HeapType /\ Once(heap) /\ databases[w][i] \in Dbs
    BY DEF PurgedInv, OnceInv, GroundedInv, ForestInv, TypeInv, TypeOK
  <2>2. p \in Installed(heap)
    BY <2>1, MembersInstalled
  <2> QED
    BY <2>2 DEF PurgedInv, Purged
<1> QED
  BY <1>1, <1>2, <1>3, PTL DEF Spec

----------------------------------------------------------------------------
(* The databases implement the registry.                                   *)

\* A new database of a signal is that of no other.
LEMMA InstallOneEach ==
  ASSUME PlacedInv, NEW w \in Places, NEW s \in Sigs, NEW p \in Procs, NEW g, NEW d,
         Installs(g, d, w, s, p)
  PROVE  /\ OneEach' /\ Registereds \subseteq Registereds'
         /\ databases' = [databases EXCEPT ![w][Index[s]] = d]
         /\ Find(w, s) \in {d, NoDb}
         /\ \A v \in Places, j \in Idx : databases[v][j] = d => v = w /\ j = Index[s]
<1>1. TypeOK /\ ForestOf(heap, Registereds) /\ OneEach
  BY DEF PlacedInv, OnceInv, GroundedInv, ForestInv, TypeInv, Forest
<1>2. databases \in [Places -> [Idx -> Dbs \cup {NoDb}]] /\ Index[s] \in Idx /\ heap \in HeapType
  BY <1>1, FindType DEF TypeOK
<1>3. /\ d \in Dbs /\ databases' = [databases EXCEPT ![w][Index[s]] = d]
      /\ \/ d = databases[w][Index[s]]
         \/ d \in heap.unused /\ databases[w][Index[s]] = NoDb
  BY DEF Installs, Find
<1>4. d # NoDb
  BY <1>3, NothingType
<1>5. ASSUME NEW v \in Places, NEW j \in Idx, databases[v][j] = d
      PROVE  v = w /\ j = Index[s]
  <2>1. databases[v][j] \in Registereds
    BY <1>4, <1>5 DEF Registereds
  <2>2. d = databases[w][Index[s]]
    BY <1>1, <1>2, <1>3, <1>5, <2>1, ForestFacts
  <2> QED
    BY <1>1, <1>2, <1>4, <1>5, <2>2 DEF OneEach
<1>6. \A v \in Places, j \in Idx :
        databases'[v][j] = IF v = w /\ j = Index[s] THEN d ELSE databases[v][j]
  BY <1>2, <1>3
<1>7. OneEach'
  <2> SUFFICES ASSUME NEW u \in Places, NEW v \in Places, NEW i \in Idx, NEW j \in Idx,
                      databases'[u][i] = databases'[v][j], databases'[u][i] # NoDb
               PROVE  u = v /\ i = j
    BY DEF OneEach
  <2>1. CASE u = w /\ i = Index[s]
    BY <1>5, <1>6, <2>1
  <2>2. CASE v = w /\ j = Index[s]
    BY <1>5, <1>6, <2>2
  <2>3. CASE ~(u = w /\ i = Index[s]) /\ ~(v = w /\ j = Index[s])
    <3>1. databases[u][i] = databases[v][j] /\ databases[u][i] # NoDb
      BY <1>6, <2>3
    <3> QED
      BY <1>1, <3>1 DEF OneEach
  <2> QED
    BY <2>1, <2>2, <2>3
<1>8. Registereds \subseteq Registereds'
  <2> SUFFICES ASSUME NEW v \in Places, NEW j \in Idx, databases[v][j] # NoDb
               PROVE  \E u \in Places, i \in Idx : databases'[u][i] = databases[v][j]
    BY DEF Registereds
  <2> QED
    BY <1>3, <1>6
<1> QED
  BY <1>3, <1>5, <1>7, <1>8 DEF Find

LEMMA PlacedNext ==
  ASSUME InstalledOnce, PlacedInv, [Next]_vars
  PROVE  PlacedInv'
<1>1. OnceInv' /\ OnceInv /\ OneEach /\ TypeOK /\ StackInv /\ Unmerged
  <2>1. OnceInv' /\ OnceInv /\ OneEach
    BY OnceNext DEF PlacedInv
  <2> QED
    BY <2>1 DEF OnceInv, GroundedInv, ForestInv, TypeInv, StackInv
<1>2. SUFFICES OneEach'
  BY <1>1 DEF PlacedInv
<1>3. UNCHANGED databases => OneEach'
  BY <1>1 DEF OneEach
<1>4. CASE Pointers \/ Inspects
  <2>1. UNCHANGED databases
    BY <1>1, <1>4, PointersUnaltered, UserUnaltered
  <2> QED
    BY <1>3, <2>1
<1>5. CASE Unregisters
  <2>1. \A w \in Places, i \in Idx : databases'[w][i] \in {databases[w][i], NoDb}
    <3>1. databases \in [Places -> [Idx -> Dbs \cup {NoDb}]]
      BY <1>1 DEF TypeOK
    <3> QED
      BY <1>1, <1>5, <3>1, FindType DEF Unregisters, Flush, DeleteSignal, Places
  <2> QED
    BY <1>1, <2>1 DEF OneEach
<1>6. CASE MergeProcess
  BY <1>1, <1>6, TopAlone DEF MergeProcess
<1>7. CASE ExecProcess
  BY <1>3, <1>7 DEF ExecProcess
<1>8. CASE \E result \in Returns : Return(result)
  BY <1>3, <1>8 DEF Return
<1>9. CASE \E s \in Sigs, p \in Procs : DeleteProcess(s, p)
  BY <1>3, <1>9 DEF DeleteProcess
<1>10. ASSUME NEW s \in Sigs, NEW p \in Procs, Signal(s, p) \/ Before(s, p) \/ After(s, p)
       PROVE  OneEach'
  <2>1. PICK w \in Places : InstallOn(w, s, p)
    BY <1>10 DEF Signal, Before, After, Places
  <2>2. PICK g, d : Installs(g, d, w, s, p)
    BY <1>1, <2>1, InstallOnOnce
  <2> QED
    BY <2>2, InstallOneEach
<1> QED
  BY <1>4, <1>5, <1>6, <1>7, <1>8, <1>9, <1>10, StepKinds

\* The process is registered in the place that its database belongs to, and in
\* no other.
LEMMA OneRoot ==
  ASSUME NEW h \in HeapType, Once(h), NEW roots \in SUBSET Dbs, ForestOf(h, roots),
         NEW d \in roots, NEW e \in roots, NEW p \in Procs,
         p \in Members(h)[d], p \in Members(h)[e]
  PROVE  d = e
<1>1. ASSUME NEW x \in Dbs, NEW y \in Dbs, p \in vals(h.store[x]), p \in vals(h.store[y])
      PROVE  x = y
  <2>1. (\E m \in NodesIn(h, x) : m.val = p) /\ (\E n \in NodesIn(h, y) : n.val = p)
    BY <1>1, HeapFields, RangeOf DEF NodesIn
  <2> QED
    BY <2>1 DEF Once
<1>2. ASSUME NEW x \in roots, p \in Members(h)[x]
      PROVE  \E v \in Dbs : p \in vals(h.store[v]) /\ (v = x \/ v \in vals(h.store[x]))
  BY <1>2, MembersHeld DEF Held
<1>3. PICK u \in Dbs : p \in vals(h.store[u]) /\ (u = d \/ u \in vals(h.store[d]))
  BY <1>2
<1>4. PICK v \in Dbs : p \in vals(h.store[v]) /\ (v = e \/ v \in vals(h.store[e]))
  BY <1>2
<1>5. u = v
  BY <1>1, <1>3, <1>4
<1> QED
  BY <1>3, <1>4, <1>5, Apart

LEMMA RegisteredAt ==
  /\ registered = [w \in Places |-> [i \in Idx |-> registered[w][i]]]
  /\ \A w \in Places, i \in Idx :
       registered[w][i] = IF databases[w][i] = NoDb THEN {} ELSE Members(heap)[databases[w][i]]
BY DEF registered

LEMMA RegisteredNext ==
  /\ registered' = [w \in Places |-> [i \in Idx |-> registered'[w][i]]]
  /\ \A w \in Places, i \in Idx :
       registered'[w][i] = IF databases'[w][i] = NoDb THEN {} ELSE Members(heap')[databases'[w][i]]
BY DEF registered

\* A process of a database is registered in some place, or in none.
LEMMA RegisteredFields ==
  ASSUME PlacedInv
  PROVE  /\ TypeOK /\ heap \in HeapType /\ Once(heap) /\ Grounded(heap)
         /\ frames \in Seq(FrameType) /\ Registereds \subseteq Dbs
<1>1. TypeOK /\ Once(heap) /\ Grounded(heap)
  BY DEF PlacedInv, OnceInv, GroundedInv, ForestInv, TypeInv
<1> QED
  BY <1>1, RegisteredsType DEF TypeOK

\* A step that moves no process leaves the registry as it is.
LEMMA RegistrySame ==
  ASSUME TypeOK, UNCHANGED databases, \A d \in Dbs : Members(heap')[d] = Members(heap)[d]
  PROVE  UNCHANGED registered
<1>1. \A w \in Places, i \in Idx : databases[w][i] \in Dbs \cup {NoDb}
  BY DEF TypeOK
<1>2. \A w \in Places, i \in Idx : registered'[w][i] = registered[w][i]
  BY <1>1, RegisteredAt, RegisteredNext
<1> QED
  BY <1>2, RegisteredAt, RegisteredNext

\* The registry after a change in one place of it.
LEMMA RegistryExcept ==
  ASSUME NEW w \in Places, NEW i \in Idx, NEW S, registered'[w][i] = S,
         \A v \in Places, j \in Idx : (v = w /\ j = i) \/ registered'[v][j] = registered[v][j]
  PROVE  registered' = [registered EXCEPT ![w][i] = S]
<1> DEFINE r == registered
           t == [registered EXCEPT ![w][i] = S]
<1>1. r = [v \in Places |-> [j \in Idx |-> r[v][j]]]
  BY RegisteredAt
<1>2. t = [v \in Places |-> IF v = w THEN [r[v] EXCEPT ![i] = S] ELSE r[v]]
  BY <1>1
<1>3. \A v \in Places : r[v] = [j \in Idx |-> r[v][j]]
  BY <1>1
<1>4. [r[w] EXCEPT ![i] = S] = [j \in Idx |-> IF j = i THEN S ELSE r[w][j]]
  BY <1>3
<1>5. \A v \in Places : registered'[v] = [j \in Idx |-> registered'[v][j]]
  BY RegisteredNext
<1>6. ASSUME NEW v \in Places PROVE registered'[v] = t[v]
  <2>1. CASE v = w
    BY <1>2, <1>4, <1>5, <2>1
  <2>2. CASE v # w
    <3>1. \A j \in Idx : registered'[v][j] = r[v][j]
      BY <2>2
    <3>2. t[v] = [j \in Idx |-> r[v][j]]
      BY <1>2, <1>3, <2>2
    <3> HIDE DEF r, t
    <3>3. [j \in Idx |-> registered'[v][j]] = [j \in Idx |-> r[v][j]]
      BY <3>1
    <3> QED
      BY <1>5, <3>2, <3>3
  <2> QED
    BY <2>1, <2>2
<1>7. registered' = [v \in Places |-> registered'[v]]
  BY RegisteredNext
<1>8. t = [v \in Places |-> t[v]]
  BY <1>2
<1> QED
  BY <1>6, <1>7, <1>8

\* A process leaves the one place of the registry that it is in.
LEMMA RegistryRemoved ==
  ASSUME PlacedInv, NEW w \in Places, NEW i \in Idx, NEW p \in Procs, p \in registered[w][i],
         UNCHANGED databases, \A d \in Dbs : Members(heap')[d] = Members(heap)[d] \ {p}
  PROVE  registered' = [registered EXCEPT ![w][i] = @ \ {p}]
<1>1. /\ heap \in HeapType /\ Once(heap) /\ OneEach /\ ForestOf(heap, Registereds)
      /\ \A v \in Places, j \in Idx : databases[v][j] \in Dbs \cup {NoDb}
      /\ Registereds \subseteq Dbs
  <2>1. TypeOK /\ Once(heap) /\ OneEach /\ ForestOf(heap, Registereds)
    BY DEF PlacedInv, OnceInv, GroundedInv, ForestInv, TypeInv, Forest
  <2> QED
    BY <2>1, RegisteredsType DEF TypeOK
<1>2. databases[w][i] # NoDb /\ p \in Members(heap)[databases[w][i]]
  BY RegisteredAt
<1>3. ASSUME NEW v \in Places, NEW j \in Idx PROVE registered'[v][j] = registered[v][j] \ {p}
  BY <1>1, RegisteredAt, RegisteredNext
<1>4. ASSUME NEW v \in Places, NEW j \in Idx, p \in registered[v][j] PROVE v = w /\ j = i
  <2>1. databases[v][j] # NoDb /\ p \in Members(heap)[databases[v][j]]
    BY <1>4, RegisteredAt
  <2>2. databases[v][j] \in Registereds /\ databases[w][i] \in Registereds
    BY <1>2, <2>1 DEF Registereds
  <2>3. databases[v][j] = databases[w][i]
    <3> DEFINE roots == Registereds
               a == databases[v][j]
               b == databases[w][i]
    <3>1. a \in roots /\ b \in roots /\ p \in Members(heap)[a] /\ p \in Members(heap)[b]
          /\ roots \in SUBSET Dbs /\ ForestOf(heap, roots)
      BY <1>1, <1>2, <2>1, <2>2
    <3> HIDE DEF roots, a, b
    <3>2. a = b
      BY <1>1, <3>1, OneRoot
    <3> QED
      BY <3>2 DEF a, b
  <2> QED
    BY <1>1, <1>2, <2>3 DEF OneEach
<1>5. \A v \in Places, j \in Idx : (v = w /\ j = i) \/ registered'[v][j] = registered[v][j]
  <2> TAKE v \in Places, j \in Idx
  <2>1. CASE p \in registered[v][j]
    BY <1>4, <2>1
  <2>2. CASE p \notin registered[v][j]
    <3>1. registered[v][j] \ {p} = registered[v][j]
      BY <2>2
    <3> QED
      BY <1>3, <3>1
  <2> QED
    BY <2>1, <2>2
<1> DEFINE S == registered[w][i] \ {p}
<1>6. registered'[w][i] = S
  BY <1>3
<1> HIDE DEF S
<1>7. registered' = [registered EXCEPT ![w][i] = S]
  BY <1>5, <1>6, RegistryExcept
<1> QED
  BY <1>7 DEF S

\* A process that is registered nowhere can be deleted without anybody noticing.
LEMMA NowhereRegistered ==
  ASSUME PlacedInv, NEW p \in Procs, p \notin R!Everywhere, UNCHANGED databases,
         \A d \in Dbs : Members(heap')[d] = Members(heap)[d] \ {p}
  PROVE  UNCHANGED registered
<1>1. \A w \in Places, i \in Idx : databases[w][i] \in Dbs \cup {NoDb} /\ p \notin registered[w][i]
  BY DEF PlacedInv, OnceInv, GroundedInv, ForestInv, TypeInv, TypeOK, R!Everywhere
<1>2. \A w \in Places, i \in Idx : registered'[w][i] = registered[w][i] \ {p}
  BY <1>1, RegisteredAt, RegisteredNext
<1>3. \A w \in Places, i \in Idx : registered[w][i] \ {p} = registered[w][i]
  BY <1>1
<1>4. \A w \in Places, i \in Idx : registered'[w][i] = registered[w][i]
  BY <1>2, <1>3
<1> QED
  BY <1>4, RegisteredAt, RegisteredNext

\* What is registered is stored.
LEMMA RegisteredInstalled ==
  ASSUME PlacedInv, NEW w \in Places, NEW i \in Idx
  PROVE  registered[w][i] \subseteq Installed(heap)
<1>1. /\ heap \in HeapType /\ Once(heap) /\ databases[w][i] \in Dbs \cup {NoDb}
  BY DEF PlacedInv, OnceInv, GroundedInv, ForestInv, TypeInv, TypeOK
<1> QED
  BY <1>1, RegisteredAt, MembersInstalled

\* An install adds the process to the database of its signal, or fails and adds
\* it to none.
LEMMA InstallRefines ==
  ASSUME InstalledOnce, PlacedInv, PlacedInv', NEW w \in Places, NEW s \in Sigs, NEW p \in Procs,
         InstallOn(w, s, p)
  PROVE  R!Add(w, Index[s], p) \/ R!Fail(p)
<1>1. PICK g, d : /\ Installs(g, d, w, s, p) /\ p \notin made /\ d \in Dbs
                  /\ OncePass(Install(g, d, p), g, d, p, Registereds')
                  /\ \A y \in Dbs : Held(g, y) = Held(heap, y)
  BY InstallOnOnce DEF PlacedInv
<1> DEFINE k == Index[s]
<1>2. /\ heap \in HeapType /\ heap' \in HeapType /\ Once(heap) /\ Once(heap')
      /\ Installed(heap) \subseteq made /\ k \in Idx /\ ForestOf(heap, Registereds)
      /\ \A v \in Places, j \in Idx : databases[v][j] \in Dbs \cup {NoDb}
  <2>1. TypeOK /\ TypeOK' /\ Once(heap) /\ Once(heap') /\ Installed(heap) \subseteq made
        /\ ForestOf(heap, Registereds)
    BY DEF PlacedInv, OnceInv, GroundedInv, ForestInv, TypeInv, Forest
  <2> QED
    BY <2>1, FindType DEF TypeOK
<1>3. /\ databases' = [databases EXCEPT ![w][k] = d] /\ Find(w, s) \in {d, NoDb}
      /\ \A v \in Places, j \in Idx : databases[v][j] = d => v = w /\ j = k
      /\ Registereds \subseteq Registereds'
  BY <1>1, InstallOneEach
<1>4. /\ heap' = Install(g, d, p).heap /\ d # NoDb /\ d \in Registereds'
      /\ Find(w, s) = NoDb => d \in heap.unused
  BY <1>1, NothingType DEF Installs
<1>others. \A y \in Registereds' : y # d => Held(heap', y) = Held(g, y)
  <2> DEFINE roots == Registereds'
             c == Install(g, d, p)
  <2>1. OncePass(c, g, d, p, roots) /\ c.heap = heap'
    BY <1>1, <1>4
  <2> HIDE DEF roots, c
  <2>2. \/ \A y \in roots : Held(c.heap, y) = Held(g, y)
        \/ \A y \in roots : Held(c.heap, y) = Held(g, y) \cup (IF y = d THEN {p} ELSE {})
    BY <2>1 DEF OncePass
  <2>3. \A y \in roots : y # d => Held(c.heap, y) = Held(g, y)
    BY <2>2
  <2> QED
    BY <2>1, <2>3 DEF roots
<1>5. \A v \in Places, j \in Idx :
        databases'[v][j] = IF v = w /\ j = k THEN d ELSE databases[v][j]
  <2>1. databases \in [Places -> [Idx -> Dbs \cup {NoDb}]]
    BY DEF PlacedInv, OnceInv, GroundedInv, ForestInv, TypeInv, TypeOK
  <2> QED
    BY <1>2, <1>3, <2>1
<1>6. registered[w][k] = Held(heap, d)
  <2>1. CASE Find(w, s) = d
    BY <1>1, <1>2, <1>4, <2>1, RegisteredAt, MembersHeld DEF Find
  <2>2. CASE Find(w, s) = NoDb
    <3>1. heap.store[d] = empty
      BY <1>2, <1>4, <2>2, ForestFacts
    <3>2. Held(heap, d) = {}
      BY <3>1 DEF Held, vals, empty
    <3> QED
      BY <1>2, <2>2, <3>2, RegisteredAt DEF Find
  <2> QED
    BY <1>3, <2>1, <2>2
<1>7. registered'[w][k] = Held(heap', d)
  BY <1>1, <1>2, <1>4, <1>5, RegisteredNext, MembersHeld
<1>8. \A v \in Places, j \in Idx : (v = w /\ j = k) \/ registered'[v][j] = registered[v][j]
  <2> SUFFICES ASSUME NEW v \in Places, NEW j \in Idx, ~(v = w /\ j = k)
               PROVE  registered'[v][j] = registered[v][j]
    OBVIOUS
  <2> DEFINE e == databases[v][j]
  <2>1. databases'[v][j] = e /\ e # d
    BY <1>3, <1>5
  <2>2. CASE e = NoDb
    BY <2>1, <2>2, RegisteredAt, RegisteredNext
  <2>3. CASE e # NoDb
    <3>1. e \in Dbs /\ e \in Registereds'
      BY <1>2, <1>3, <2>3 DEF Registereds
    <3>2. registered'[v][j] = Members(heap')[e] /\ registered[v][j] = Members(heap)[e]
      BY <2>1, <2>3, RegisteredAt, RegisteredNext
    <3> HIDE DEF e
    <3>3. Held(heap', e) = Held(heap, e)
      BY <1>1, <1>others, <2>1, <3>1
    <3> QED
      BY <1>2, <3>1, <3>2, <3>3, MembersHeld
  <2> QED
    BY <2>2, <2>3
<1>9. R!Construct(p)
  <2>1. p \notin R!Everywhere
    <3>1. \A v \in Places, j \in Idx : p \notin registered[v][j]
      BY <1>1, <1>2, RegisteredInstalled
    <3> QED
      BY <3>1 DEF R!Everywhere
  <2>2. \A q \in Procs : q # p => heap'.exhaust[q] = heap.exhaust[q]
    <3>1. PICK e : g.exhaust = [heap.exhaust EXCEPT ![p] = e]
      BY <1>1 DEF Installs
    <3>2. heap'.exhaust = g.exhaust
      BY <1>1, <1>4 DEF OncePass
    <3> QED
      BY <1>2, <3>1, <3>2, HeapFields
  <2>3. \A q \in Procs \ {p} : left'[q] = left[q]
    BY <2>2 DEF left
  <2> QED
    BY <2>1, <2>3 DEF R!Construct
<1>10. CASE Held(heap', d) = Held(heap, d) \cup {p}
  <2> DEFINE S == registered[w][k] \cup {p}
  <2>1. registered'[w][k] = S
    BY <1>6, <1>7, <1>10
  <2> HIDE DEF S, k
  <2>2. registered' = [registered EXCEPT ![w][k] = S]
    BY <1>2, <1>8, <2>1, RegistryExcept
  <2>3. registered' = [registered EXCEPT ![w][k] = @ \cup {p}]
    BY <2>2 DEF S
  <2> QED
    BY <1>9, <2>3 DEF R!Add, k
<1>11. CASE Held(heap', d) = Held(heap, d)
  <2>1. \A v \in Places, j \in Idx : registered'[v][j] = registered[v][j]
    BY <1>6, <1>7, <1>8, <1>11
  <2>2. registered' = registered
    BY <2>1, RegisteredAt, RegisteredNext
  <2> QED
    BY <1>9, <2>2 DEF R!Fail
<1> QED
  BY <1>1, <1>4, <1>10, <1>11 DEF OncePass

\* A process that is registered and runs uses up an execution if it has any left.
LEMMA ExecProcessRefines ==
  ASSUME PlacedInv, ExecProcess
  PROVE  R!Run(Fetched) \/ R!Fail(Fetched) \/ UNCHANGED <<registered, left>>
<1> DEFINE p == Fetched
           n == heap.exhaust[p]
<1>1. /\ Unaltered(heap, heap') /\ frames # <<>> /\ Top.db \in Dbs
      /\ p \in Procs /\ p \in Members(heap)[Top.db] /\ UNCHANGED databases
      /\ heap'.exhaust = [heap.exhaust EXCEPT ![p] = decrement_exhaust(@)]
      /\ Moves(heap, heap')
  BY ExecProcessMoves DEF PlacedInv
<1>2. /\ heap \in HeapType /\ Once(heap) /\ TypeOK /\ frames \in Seq(FrameType)
  BY DEF PlacedInv, OnceInv, GroundedInv, ForestInv, TypeInv, TypeOK
<1>3. heap' \in HeapType
  <2>1. TypeInv /\ (ExecProcess => Step)
    BY DEF PlacedInv, OnceInv, GroundedInv, ForestInv, Step
  <2> QED
    BY <2>1, StepType DEF TypeInv, TypeOK
<1>4. UNCHANGED registered
  <2>1. \A d \in Dbs : Members(heap')[d] = Members(heap)[d]
    BY <1>1, <1>2, <1>3, OnceUnaltered
  <2> QED
    BY <1>1, <1>2, <2>1, RegistrySame
<1>5. CASE p \notin R!Everywhere
  <2>1. \A q \in Procs \ {p} : left'[q] = left[q]
    <3>1. \A q \in Procs \ {p} : heap'.exhaust[q] = heap.exhaust[q]
      BY <1>1, <1>2, HeapFields
    <3> QED
      BY <3>1 DEF left
  <2> QED
    BY <1>4, <1>5, <2>1 DEF R!Fail, R!Construct
<1>6. /\ n \in Int \cup {Never} /\ heap.exhaust \in [Procs -> Int \cup {Never}]
      /\ heap'.exhaust[p] = decrement_exhaust(n)
      /\ \A q \in Procs : q # p => heap'.exhaust[q] = heap.exhaust[q]
  BY <1>1, <1>2, HeapFields
<1>7. /\ left = [q \in Procs |-> IF is_exhausted(heap.exhaust[q]) THEN 0 ELSE heap.exhaust[q]]
      /\ left' = [q \in Procs |-> IF is_exhausted(heap'.exhaust[q]) THEN 0 ELSE heap'.exhaust[q]]
  BY DEF left
<1>8. CASE p \in R!Everywhere /\ n # Never /\ n > 0
  <2>1. left[p] = n /\ left'[p] = n - 1
    BY <1>1, <1>6, <1>7, <1>8, NeverIsNoCount DEF is_exhausted, decrement_exhaust
  <2>2. \A q \in Procs : q # p => left'[q] = left[q]
    BY <1>6, <1>7
  <2>3. left' = [left EXCEPT ![p] = @ - 1]
    <3>1. left' = [q \in Procs |-> left'[q]] /\ left = [q \in Procs |-> left[q]]
      BY <1>7
    <3> HIDE DEF p, n
    <3> QED
      BY <2>1, <2>2, <3>1
  <2> QED
    BY <1>4, <1>8, <2>1, <2>3 DEF R!Run
<1>9. CASE ~(n # Never /\ n > 0)
  <2>1. left'[p] = left[p]
    BY <1>1, <1>6, <1>7, <1>9, NeverIsNoCount DEF is_exhausted, decrement_exhaust
  <2>2. \A q \in Procs : left'[q] = left[q]
    BY <1>6, <1>7, <2>1
  <2>3. left' = left
    BY <1>7, <2>2
  <2> QED
    BY <1>4, <2>3
<1> QED
  BY <1>5, <1>8, <1>9

\* Steps that move no process and no database, and count no execution.
LEMMA StuttersRefine ==
  ASSUME NEW g \in HeapType, PlacedInv, PlacedInv', Once(g), Unaltered(g, heap'),
         \A d \in Dbs : Members(g)[d] = Members(heap)[d],
         heap'.exhaust = heap.exhaust, UNCHANGED databases
  PROVE  UNCHANGED <<registered, left>>
<1>1. TypeOK /\ heap' \in HeapType
  BY DEF PlacedInv, OnceInv, GroundedInv, ForestInv, TypeInv, TypeOK
<1>2. \A d \in Dbs : Members(heap')[d] = Members(heap)[d]
  BY <1>1, OnceUnaltered
<1> QED
  BY <1>1, <1>2, RegistrySame DEF left

\* An emission, and the calls that change no database, leave the registry alone.
LEMMA PointersRefine ==
  ASSUME PlacedInv, PlacedInv', Pointers \/ Inspects
  PROVE  UNCHANGED <<registered, left>>
<1>1. TypeOK /\ heap \in HeapType /\ Once(heap)
  BY DEF PlacedInv, OnceInv, GroundedInv, ForestInv, TypeInv, TypeOK
<1>2. Unaltered(heap, heap') /\ heap'.exhaust = heap.exhaust /\ UNCHANGED databases
  BY <1>1, PointersUnaltered, UserUnaltered
<1> QED
  BY <1>1, <1>2, StuttersRefine

\* A process that is removed leaves the place it was registered in, and if that
\* is not one of the installed processes, it has no execution left.
LEMMA RemoveRefines ==
  ASSUME NEW g \in HeapType, PlacedInv, PlacedInv', Once(g), Unaltered(g, heap'),
         NEW p \in Procs, \A d \in Dbs : Members(g)[d] = Members(heap)[d] \ {p},
         heap'.exhaust = heap.exhaust, UNCHANGED databases,
         NEW w \in Places, NEW i \in Idx, p \in registered[w][i],
         w = "index" \/ is_exhausted(heap.exhaust[p])
  PROVE  R!Remove(w, i, p)
<1>1. heap' \in HeapType
  BY DEF PlacedInv, OnceInv, GroundedInv, ForestInv, TypeInv, TypeOK
<1>2. \A d \in Dbs : Members(heap')[d] = Members(heap)[d] \ {p}
  BY <1>1, OnceUnaltered
<1>3. registered' = [registered EXCEPT ![w][i] = @ \ {p}]
  BY <1>2, RegistryRemoved
<1>4. UNCHANGED left /\ (w = "index" \/ left[p] = 0)
  BY DEF left
<1> QED
  BY <1>3, <1>4 DEF R!Remove

\* A process that returns is removed if it has no execution left.
LEMMA ReturnRefines ==
  ASSUME PlacedInv, PlacedInv', NEW result \in Returns, Return(result)
  PROVE  \/ \E w \in Places, i \in Idx, p \in Procs : R!Remove(w, i, p)
         \/ UNCHANGED <<registered, left>>
<1> DEFINE p == Top.proc
           d == Top.db
           g == IF is_exhausted(heap.exhaust[p]) THEN Delete(heap, d, p) ELSE heap
<1>1. /\ frames # <<>> /\ p \in Procs /\ d \in Dbs /\ UNCHANGED databases
      /\ heap'.exhaust = heap.exhaust /\ Unaltered(g, heap')
  BY ReturnMoves DEF PlacedInv
<1>2. /\ heap \in HeapType /\ Once(heap) /\ Grounded(heap)
  BY DEF PlacedInv, OnceInv, GroundedInv, ForestInv, TypeInv, TypeOK
<1>3. g \in HeapType
  BY <1>1, <1>2, DeleteType
<1>4. CASE is_exhausted(heap.exhaust[p]) /\ p \in Members(heap)[d]
  <2>1. Once(g) /\ \A y \in Dbs : Members(g)[y] = Members(heap)[y] \ {p}
    BY <1>1, <1>2, <1>4, DeleteOnce
  <2>2. CASE p \in R!Everywhere
    <3>1. PICK w \in Places, i \in Idx : p \in registered[w][i]
      BY <2>2 DEF R!Everywhere
    <3> HIDE DEF g, p
    <3>2. R!Remove(w, i, p)
      BY <1>1, <1>3, <1>4, <2>1, <3>1, RemoveRefines
    <3> QED
      BY <1>1, <3>2
  <2>3. CASE p \notin R!Everywhere
    <3> HIDE DEF g, p
    <3>1. heap' \in HeapType
      BY DEF PlacedInv, OnceInv, GroundedInv, ForestInv, TypeInv, TypeOK
    <3>2. \A y \in Dbs : Members(heap')[y] = Members(heap)[y] \ {p}
      BY <1>1, <1>3, <2>1, <3>1, OnceUnaltered
    <3>3. UNCHANGED registered
      BY <1>1, <2>3, <3>2, NowhereRegistered
    <3> QED
      BY <1>1, <3>3 DEF left
  <2> QED
    BY <2>2, <2>3
<1>5. CASE ~(is_exhausted(heap.exhaust[p]) /\ p \in Members(heap)[d])
  <2>1. Unaltered(heap, g)
    <3>1. Unaltered(heap, heap)
      BY DEF Unaltered
    <3> QED
      BY <1>1, <1>2, <1>5, <3>1, DeleteOnce
  <2> HIDE DEF g
  <2>2. Once(g) /\ \A y \in Dbs : Members(g)[y] = Members(heap)[y]
    BY <1>2, <1>3, <2>1, OnceUnaltered
  <2> QED
    BY <1>1, <1>3, <2>2, StuttersRefine
<1> QED
  BY <1>4, <1>5

\* delete_process() takes the process from the signal, if it is there.
LEMMA DeleteProcessRefines ==
  ASSUME PlacedInv, PlacedInv', NEW s \in Sigs, NEW p \in Procs, DeleteProcess(s, p)
  PROVE  R!Remove("index", Index[s], p) \/ UNCHANGED <<registered, left>>
<1> DEFINE d == Find("index", s)
           g == Delete(heap, d, p)
<1>1. TypeOK /\ heap \in HeapType /\ Once(heap) /\ Grounded(heap)
  BY DEF PlacedInv, OnceInv, GroundedInv, ForestInv, TypeInv, TypeOK
<1>2. d \in Dbs /\ Index[s] \in Idx /\ heap' = g /\ UNCHANGED databases /\ "index" \in Places
  BY <1>1, FindType DEF DeleteProcess, Places
<1>3. g \in HeapType /\ heap'.exhaust = heap.exhaust
  BY <1>1, <1>2, DeleteType, DeleteNodes
<1>4. Once(g) /\ Unaltered(g, heap')
  BY <1>1, <1>2, DeleteOnce DEF Unaltered
<1>5. CASE p \in Members(heap)[d]
  <2>1. \A y \in Dbs : Members(g)[y] = Members(heap)[y] \ {p}
    BY <1>1, <1>2, <1>5, DeleteOnce
  <2>2. p \in registered["index"][Index[s]]
    BY <1>2, <1>5, NothingType, RegisteredAt DEF Find
  <2> HIDE DEF g
  <2> QED
    BY <1>2, <1>3, <1>4, <2>1, <2>2, RemoveRefines
<1>6. CASE p \notin Members(heap)[d]
  <2>1. Unaltered(heap, g)
    BY <1>1, <1>2, <1>6, DeleteOnce
  <2> HIDE DEF g
  <2>2. \A y \in Dbs : Members(g)[y] = Members(heap)[y]
    BY <1>1, <1>3, <2>1, OnceUnaltered
  <2> QED
    BY <1>2, <1>3, <1>4, <2>2, StuttersRefine
<1> QED
  BY <1>5, <1>6

\* flush() empties the registry and delete_signal() one place of it.
LEMMA UnregistersRefines ==
  ASSUME PlacedInv, PlacedInv', Unregisters
  PROVE  R!ClearAll \/ \E i \in Idx : R!Clear(i)
<1>1. /\ TypeOK /\ heap \in HeapType /\ heap' \in HeapType /\ Once(heap)
      /\ databases \in [Places -> [Idx -> Dbs \cup {NoDb}]]
  BY DEF PlacedInv, OnceInv, GroundedInv, ForestInv, TypeInv, TypeOK
<1>2. Unaltered(heap, heap') /\ heap'.exhaust = heap.exhaust
  BY <1>1, UserUnaltered
<1>3. UNCHANGED left
  BY <1>2 DEF left
<1>4. CASE Flush
  <2>1. \A w \in Places, i \in Idx : registered'[w][i] = {}
    BY <1>4, RegisteredNext DEF Flush
  <2>2. registered' = [w \in Places |-> [i \in Idx |-> {}]]
    BY <2>1, RegisteredNext
  <2> QED
    BY <1>3, <2>2 DEF R!ClearAll
<1>5. ASSUME NEW s \in Sigs, NEW erase \in BOOLEAN, DeleteSignal(s, erase)
      PROVE  \E i \in Idx : R!Clear(i)
  <2> DEFINE k == Index[s]
             v == "index"
  <2>1. k \in Idx /\ v \in Places /\ databases' = [databases EXCEPT ![v][k] = NoDb]
    <3>1. v \in Places
      BY DEF Places
    <3>2. k \in Idx
      BY <3>1, FindType, <1>1
    <3>3. databases' = [databases EXCEPT ![v][k] = NoDb]
      BY <1>5 DEF DeleteSignal
    <3> QED
      BY <3>1, <3>2, <3>3
  <2> HIDE DEF k, v
  <2>2. \A w \in Places, i \in Idx :
          databases'[w][i] = IF w = v /\ i = k THEN NoDb ELSE databases[w][i]
    BY <1>1, <2>1
  <2>3. \A d \in Dbs : Members(heap')[d] = Members(heap)[d]
    BY <1>1, <1>2, OnceUnaltered
  <2>4. \A w \in Places, i \in Idx : databases[w][i] \in Dbs \cup {NoDb}
    BY <1>1
  <2>5. \A w \in Places, i \in Idx : (w = v /\ i = k) \/ registered'[w][i] = registered[w][i]
    BY <2>2, <2>3, <2>4, RegisteredAt, RegisteredNext
  <2>6. registered'[v][k] = {}
    BY <2>1, <2>2, RegisteredNext
  <2>7. registered' = [registered EXCEPT ![v][k] = {}]
    BY <2>1, <2>5, <2>6, RegistryExcept
  <2> QED
    BY <1>3, <2>1, <2>7 DEF R!Clear, v
<1> QED
  BY <1>4, <1>5 DEF Unregisters

LEMMA RegistryInit == Init => R!Init
<1> SUFFICES ASSUME Init PROVE R!Init
  OBVIOUS
<1>1. \A w \in Places, i \in Idx : registered[w][i] = {}
  BY RegisteredAt DEF Init
<1>2. registered = [w \in Places |-> [i \in Idx |-> {}]]
  BY <1>1, RegisteredAt
<1>3. \A p \in Procs : heap.exhaust[p] = Never
  BY DEF Init
<1>4. left = [p \in Procs |-> Never]
  BY <1>3, NeverIsNoCount DEF left, is_exhausted
<1> QED
  BY <1>2, <1>4 DEF R!Init

LEMMA PlacedInit == Init => PlacedInv
BY OnceInit DEF Init, OneEach, PlacedInv

\* Every step of the databases is one of the registry, or changes nothing there.
LEMMA RegistryNext ==
  ASSUME InstalledOnce, PlacedInv, PlacedInv', [Next]_vars
  PROVE  R!Next \/ UNCHANGED <<registered, left>>
<1>1. CASE Pointers \/ Inspects
  BY <1>1, PointersRefine
<1>2. CASE Unregisters
  BY <1>2, UnregistersRefines DEF R!Next
<1>3. CASE MergeProcess
  BY <1>3, TopAlone DEF MergeProcess, PlacedInv, OnceInv, GroundedInv, ForestInv, TypeInv, StackInv
<1>4. CASE ExecProcess
  <2>1. Fetched \in Procs
    BY <1>4, ExecProcessMoves DEF PlacedInv
  <2> QED
    BY <1>4, <2>1, ExecProcessRefines DEF R!Next
<1>5. ASSUME NEW result \in Returns, Return(result)
      PROVE  R!Next \/ UNCHANGED <<registered, left>>
  BY <1>5, ReturnRefines DEF R!Next
<1>6. ASSUME NEW s \in Sigs, NEW p \in Procs, DeleteProcess(s, p)
      PROVE  R!Next \/ UNCHANGED <<registered, left>>
  <2>1. Index[s] \in Idx /\ "index" \in Places
    BY FindType DEF Places, PlacedInv, OnceInv, GroundedInv, ForestInv, TypeInv
  <2> QED
    BY <1>6, <2>1, DeleteProcessRefines DEF R!Next
<1>7. ASSUME NEW s \in Sigs, NEW p \in Procs, Signal(s, p) \/ Before(s, p) \/ After(s, p)
      PROVE  R!Next
  <2>1. PICK w \in Places : InstallOn(w, s, p)
    BY <1>7 DEF Signal, Before, After, Places
  <2>2. Index[s] \in Idx
    BY FindType DEF Places, PlacedInv, OnceInv, GroundedInv, ForestInv, TypeInv
  <2> QED
    BY <2>1, <2>2, InstallRefines DEF R!Next
<1> QED
  BY <1>1, <1>2, <1>3, <1>4, <1>5, <1>6, <1>7, StepKinds

\* The databases of the processor, with their keys, their sub-databases and
\* their pointers, implement the registry: an install adds one process and loses
\* none, a loop counts one execution of the process it runs, and a process that
\* has executions left goes only with its signal or when somebody deletes it,
\* whatever the processes emit, install, delete and flush meanwhile.
THEOREM DatabasesImplementRegistry ==
  ASSUME InstalledOnce
  PROVE  Spec => RegistrySpec
<1>1. PlacedInv /\ [Next]_vars => PlacedInv'
  BY PlacedNext
<1>2. PlacedInv /\ PlacedInv' /\ [Next]_vars => [R!Next]_<<registered, left>>
  BY RegistryNext
<1> QED
  BY <1>1, <1>2, PlacedInit, RegistryInit, PTL DEF Spec, RegistrySpec, R!Spec

----------------------------------------------------------------------------
(* What runs is registered.  A signal that a process takes off the registry *)
(* leaves the loops over its database with a database that nobody has       *)
(* registered.                                                              *)

\* The database is registered, or a sub-database of a registered one.
Attached(d) == d \in Registereds \/ \E e \in Registereds : d \in vals(heap.store[e])

AttachedInv == PlacedInv /\ \A n \in DOMAIN frames : Attached(frames[n].db)

Lasting == InstalledOnce /\ {"flush", "delete_signal"} \cap BodyCalls = {}

LEMMA DeleteSubsKept ==
  ASSUME NEW h \in HeapType, NEW d \in Dbs, NEW p \in Procs
  PROVE  SubsKept(h, Delete(h, d, p))
<1> DEFINE g == Delete(h, d, p)
<1> SUFFICES ASSUME NEW x \in Dbs
             PROVE  vals(h.store[x]) \cap Dbs \subseteq vals(g.store[x])
  BY DEF SubsKept
<1>1. CASE Hit(h, d, p, x)
  <2> DEFINE i == StopAt(h, {p}, x)
  <2>1. /\ i \in DOMAIN h.store[x].nodes /\ h.store[x].nodes[i].val = p
        /\ g.store[x].nodes = RemoveAt(h.store[x].nodes, i) /\ h.store[x] \in StorageType
    BY <1>1, DeleteNodes, HeapFields DEF Hit
  <2> HIDE DEF i, g
  <2>2. vals(g.store[x]) = vals(unsetAt(h.store[x], i))
    BY <2>1, valsUnsetAt DEF vals
  <2>3. vals(h.store[x]) \subseteq vals(g.store[x]) \cup {p}
    BY <2>1, <2>2, valsUnsetAt
  <2> QED
    BY <2>3, DisjointObjects
<1>2. CASE ~Hit(h, d, p, x)
  <2>1. g.store[x].nodes = h.store[x].nodes
    BY <1>2, DeleteNodes
  <2> HIDE DEF g
  <2> QED
    BY <2>1 DEF vals
<1> QED
  BY <1>1, <1>2

LEMMA UnalteredSubsKept ==
  ASSUME NEW h, NEW g, Unaltered(h, g)
  PROVE  SubsKept(h, g)
BY DEF Unaltered, SubsKept, vals

\* A loop over a sub-database comes to no database below it.
LEMMA AttachedDown ==
  ASSUME heap \in HeapType, Once(heap), Registereds \subseteq Dbs,
         NEW d \in Dbs, Attached(d), NEW x \in Dbs, x \in vals(heap.store[d])
  PROVE  Attached(x)
<1>1. CASE d \in Registereds
  BY <1>1 DEF Attached
<1>2. CASE d \notin Registereds
  <2>1. PICK e \in Registereds : d \in vals(heap.store[e])
    BY <1>2 DEF Attached
  <2>2. vals(heap.store[d]) \subseteq Procs
    BY <2>1, OnceSub
  <2> QED
    BY <2>2, DisjointObjects
<1> QED
  BY <1>1, <1>2

LEMMA AttachedKept ==
  ASSUME SubsKept(heap, heap'), Registereds \subseteq Registereds', Registereds \subseteq Dbs,
         NEW d \in Dbs, Attached(d)
  PROVE  d \in Registereds' \/ \E e \in Registereds' : d \in vals(heap'.store[e])
BY DEF Attached, SubsKept

LEMMA AttachedFollows ==
  ASSUME AttachedInv, TypeOK', SubsKept(heap, heap'), Registereds \subseteq Registereds',
         Follows(frames')
  PROVE  \A n \in DOMAIN frames' : Attached(frames[n].db)'
<1> SUFFICES ASSUME NEW n \in DOMAIN frames'
             PROVE  LET d == frames'[n].db
                    IN  d \in Registereds' \/ \E e \in Registereds' : d \in vals(heap'.store[e])
  BY DEF Attached
<1> DEFINE d == frames'[n].db
<1>1. /\ heap \in HeapType /\ Once(heap) /\ Registereds \subseteq Dbs /\ frames \in Seq(FrameType)
      /\ \A m \in DOMAIN frames : frames[m].db \in Dbs /\ Attached(frames[m].db)
  <2>1. TypeOK /\ Once(heap) /\ \A m \in DOMAIN frames : Attached(frames[m].db)
    BY DEF AttachedInv, PlacedInv, OnceInv, GroundedInv, ForestInv, TypeInv
  <2>2. heap \in HeapType /\ frames \in Seq(FrameType) /\ Registereds \subseteq Dbs
    BY <2>1, RegisteredsType DEF TypeOK
  <2> QED
    BY <2>1, <2>2, FrameFields
<1>2. d \in Dbs
  BY FrameFields DEF TypeOK
<1>3. CASE \E m \in DOMAIN frames : Carried(frames'[n], frames[m])
  <2>1. Attached(d)
    BY <1>1, <1>3 DEF Carried
  <2> QED
    BY <1>1, <1>2, <2>1, AttachedKept
<1>4. CASE Started(frames'[n])
  <2>1. Attached(d)
    <3>1. CASE d \in Registereds
      BY <3>1 DEF Attached
    <3>2. ASSUME NEW m \in DOMAIN frames, d = frames[m].db \/ d \in vals(heap.store[frames[m].db])
          PROVE  Attached(d)
      BY <1>1, <1>2, <3>2, AttachedDown
    <3> QED
      BY <1>4, <3>1, <3>2 DEF Started
  <2> QED
    BY <1>1, <1>2, <2>1, AttachedKept
<1> QED
  BY <1>3, <1>4 DEF Follows

LEMMA AttachedProc ==
  ASSUME AttachedInv, SubsKept(heap, heap'), UNCHANGED databases, frames # <<>>,
         NEW pc \in Pcs, NEW p \in Procs \cup {NoProc}, frames' = WithProc(pc, p)
  PROVE  \A n \in DOMAIN frames' : Attached(frames[n].db)'
<1>1. /\ frames \in Seq(FrameType) /\ Registereds \subseteq Dbs
      /\ \A m \in DOMAIN frames : frames[m].db \in Dbs /\ Attached(frames[m].db)
  <2>1. TypeOK /\ \A m \in DOMAIN frames : Attached(frames[m].db)
    BY DEF AttachedInv, PlacedInv, OnceInv, GroundedInv, ForestInv, TypeInv
  <2>2. frames \in Seq(FrameType) /\ Registereds \subseteq Dbs
    BY <2>1, RegisteredsType DEF TypeOK
  <2> QED
    BY <2>1, <2>2, FrameFields
<1>2. DOMAIN frames' = DOMAIN frames /\ \A n \in DOMAIN frames : frames'[n].db = frames[n].db
  BY <1>1, StackProc, TopType
<1>3. Registereds' = Registereds
  BY DEF Registereds
<1> SUFFICES ASSUME NEW n \in DOMAIN frames
             PROVE  LET d == frames[n].db
                    IN  d \in Registereds' \/ \E e \in Registereds' : d \in vals(heap'.store[e])
  BY <1>2 DEF Attached
<1> QED
  BY <1>1, <1>3, AttachedKept

LEMMA AttachedNext ==
  ASSUME Lasting, AttachedInv, [Next]_vars
  PROVE  AttachedInv'
<1>1. /\ PlacedInv' /\ PlacedInv /\ OnceInv /\ TypeOK /\ TypeOK' /\ StackInv /\ Unmerged
      /\ InstalledOnce /\ heap \in HeapType /\ Registereds \subseteq Dbs
  <2>1. PlacedInv' /\ PlacedInv /\ InstalledOnce
    BY PlacedNext DEF AttachedInv, Lasting
  <2>2. TypeOK /\ TypeOK' /\ StackInv /\ Unmerged /\ OnceInv
    BY <2>1 DEF PlacedInv, OnceInv, GroundedInv, ForestInv, TypeInv, StackInv
  <2> QED
    BY <2>1, <2>2, RegisteredsType DEF TypeOK
<1>2. SUFFICES \A n \in DOMAIN frames' : Attached(frames[n].db)'
  BY <1>1 DEF AttachedInv
<1>3. UNCHANGED databases => Registereds' = Registereds
  BY DEF Registereds
<1>4. CASE Pointers \/ Inspects
  <2>1. Unaltered(heap, heap') /\ UNCHANGED databases
    BY <1>1, <1>4, PointersUnaltered, UserUnaltered
  <2>2. Follows(frames')
    BY <1>1, <1>4, PointersStack, UserStack
  <2> QED
    BY <1>1, <1>3, <2>1, <2>2, UnalteredSubsKept, AttachedFollows
<1>5. CASE Unregisters
  <2>1. Idle /\ UNCHANGED frames
    BY <1>5 DEF Unregisters, Flush, DeleteSignal, Calling, Lasting
  <2>2. DOMAIN frames' = {}
    BY <2>1, EmptySeq DEF Idle
  <2> QED
    BY <2>2
<1>6. CASE MergeProcess
  BY <1>1, <1>6, TopAlone DEF MergeProcess
<1>7. CASE ExecProcess
  <2>1. /\ Unaltered(heap, heap') /\ UNCHANGED databases /\ frames # <<>> /\ Fetched \in Procs
        /\ frames' = WithProc("running", Fetched)
    BY <1>1, <1>7, ExecProcessMoves
  <2> QED
    BY <1>3, <2>1, UnalteredSubsKept, AttachedProc DEF Pcs
<1>8. ASSUME NEW result \in Returns, Return(result)
      PROVE  \A n \in DOMAIN frames' : Attached(frames[n].db)'
  <2> DEFINE h == IF is_exhausted(heap.exhaust[Top.proc])
                    THEN Delete(heap, Top.db, Top.proc) ELSE heap
  <2>1. /\ Unaltered(h, heap') /\ UNCHANGED databases /\ frames # <<>>
        /\ Top.proc \in Procs /\ Top.db \in Dbs
        /\ frames' = WithProc("fetch", NoProc)
    BY <1>1, <1>8, ReturnMoves
  <2>2. SubsKept(heap, h)
    <3>1. SubsKept(heap, heap)
      BY DEF SubsKept
    <3> QED
      BY <1>1, <2>1, <3>1, DeleteSubsKept
  <2> HIDE DEF h
  <2>3. SubsKept(heap, heap')
    BY <2>1, <2>2, UnalteredSubsKept DEF SubsKept
  <2> QED
    BY <1>3, <2>1, <2>3, AttachedProc DEF Pcs
<1>9. ASSUME NEW s \in Sigs, NEW p \in Procs, DeleteProcess(s, p)
      PROVE  \A n \in DOMAIN frames' : Attached(frames[n].db)'
  <2>1. Find("index", s) \in Dbs /\ heap' = Delete(heap, Find("index", s), p) /\ UNCHANGED databases
    BY <1>1, <1>9, FindType DEF DeleteProcess, Places
  <2>2. SubsKept(heap, heap')
    BY <1>1, <2>1, DeleteSubsKept
  <2>3. Follows(frames')
    BY <1>1, <1>9, UserStack
  <2> QED
    BY <1>1, <1>3, <2>1, <2>2, <2>3, AttachedFollows
<1>10. ASSUME NEW s \in Sigs, NEW p \in Procs, Signal(s, p) \/ Before(s, p) \/ After(s, p)
       PROVE  \A n \in DOMAIN frames' : Attached(frames[n].db)'
  <2>1. PICK w \in Places : InstallOn(w, s, p)
    BY <1>10 DEF Signal, Before, After, Places
  <2>2. PICK g, d : /\ Installs(g, d, w, s, p)
                    /\ OncePass(Install(g, d, p), g, d, p, Registereds')
    BY <1>1, <2>1, InstallOnOnce
  <2>3. SubsKept(heap, heap')
    BY <2>2 DEF Installs, OncePass, SubsKept
  <2>4. Follows(frames')
    BY <1>1, <1>10, UserStack
  <2>5. Registereds \subseteq Registereds'
    BY <1>1, <2>2, InstallOneEach
  <2> QED
    BY <1>1, <2>3, <2>4, <2>5, AttachedFollows
<1> QED
  BY <1>4, <1>5, <1>6, <1>7, <1>8, <1>9, <1>10, StepKinds

LEMMA AttachedRoot ==
  ASSUME NEW d \in Dbs, Attached(d), Registereds \subseteq Dbs, NEW p \in Members(heap)[d]
  PROVE  \E e \in Registereds : p \in Members(heap)[e]
<1>1. ASSUME NEW e \in Registereds, d \in vals(heap.store[e]) PROVE p \in Members(heap)[e]
  BY <1>1, MembersStep
<1> QED
  BY <1>1 DEF Attached

\* A process of a database that is in use is registered somewhere.
LEMMA AttachedRegistered ==
  ASSUME AttachedInv, NEW d \in Dbs, Attached(d), NEW p \in Members(heap)[d]
  PROVE  \E w \in Places, i \in Idx : p \in registered[w][i]
<1>1. Registereds \subseteq Dbs
  BY RegisteredsType DEF AttachedInv, PlacedInv, OnceInv, GroundedInv, ForestInv, TypeInv
<1>2. PICK e \in Registereds : p \in Members(heap)[e]
  BY <1>1, AttachedRoot
<1>3. PICK w \in Places, i \in Idx : databases[w][i] = e /\ e # NoDb
  BY DEF Registereds
<1> QED
  BY <1>2, <1>3, RegisteredAt

LEMMA AttachedInit == Init => AttachedInv
<1> SUFFICES ASSUME Init PROVE AttachedInv
  OBVIOUS
<1>1. DOMAIN frames = {}
  BY EmptySeq DEF Init
<1> QED
  BY <1>1, PlacedInit DEF AttachedInv

\* A loop runs what is registered, and nothing else, whatever the processes
\* install and delete meanwhile, and however the emissions are nested: the walk
\* down the sub-databases never leads to a process that is gone.
THEOREM RunsRegistered ==
  ASSUME Lasting
  PROVE  Spec => [][ExecProcess => Fetched \in R!Everywhere]_vars
<1>1. AttachedInv /\ [Next]_vars => AttachedInv'
  BY AttachedNext
<1>2. ASSUME AttachedInv, ExecProcess PROVE Fetched \in R!Everywhere
  <2> DEFINE p == Fetched
  <2>1. /\ PlacedInv /\ OnceInv /\ frames # <<>> /\ Top.db \in Dbs
        /\ p \in Members(heap)[Top.db]
    BY <1>2, ExecProcessMoves DEF AttachedInv, PlacedInv
  <2>2. Attached(Top.db)
    <3>1. Len(frames) \in DOMAIN frames /\ Top = frames[Len(frames)]
      BY <2>1, RegisteredFields, TopType, LenProperties
    <3> QED
      BY <1>2, <3>1 DEF AttachedInv
  <2>3. \E w \in Places, i \in Idx : p \in registered[w][i]
    BY <1>2, <2>1, <2>2, AttachedRegistered
  <2> QED
    BY <2>3 DEF R!Everywhere
<1>3. AttachedInv /\ [Next]_vars => [ExecProcess => Fetched \in R!Everywhere]_vars
  BY <1>2
<1> QED
  BY <1>1, <1>3, AttachedInit, PTL DEF Spec
=============================================================================

-------------------------- MODULE Processes_proofs --------------------------
(***************************************************************************)
(* Lemmas about the storages and the process databases: what the           *)
(* operators return, for every heap of the right type.                     *)
(***************************************************************************)
EXTENDS Processes, SequenceLemmas, WellFoundedInduction

\* Every non-empty set of naturals has a least element.
LEMMA LeastElement ==
  ASSUME NEW T, T \subseteq Nat, T # {}
  PROVE  \E i \in T : \A j \in T : i <= j
<1>1. PICK x \in T : \A y \in T : ~(<<y, x>> \in OpToRel(<, Nat))
  BY NatLessThanWellFounded, WFMin
<1>2. ASSUME NEW y \in T PROVE x <= y
  <2>1. y \in Nat /\ x \in Nat
    OBVIOUS
  <2>2. <<y, x>> \in Nat \X Nat /\ <<y, x>>[1] = y /\ <<y, x>>[2] = x
    BY <2>1
  <2>3. ASSUME y < x PROVE <<y, x>> \in OpToRel(<, Nat)
    BY <2>2, <2>3 DEF OpToRel
  <2>4. ~(y < x)
    BY <1>1, <2>3, Zenon
  <2> QED
    BY <2>1, <2>4
<1> QED
  BY <1>2

----------------------------------------------------------------------------
(* Storages.                                                               *)

LEMMA StorageFields ==
  ASSUME NEW s \in StorageType
  PROVE  /\ s.nodes \in Seq(NodeType)
         /\ s.ptr \in Nat \ {0}
         /\ Len(s.nodes) \in Nat
         /\ DOMAIN s.nodes = 1..Len(s.nodes)
         /\ s = [nodes |-> s.nodes, ptr |-> s.ptr]
         /\ s.ptr \in 1..(Len(s.nodes) + 1)
         /\ \A i, j \in DOMAIN s.nodes : s.nodes[i].key = s.nodes[j].key => i = j
BY DEF StorageType, WellFormedStorage

\* What makes a storage of its nodes and its pointer.
LEMMA StorageOf ==
  ASSUME NEW nodes \in Seq(NodeType), NEW ptr \in 1..(Len(nodes) + 1),
         \A i, j \in DOMAIN nodes : nodes[i].key = nodes[j].key => i = j
  PROVE  [nodes |-> nodes, ptr |-> ptr] \in StorageType
<1>1. Len(nodes) \in Nat
  BY LenProperties
<1>2. ptr \in Nat \ {0}
  BY <1>1
<1> QED
  BY <1>2 DEF StorageType, WellFormedStorage

\* The nodes of a storage change under its pointer.
LEMMA NodesType ==
  ASSUME NEW s \in StorageType, NEW nodes \in Seq(NodeType),
         s.ptr \in 1..(Len(nodes) + 1),
         \A i, j \in DOMAIN nodes : nodes[i].key = nodes[j].key => i = j
  PROVE  [s EXCEPT !.nodes = nodes] \in StorageType
<1>1. [s EXCEPT !.nodes = nodes] = [nodes |-> nodes, ptr |-> s.ptr]
  BY StorageFields
<1> QED
  BY <1>1, StorageOf

\* The pointer of a storage moves.
LEMMA MovedPointer ==
  ASSUME NEW s \in StorageType, NEW ptr \in 1..(Len(s.nodes) + 1)
  PROVE  [s EXCEPT !.ptr = ptr] \in StorageType
<1>1. [s EXCEPT !.ptr = ptr] = [nodes |-> s.nodes, ptr |-> ptr]
  BY StorageFields
<1> QED
  BY <1>1, StorageFields, StorageOf

LEMMA NodeFields ==
  ASSUME NEW s \in StorageType, NEW i \in DOMAIN s.nodes
  PROVE  /\ s.nodes[i] \in NodeType
         /\ s.nodes[i].key \in Int
         /\ s.nodes[i].val \in Procs \cup Dbs
<1>1. s.nodes[i] \in NodeType
  BY StorageFields, ElementOfSeq
<1> QED
  BY <1>1 DEF NodeType

LEMMA resetType == ASSUME NEW s \in StorageType PROVE reset(s) \in StorageType
<1>1. 1 \in 1..(Len(s.nodes) + 1)
  BY StorageFields
<1> QED
  BY <1>1, MovedPointer DEF reset

LEMMA nextType == ASSUME NEW s \in StorageType PROVE next(s) \in StorageType
<1>1. CASE valid(s)
  <2>1. s.ptr + 1 \in 1..(Len(s.nodes) + 1)
    BY <1>1, StorageFields DEF valid
  <2> QED
    BY <1>1, <2>1, MovedPointer DEF next
<1> QED
  BY <1>1 DEF next

LEMMA endType ==
  ASSUME NEW s \in StorageType PROVE end(s) \in StorageType
<1>1. CASE s.nodes = <<>>
  BY <1>1 DEF end
<1>2. CASE s.nodes # <<>>
  <2>1. Len(s.nodes) \in Nat \ {0}
    BY <1>2, StorageFields, EmptySeq
  <2>2. Len(s.nodes) \in 1..(Len(s.nodes) + 1)
    BY <2>1
  <2> QED
    BY <1>2, <2>2, MovedPointer DEF end
<1> QED
  BY <1>1, <1>2

\* A valid pointer is on a process or a database.
LEMMA currentType ==
  ASSUME NEW s \in StorageType, valid(s)
  PROVE  /\ current(s) \in Procs \cup Dbs
         /\ s.nodes[s.ptr].key \in Int
BY NodeFields DEF valid, current

LEMMA emptyType == empty \in StorageType
<1>1. /\ <<>> \in Seq(NodeType) /\ DOMAIN <<>> = {}
      /\ 1 \in 1..(Len(<<>>) + 1)
  OBVIOUS
<1> QED
  BY <1>1, StorageOf DEF empty

LEMMA PosOfType ==
  ASSUME NEW s \in StorageType, NEW k, offsetExists(s, k)
  PROVE  PosOf(s, k) \in DOMAIN s.nodes /\ s.nodes[PosOf(s, k)].key = k
BY DEF PosOf, offsetExists, keys

LEMMA offsetGetType ==
  ASSUME NEW s \in StorageType, NEW k, offsetExists(s, k)
  PROVE  offsetGet(s, k) \in Procs \cup Dbs
BY PosOfType, NodeFields DEF offsetGet

LEMMA offsetSetType ==
  ASSUME NEW s \in StorageType, NEW k \in Int, NEW v \in Procs \cup Dbs
  PROVE  offsetSet(s, k, v) \in StorageType
<1>1. Node(k, v) \in NodeType
  BY DEF Node, NodeType
<1>2. CASE offsetExists(s, k)
  <2> DEFINE i == PosOf(s, k)
             nodes == [s.nodes EXCEPT ![i] = Node(k, v)]
  <2>1. i \in DOMAIN s.nodes /\ s.nodes[i].key = k
    BY <1>2, PosOfType
  <2>2. /\ nodes \in Seq(NodeType)
        /\ Len(nodes) = Len(s.nodes) /\ DOMAIN nodes = DOMAIN s.nodes
    BY <1>1, <2>1, StorageFields, ExceptSeq
  <2>3. \A j \in DOMAIN nodes : nodes[j].key = s.nodes[j].key
    BY <2>1, <2>2 DEF Node
  <2>4. offsetSet(s, k, v) = [s EXCEPT !.nodes = nodes]
    BY <1>2, StorageFields DEF offsetSet, StorageType
  <2> HIDE DEF nodes
  <2> QED
    BY <2>2, <2>3, <2>4, StorageFields, NodesType
<1>3. CASE ~offsetExists(s, k)
  <2> DEFINE nodes == Append(s.nodes, Node(k, v))
             n == Len(s.nodes)
  <2>1. n \in Nat /\ DOMAIN s.nodes = 1..n
    BY StorageFields
  <2>2. /\ nodes \in Seq(NodeType)
        /\ Len(nodes) = n + 1 /\ DOMAIN nodes = 1..(n + 1)
        /\ nodes[n + 1] = Node(k, v)
        /\ \A j \in 1..n : nodes[j] = s.nodes[j]
    BY <1>1, <2>1, StorageFields, AppendProperties
  <2>3. \A j \in 1..n : nodes[j].key = s.nodes[j].key /\ s.nodes[j].key # k
    BY <1>3, <2>1, <2>2 DEF offsetExists, keys
  <2>4. nodes[n + 1].key = k
    BY <2>2 DEF Node
  <2>5. offsetSet(s, k, v) = [s EXCEPT !.nodes = nodes]
    BY <1>3 DEF offsetSet
  <2>6. s.ptr \in 1..(Len(nodes) + 1)
    BY <2>1, <2>2, StorageFields
  <2> HIDE DEF nodes, n
  <2>7. ASSUME NEW a \in DOMAIN nodes, NEW b \in DOMAIN nodes,
               nodes[a].key = nodes[b].key
        PROVE  a = b
    <3>1. /\ a \in 1..n \/ a = n + 1
          /\ b \in 1..n \/ b = n + 1
      BY <2>1, <2>2
    <3>2. a \in 1..n /\ b \in 1..n => a = b
      BY <2>1, <2>3, <2>7, StorageFields
    <3> QED
      BY <2>3, <2>4, <2>7, <3>1, <3>2
  <2> QED
    BY <2>2, <2>5, <2>6, <2>7, NodesType
<1> QED
  BY <1>2, <1>3

LEMMA unsetAtType ==
  ASSUME NEW s \in StorageType, NEW i \in DOMAIN s.nodes
  PROVE  unsetAt(s, i) \in StorageType
<1> DEFINE nodes == RemoveAt(s.nodes, i)
           ptr == IF i < s.ptr THEN s.ptr - 1 ELSE s.ptr
           n == Len(s.nodes)
<1>1. /\ n \in Nat /\ i \in 1..n /\ DOMAIN s.nodes = 1..n
      /\ Len(nodes) = n - 1 /\ DOMAIN nodes = 1..(n - 1)
      /\ \A j \in 1..(n - 1) :
           nodes[j] = IF j < i THEN s.nodes[j] ELSE s.nodes[j + 1]
  BY StorageFields, RemoveAtElements
<1>2. nodes \in Seq(NodeType)
  BY RemoveAtType, StorageFields
<1>3. ptr \in 1..(Len(nodes) + 1)
  BY <1>1, StorageFields
<1>4. unsetAt(s, i) = [nodes |-> nodes, ptr |-> ptr]
  BY DEF unsetAt
<1> HIDE DEF nodes, ptr, n
<1>5. ASSUME NEW a \in 1..(n - 1), NEW b \in 1..(n - 1),
             nodes[a].key = nodes[b].key
      PROVE  a = b
  <2> DEFINE Was(j) == IF j < i THEN j ELSE j + 1
  <2>1. /\ Was(a) \in 1..n /\ Was(b) \in 1..n
        /\ nodes[a] = s.nodes[Was(a)] /\ nodes[b] = s.nodes[Was(b)]
    BY <1>1
  <2>2. Was(a) = Was(b)
    BY <1>1, <1>5, <2>1, StorageFields
  <2> QED
    BY <1>1, <2>2
<1> QED
  BY <1>1, <1>2, <1>3, <1>4, <1>5, StorageOf

LEMMA offsetUnsetType ==
  ASSUME NEW s \in StorageType, NEW k
  PROVE  offsetUnset(s, k) \in StorageType
BY PosOfType, unsetAtType DEF offsetUnset

----------------------------------------------------------------------------
(* Heaps.                                                                  *)

LEMMA HeapFields ==
  ASSUME NEW h \in HeapType
  PROVE  /\ h.store \in [Dbs -> StorageType]
         /\ h.unused \in SUBSET Dbs
         /\ h.prio \in [Procs -> Int]
         /\ h.exhaust \in [Procs -> Int \cup {Never}]
         /\ h.fatal \in BOOLEAN
BY DEF HeapType

\* One storage of the heap is replaced.
LEMMA StoreType ==
  ASSUME NEW h \in HeapType, NEW d \in Dbs, NEW s \in StorageType
  PROVE  [h EXCEPT !.store[d] = s] \in HeapType
BY DEF HeapType

LEMMA fatalType ==
  ASSUME NEW h \in HeapType PROVE [h EXCEPT !.fatal = TRUE] \in HeapType
BY DEF HeapType

LEMMA unusedType ==
  ASSUME NEW h \in HeapType, NEW d \in h.unused
  PROVE  [h EXCEPT !.unused = @ \ {d}] \in HeapType
BY DEF HeapType

LEMMA decrementType ==
  ASSUME NEW h \in HeapType, NEW p \in Procs
  PROVE  [h EXCEPT !.exhaust[p] = decrement_exhaust(@)] \in HeapType
<1>1. decrement_exhaust(h.exhaust[p]) \in Int \cup {Never}
  BY HeapFields DEF decrement_exhaust
<1> QED
  BY <1>1 DEF HeapType

LEMMA ConstructType ==
  ASSUME NEW h \in HeapType, NEW p \in Procs,
         NEW rate \in Int \cup {Never}, NEW priority \in Int
  PROVE  Construct(h, p, rate, priority) \in HeapType
<1>1. set_exhaust(rate) \in Int \cup {Never}
  BY DEF set_exhaust, XPSPL_PROCESS_DEFAULT_EXHAUST
<1> QED
  BY <1>1 DEF Construct, HeapType

----------------------------------------------------------------------------
(* The recursive functions over a database and its sub-databases.  Each is *)
(* the CHOSEN function that solves an equation; that there is one follows  *)
(* from the least set that the targets reach, of which every value of the  *)
(* function is made.                                                       *)

\* The databases from which the edges E lead into B: those in every set that
\* has B, and with a database all those that have an edge to it.
Reached(E, B) ==
  {d \in Dbs : \A C \in SUBSET Dbs :
     B \subseteq C /\ (\A x \in Dbs : E[x] \cap C # {} => x \in C) => d \in C}

\* The least set is a fixed point.
LEMMA ReachedStep ==
  ASSUME NEW E \in [Dbs -> SUBSET Dbs], NEW B \in SUBSET Dbs, NEW d \in Dbs
  PROVE  d \in Reached(E, B) <=> d \in B \/ \E v \in E[d] : v \in Reached(E, B)
<1> DEFINE Closed(C) == B \subseteq C /\ (\A x \in Dbs : E[x] \cap C # {} => x \in C)
           R == Reached(E, B)
           N == {x \in Dbs : x \in B \/ \E v \in E[x] : v \in R}
<1>1. \A x \in Dbs : x \in R <=> \A C \in SUBSET Dbs : Closed(C) => x \in C
  BY DEF Reached
<1>2. ASSUME NEW x \in N, NEW C \in SUBSET Dbs, Closed(C) PROVE x \in C
  <2>1. R \subseteq C
    BY <1>2 DEF Reached
  <2> QED
    BY <1>2, <2>1
<1>3. N \subseteq R
  BY <1>1, <1>2
<1>4. Closed(N)
  BY <1>3
<1>5. R \subseteq N
  BY <1>4 DEF Reached
<1> QED
  BY <1>3, <1>5

\* Holding solves its equation.
LEMMA HoldingStep ==
  ASSUME NEW h, NEW targets
  PROVE  Holding(h, targets) =
           [d \in Dbs |-> \E v \in vals(h.store[d]) :
              v \in targets \/ (v \in Dbs /\ Holding(h, targets)[v])]
<1> DEFINE E == [d \in Dbs |-> vals(h.store[d]) \cap Dbs]
           B == {d \in Dbs : \E v \in vals(h.store[d]) : v \in targets}
           f == [d \in Dbs |-> d \in Reached(E, B)]
           G == [d \in Dbs |-> \E v \in vals(h.store[d]) : v \in targets \/ (v \in Dbs /\ f[v])]
<1>1. ASSUME NEW d \in Dbs
      PROVE  d \in Reached(E, B) <=>
               \E v \in vals(h.store[d]) : v \in targets \/ (v \in Dbs /\ v \in Reached(E, B))
  <2>1. E \in [Dbs -> SUBSET Dbs] /\ B \in SUBSET Dbs
    OBVIOUS
  <2>2. d \in Reached(E, B) <=> d \in B \/ \E v \in E[d] : v \in Reached(E, B)
    BY <2>1, ReachedStep
  <2> QED BY <2>2
<1>2. \A v \in Dbs : f[v] <=> v \in Reached(E, B)
  OBVIOUS
<1>3. ASSUME NEW d \in Dbs
      PROVE  (d \in Reached(E, B)) =
               (\E v \in vals(h.store[d]) : v \in targets \/ (v \in Dbs /\ f[v]))
  <2> HIDE DEF f
  <2>1. (d \in Reached(E, B)) <=>
               (\E v \in vals(h.store[d]) : v \in targets \/ (v \in Dbs /\ f[v]))
    BY <1>1, <1>2
  <2> DEFINE P == d \in Reached(E, B)
             Q == \E v \in vals(h.store[d]) : v \in targets \/ (v \in Dbs /\ f[v])
  <2>2. P \in BOOLEAN /\ Q \in BOOLEAN /\ (P <=> Q)
    BY <2>1
  <2>3. P = Q
    <3> HIDE DEF P, Q
    <3> QED BY <2>2
  <2> QED BY <2>3
<1>4. f = G
  BY <1>3, Zenon
<1> HIDE DEF f
<1> QED
  BY <1>4, Zenon DEF Holding

\* So does Members: a process is in a database or in a sub-database of it.
LEMMA MembersStep ==
  ASSUME NEW h
  PROVE  \A d \in Dbs : Members(h)[d] =
           (vals(h.store[d]) \cap Procs)
             \cup UNION {Members(h)[v] : v \in vals(h.store[d]) \cap Dbs}
<1> DEFINE E == [d \in Dbs |-> vals(h.store[d]) \cap Dbs]
           B(p) == {d \in Dbs : p \in vals(h.store[d])}
           f == [d \in Dbs |-> {p \in Procs : d \in Reached(E, B(p))}]
           G(d) == (vals(h.store[d]) \cap Procs)
                     \cup UNION {f[v] : v \in vals(h.store[d]) \cap Dbs}
<1>1. ASSUME NEW d \in Dbs, NEW p \in Procs
      PROVE  d \in Reached(E, B(p)) <=>
               \/ p \in vals(h.store[d])
               \/ \E v \in vals(h.store[d]) \cap Dbs : v \in Reached(E, B(p))
  <2>1. E \in [Dbs -> SUBSET Dbs] /\ B(p) \in SUBSET Dbs
    OBVIOUS
  <2>2. d \in Reached(E, B(p)) <=> d \in B(p) \/ \E v \in E[d] : v \in Reached(E, B(p))
    BY <2>1, ReachedStep
  <2> QED BY <2>2
<1>2. ASSUME NEW d \in Dbs PROVE f[d] = G(d)
  <2>1. \A x \in Dbs : \A p : p \in f[x] <=> p \in Procs /\ x \in Reached(E, B(p))
    OBVIOUS
  <2> HIDE DEF f, E, B
  <2>2. \A p : p \in G(d) <=> \/ p \in Procs /\ p \in vals(h.store[d])
                             \/ \E v \in vals(h.store[d]) \cap Dbs : p \in f[v]
    OBVIOUS
  <2> HIDE DEF G
  <2>3. \A p : p \in f[d] <=> p \in G(d)
    BY <1>1, <2>1, <2>2
  <2> QED BY <2>3
<1>3. f = [d \in Dbs |-> G(d)]
  BY <1>2, Zenon
<1> HIDE DEF f
<1>4. Members(h) = [d \in Dbs |->
        (vals(h.store[d]) \cap Procs)
             \cup UNION {Members(h)[v] : v \in vals(h.store[d]) \cap Dbs}]
  BY <1>3, Zenon DEF Members
<1> QED
  BY <1>4, Zenon

\* The nodes of d up to the one the walk ends on.
Visited(h, targets, d) ==
  {h.store[d].nodes[i].val : i \in {j \in DOMAIN h.store[d].nodes :
                                      j <= StopAt(h, targets, d)}}

\* So does Walked: the databases a walk enters.
LEMMA WalkedStep ==
  ASSUME NEW h, NEW targets
  PROVE  \A d \in Dbs : Walked(h, targets)[d] =
           {d} \cup UNION {Walked(h, targets)[v] : v \in Visited(h, targets, d) \cap Dbs}
<1> DEFINE E == [d \in Dbs |-> Visited(h, targets, d) \cap Dbs]
           f == [d \in Dbs |-> {x \in Dbs : d \in Reached(E, {x})}]
           G(d) == {d} \cup UNION {f[v] : v \in Visited(h, targets, d) \cap Dbs}
<1>1. ASSUME NEW d \in Dbs, NEW x \in Dbs
      PROVE  d \in Reached(E, {x}) <=>
               d = x \/ \E v \in Visited(h, targets, d) \cap Dbs : v \in Reached(E, {x})
  <2>1. E \in [Dbs -> SUBSET Dbs] /\ {x} \in SUBSET Dbs
    OBVIOUS
  <2>2. d \in Reached(E, {x}) <=> d \in {x} \/ \E v \in E[d] : v \in Reached(E, {x})
    BY <2>1, ReachedStep
  <2> QED BY <2>2
<1>2. ASSUME NEW d \in Dbs PROVE f[d] = G(d)
  <2>1. \A y \in Dbs : \A x : x \in f[y] <=> x \in Dbs /\ y \in Reached(E, {x})
    OBVIOUS
  <2> HIDE DEF f, E
  <2>2. \A x : x \in G(d) <=> x = d \/ \E v \in Visited(h, targets, d) \cap Dbs : x \in f[v]
    OBVIOUS
  <2> HIDE DEF G
  <2>3. \A x : x \in f[d] <=> x \in G(d)
    BY <1>1, <2>1, <2>2
  <2> QED BY <2>3
<1>3. f = [d \in Dbs |-> G(d)]
  BY <1>2, Zenon
<1> HIDE DEF f
<1>4. Walked(h, targets) = [d \in Dbs |->
        {d} \cup UNION {Walked(h, targets)[v] : v \in Visited(h, targets, d) \cap Dbs}]
  BY <1>3, Zenon DEF Walked, Visited
<1> QED
  BY <1>4, Zenon

----------------------------------------------------------------------------
(* Walks.                                                                  *)

\* A node the walk stops at: a target, or a sub-database that holds one.
StopsAt(h, targets, d, i) ==
  LET v == h.store[d].nodes[i].val
  IN  v \in targets \/ (v \in Dbs /\ Holding(h, targets)[v])

\* The walk ends at the first node it stops at, or past the end.
LEMMA StopAtLeast ==
  ASSUME NEW h \in HeapType, NEW targets, NEW d \in Dbs
  PROVE  /\ StopAt(h, targets, d) \in 1..(Len(h.store[d].nodes) + 1)
         /\ StopAt(h, targets, d) \in Nat \ {0}
         /\ (\E i \in DOMAIN h.store[d].nodes : StopsAt(h, targets, d, i)) =>
              /\ StopAt(h, targets, d) \in DOMAIN h.store[d].nodes
              /\ StopsAt(h, targets, d, StopAt(h, targets, d))
<1> DEFINE nodes == h.store[d].nodes
           hits  == {i \in DOMAIN nodes : \/ nodes[i].val \in targets
                                         \/ /\ nodes[i].val \in Dbs
                                            /\ Holding(h, targets)[nodes[i].val]}
           Stop(i) == /\ i \in hits \/ i = Len(nodes) + 1
                      /\ \A j \in hits : i <= j
<1>1. Len(nodes) \in Nat /\ DOMAIN nodes = 1..Len(nodes)
  BY HeapFields, StorageFields
<1>2. hits \subseteq 1..Len(nodes)
  BY <1>1
<1> HIDE DEF hits
<1>3. \E i \in 1..(Len(nodes) + 1) : Stop(i)
  <2>1. CASE hits = {}
    BY <1>1, <2>1
  <2>2. CASE hits # {}
    <3>1. PICK i \in hits : \A j \in hits : i <= j
      <4>1. hits \subseteq Nat
        BY <1>1, <1>2
      <4> QED
        BY <2>2, <4>1, LeastElement, Zenon
    <3> QED
      BY <1>1, <1>2, <3>1
  <2> QED
    BY <2>1, <2>2
<1>4. StopAt(h, targets, d) = CHOOSE i \in 1..(Len(nodes) + 1) : Stop(i)
  BY DEF StopAt, hits
<1>5. \A i : i \in hits <=> i \in DOMAIN nodes /\ StopsAt(h, targets, d, i)
  BY DEF hits, StopsAt
<1>6. /\ StopAt(h, targets, d) \in 1..(Len(nodes) + 1)
      /\ Stop(StopAt(h, targets, d))
  BY <1>3, <1>4
<1>7. StopAt(h, targets, d) = Len(nodes) + 1 => hits = {}
  BY <1>1, <1>2, <1>6
<1> QED
  BY <1>1, <1>5, <1>6, <1>7

LEMMA StopAtType ==
  ASSUME NEW h \in HeapType, NEW targets, NEW d \in Dbs
  PROVE  /\ StopAt(h, targets, d) \in 1..(Len(h.store[d].nodes) + 1)
         /\ StopAt(h, targets, d) \in Nat \ {0}
BY StopAtLeast

LEMMA WalkType ==
  ASSUME NEW h \in HeapType, NEW targets, NEW d \in Dbs
  PROVE  Walk(h, targets, d) \in HeapType
<1> DEFINE walked == Walked(h, targets)[d]
           moved  == [x \in Dbs |-> IF x \in walked
                                      THEN [h.store[x] EXCEPT !.ptr = StopAt(h, targets, x)]
                                      ELSE h.store[x]]
<1>1. ASSUME NEW x \in Dbs PROVE moved[x] \in StorageType
  <2>1. StopAt(h, targets, x) \in 1..(Len(h.store[x].nodes) + 1)
    BY StopAtType
  <2>2. h.store[x] \in StorageType
    BY HeapFields
  <2>3. [h.store[x] EXCEPT !.ptr = StopAt(h, targets, x)] \in StorageType
    BY <2>1, <2>2, MovedPointer
  <2> QED
    BY <2>2, <2>3
<1>2. moved \in [Dbs -> StorageType]
  BY <1>1
<1> QED
  BY <1>2 DEF Walk, HeapType

LEMMA DeleteType ==
  ASSUME NEW h \in HeapType, NEW d \in Dbs, NEW p
  PROVE  Delete(h, d, p) \in HeapType
<1> DEFINE w == Walk(h, {p}, d)
           found(x) == /\ x \in Walked(h, {p})[d]
                       /\ valid(w.store[x]) /\ current(w.store[x]) = p
           left == [x \in Dbs |-> IF found(x) THEN unsetAt(w.store[x], w.store[x].ptr)
                                              ELSE w.store[x]]
<1>1. w \in HeapType
  BY WalkType
<1> HIDE DEF w
<1>2. ASSUME NEW x \in Dbs PROVE left[x] \in StorageType
  <2>1. w.store[x] \in StorageType
    BY <1>1, HeapFields
  <2>2. found(x) => unsetAt(w.store[x], w.store[x].ptr) \in StorageType
    BY <2>1, unsetAtType DEF valid
  <2> QED
    BY <2>1, <2>2
<1>3. left \in [Dbs -> StorageType]
  BY <1>2
<1>4. Delete(h, d, p) = [w EXCEPT !.store = left]
  BY DEF Delete, w
<1> QED
  BY <1>1, <1>3, <1>4 DEF HeapType

LEMMA AfterExhaustedType ==
  ASSUME NEW h \in HeapType, NEW d \in Dbs
  PROVE  AfterExhausted(h, d) \in HeapType
BY WalkType DEF AfterExhausted

----------------------------------------------------------------------------
(* What a storage holds.                                                   *)

\* A node that goes leaves the others.
LEMMA valsUnsetAt ==
  ASSUME NEW s \in StorageType, NEW i \in DOMAIN s.nodes
  PROVE  /\ unsetAt(s, i).nodes = RemoveAt(s.nodes, i)
         /\ vals(unsetAt(s, i)) \subseteq vals(s)
         /\ vals(s) \subseteq vals(unsetAt(s, i)) \cup {s.nodes[i].val}
<1> DEFINE r == RemoveAt(s.nodes, i)
           n == Len(s.nodes)
<1>1. /\ n \in Nat /\ i \in 1..n /\ DOMAIN s.nodes = 1..n /\ DOMAIN r = 1..(n - 1)
      /\ \A j \in 1..(n - 1) : r[j] = IF j < i THEN s.nodes[j] ELSE s.nodes[j + 1]
  BY StorageFields, RemoveAtElements
<1>2. unsetAt(s, i).nodes = r
  BY DEF unsetAt
<1> HIDE DEF r, n
<1>3. \A j \in DOMAIN r : \E k \in DOMAIN s.nodes : r[j] = s.nodes[k]
  <2> TAKE j \in DOMAIN r
  <2>1. (IF j < i THEN j ELSE j + 1) \in DOMAIN s.nodes
    BY <1>1
  <2> QED
    BY <1>1, <2>1
<1>4. ASSUME NEW k \in DOMAIN s.nodes, k # i
      PROVE  \E j \in DOMAIN r : r[j] = s.nodes[k]
  <2>1. CASE k < i
    BY <1>1, <2>1
  <2>2. CASE k > i
    <3>1. k - 1 \in DOMAIN r /\ r[k - 1] = s.nodes[k]
      BY <1>1, <2>2
    <3> QED
      BY <3>1
  <2> QED
    BY <1>1, <1>4, <2>1, <2>2
<1> QED
  BY <1>2, <1>3, <1>4 DEF vals, r

\* Unsetting a key takes the one node with that key.
LEMMA valsUnset ==
  ASSUME NEW s \in StorageType, NEW k
  PROVE  /\ vals(offsetUnset(s, k)) \subseteq vals(s)
         /\ offsetExists(s, k) =>
              /\ vals(s) \subseteq vals(offsetUnset(s, k)) \cup {offsetGet(s, k)}
              /\ PosOf(s, k) \in DOMAIN s.nodes
              /\ offsetUnset(s, k) = unsetAt(s, PosOf(s, k))
         /\ ~offsetExists(offsetUnset(s, k), k)
<1>1. CASE ~offsetExists(s, k)
  BY <1>1 DEF offsetUnset
<1>2. CASE offsetExists(s, k)
  <2> DEFINE i == PosOf(s, k)
             r == RemoveAt(s.nodes, i)
  <2>1. i \in DOMAIN s.nodes /\ s.nodes[i].key = k /\ offsetGet(s, k) = s.nodes[i].val
    BY <1>2, PosOfType DEF offsetGet
  <2>2. offsetUnset(s, k) = unsetAt(s, i)
    BY <1>2 DEF offsetUnset
  <2> HIDE DEF i
  <2>3. /\ Len(s.nodes) \in Nat /\ i \in 1..Len(s.nodes)
        /\ DOMAIN s.nodes = 1..Len(s.nodes) /\ DOMAIN r = 1..(Len(s.nodes) - 1)
        /\ \A n \in 1..(Len(s.nodes) - 1) :
             r[n] = IF n < i THEN s.nodes[n] ELSE s.nodes[n + 1]
    BY <2>1, StorageFields, RemoveAtElements
  <2>4. unsetAt(s, i).nodes = r
    BY DEF unsetAt
  <2> HIDE DEF r
  <2>5. \A j \in DOMAIN s.nodes : s.nodes[j].key = k => j = i
    BY <2>1, StorageFields
  <2>6. ASSUME NEW n \in DOMAIN r PROVE r[n].key # k
    <3>1. CASE n < i
      BY <2>3, <2>5, <3>1
    <3>2. CASE ~(n < i)
      <4>1. n + 1 \in DOMAIN s.nodes /\ n + 1 # i /\ r[n] = s.nodes[n + 1]
        BY <2>3, <3>2
      <4> QED
        BY <2>5, <4>1
    <3> QED
      BY <3>1, <3>2
  <2>7. ~offsetExists(unsetAt(s, i), k)
    BY <2>4, <2>6 DEF offsetExists, keys
  <2> QED
    BY <1>2, <2>1, <2>2, <2>7, valsUnsetAt DEF i
<1> QED
  BY <1>1, <1>2

\* A new key gets a node at the end.
LEMMA valsSet ==
  ASSUME NEW s \in StorageType, NEW k \in Int, NEW v \in Procs \cup Dbs,
         ~offsetExists(s, k)
  PROVE  /\ offsetSet(s, k, v).nodes = Append(s.nodes, Node(k, v))
         /\ vals(offsetSet(s, k, v)) = vals(s) \cup {v}
<1> DEFINE nodes == Append(s.nodes, Node(k, v))
           n == Len(s.nodes)
<1>1. Node(k, v) \in NodeType /\ Node(k, v).val = v
  BY DEF Node, NodeType
<1>2. offsetSet(s, k, v).nodes = nodes
  <2>1. offsetSet(s, k, v) = [s EXCEPT !.nodes = nodes]
    BY DEF offsetSet
  <2> HIDE DEF nodes
  <2> QED
    BY <2>1 DEF StorageType
<1>3. /\ n \in Nat /\ DOMAIN s.nodes = 1..n /\ DOMAIN nodes = 1..(n + 1)
      /\ nodes[n + 1] = Node(k, v)
      /\ \A j \in 1..n : nodes[j] = s.nodes[j]
  BY <1>1, StorageFields, AppendProperties
<1> HIDE DEF nodes, n
<1>4. n + 1 \in 1..(n + 1) /\ \A j \in 1..(n + 1) : j = n + 1 \/ j \in 1..n
  BY <1>3
<1>5. 1..n \subseteq 1..(n + 1)
  BY <1>3
<1>6. {nodes[j].val : j \in DOMAIN nodes} = {s.nodes[j].val : j \in DOMAIN s.nodes} \cup {v}
  BY <1>1, <1>3, <1>4, <1>5
<1> QED
  BY <1>2, <1>6 DEF vals, nodes

LEMMA valsIterated ==
  ASSUME NEW s \in StorageType
  PROVE  /\ next(s).nodes = s.nodes /\ reset(s).nodes = s.nodes /\ end(s).nodes = s.nodes
         /\ \A ptr : [s EXCEPT !.ptr = ptr].nodes = s.nodes
BY DEF next, reset, end, StorageType

\* A walk moves pointers.
LEMMA WalkNodes ==
  ASSUME NEW h \in HeapType, NEW targets, NEW d
  PROVE  /\ \A x \in Dbs : Walk(h, targets, d).store[x].nodes = h.store[x].nodes
         /\ \A x \in Walked(h, targets)[d] \cap Dbs :
              Walk(h, targets, d).store[x].ptr = StopAt(h, targets, x)
         /\ Walk(h, targets, d).unused = h.unused
         /\ Walk(h, targets, d).prio = h.prio
         /\ Walk(h, targets, d).exhaust = h.exhaust
<1> DEFINE g == Walk(h, targets, d)
           walked == Walked(h, targets)[d]
<1>1. /\ g.unused = h.unused /\ g.prio = h.prio /\ g.exhaust = h.exhaust
      /\ \A x \in Dbs : g.store[x] = IF x \in walked
                                       THEN [h.store[x] EXCEPT !.ptr = StopAt(h, targets, x)]
                                       ELSE h.store[x]
  BY DEF Walk, HeapType
<1>2. \A x \in Dbs : h.store[x] \in StorageType
  BY HeapFields
<1> HIDE DEF g, walked
<1>3. \A x \in Dbs : [h.store[x] EXCEPT !.ptr = StopAt(h, targets, x)].ptr = StopAt(h, targets, x)
  BY <1>2 DEF StorageType
<1>4. ASSUME NEW x \in Dbs PROVE g.store[x].nodes = h.store[x].nodes
  <2>1. [h.store[x] EXCEPT !.ptr = StopAt(h, targets, x)].nodes = h.store[x].nodes
    BY <1>2, valsIterated
  <2> QED
    BY <1>1, <2>1
<1>5. \A x \in walked \cap Dbs : g.store[x].ptr = StopAt(h, targets, x)
  BY <1>1, <1>3
<1> QED
  BY <1>1, <1>4, <1>5 DEF g, walked

\* The node of database x that delete() of process p from database d takes.
Hit(h, d, p, x) ==
  /\ x \in Walked(h, {p})[d]
  /\ StopAt(h, {p}, x) \in DOMAIN h.store[x].nodes
  /\ h.store[x].nodes[StopAt(h, {p}, x)].val = p

\* A deletion takes the nodes with p that the walk stops on, and no other.
LEMMA DeleteNodes ==
  ASSUME NEW h \in HeapType, NEW d \in Dbs, NEW p
  PROVE  /\ \A x \in Dbs : Delete(h, d, p).store[x].nodes =
              IF Hit(h, d, p, x) THEN RemoveAt(h.store[x].nodes, StopAt(h, {p}, x))
                                 ELSE h.store[x].nodes
         /\ Delete(h, d, p).unused = h.unused
         /\ Delete(h, d, p).prio = h.prio
         /\ Delete(h, d, p).exhaust = h.exhaust
<1> DEFINE w == Walk(h, {p}, d)
           g == Delete(h, d, p)
           found(x) == /\ x \in Walked(h, {p})[d]
                       /\ valid(w.store[x]) /\ current(w.store[x]) = p
<1>1. w \in HeapType /\ g \in HeapType
  BY WalkType, DeleteType
<1>2. /\ \A x \in Dbs : w.store[x].nodes = h.store[x].nodes
      /\ \A x \in Walked(h, {p})[d] \cap Dbs : w.store[x].ptr = StopAt(h, {p}, x)
      /\ w.unused = h.unused /\ w.prio = h.prio /\ w.exhaust = h.exhaust
  BY WalkNodes
<1>3. g = [w EXCEPT !.store = [x \in Dbs |-> IF found(x) THEN unsetAt(w.store[x], w.store[x].ptr)
                                                         ELSE w.store[x]]]
  BY DEF Delete
<1> HIDE DEF w, g
<1>4. /\ g.unused = w.unused /\ g.prio = w.prio /\ g.exhaust = w.exhaust
      /\ \A x \in Dbs : g.store[x] = IF found(x) THEN unsetAt(w.store[x], w.store[x].ptr)
                                                  ELSE w.store[x]
  BY <1>1, <1>3 DEF HeapType
<1>5. ASSUME NEW x \in Dbs
      PROVE  g.store[x].nodes =
               IF Hit(h, d, p, x) THEN RemoveAt(h.store[x].nodes, StopAt(h, {p}, x))
                                  ELSE h.store[x].nodes
  <2>1. found(x) <=> Hit(h, d, p, x)
    BY <1>2 DEF valid, current, Hit
  <2>2. unsetAt(w.store[x], w.store[x].ptr).nodes = RemoveAt(w.store[x].nodes, w.store[x].ptr)
    BY DEF unsetAt
  <2>3. Hit(h, d, p, x) => w.store[x].ptr = StopAt(h, {p}, x)
    BY <1>2 DEF Hit
  <2> QED
    BY <1>2, <1>4, <2>1, <2>2, <2>3
<1> QED
  BY <1>2, <1>4, <1>5 DEF g

----------------------------------------------------------------------------
(* Installs.                                                               *)

CallType == [heap : HeapType, at : Dbs, done : BOOLEAN]

LEMMA CallFields ==
  ASSUME NEW c \in CallType
  PROVE  /\ c.heap \in HeapType /\ c.at \in Dbs /\ c.done \in BOOLEAN
         /\ c.heap.store[c.at] \in StorageType
<1>1. c.heap \in HeapType /\ c.at \in Dbs /\ c.done \in BOOLEAN
  BY DEF CallType
<1> QED
  BY <1>1, HeapFields

LEMMA InstallNodeType ==
  ASSUME NEW c \in CallType, NEW p \in Procs
  PROVE  InstallNode(c, p) \in CallType
<1> DEFINE s == offsetSet(c.heap.store[c.at], c.heap.prio[p], p)
<1>1. s \in StorageType
  BY CallFields, HeapFields, offsetSetType
<1>2. [c.heap EXCEPT !.store[c.at] = s] \in HeapType
  BY <1>1, CallFields, StoreType
<1>3. InstallNode(c, p) = [c EXCEPT !.done = TRUE,
                                    !.heap = [c.heap EXCEPT !.store[c.at] = s]]
  BY DEF InstallNode, CallType
<1> QED
  BY <1>2, <1>3 DEF CallType

LEMMA InstallInSubDatabaseType ==
  ASSUME NEW c \in CallType, NEW sub \in Dbs, NEW p \in Procs
  PROVE  InstallInSubDatabase(c, sub, p) \in CallType
<1> DEFINE h      == c.heap
           ending == end(h.store[sub])
           last   == current(ending)
           g      == [h EXCEPT !.store[sub] = ending, !.prio[p] = h.prio[last] + 1]
<1>1. h \in HeapType /\ c.at \in Dbs
  BY CallFields
<1>2. ending \in StorageType
  BY <1>1, HeapFields, endType
<1> HIDE DEF ending
<1>3. CASE valid(ending) /\ last \in Procs
  <2>1. g \in HeapType
    <3>1. h.prio[last] + 1 \in Int
      BY <1>1, <1>3, HeapFields
    <3> QED
      BY <1>1, <1>2, <3>1 DEF HeapType
  <2>2. InstallInSubDatabase(c, sub, p) = [c EXCEPT !.at = sub, !.heap = g]
    BY <1>3 DEF InstallInSubDatabase, CallType, ending
  <2> QED
    BY <2>1, <2>2 DEF CallType
<1>4. CASE ~(valid(ending) /\ last \in Procs)
  <2>1. InstallInSubDatabase(c, sub, p) =
          [c EXCEPT !.done = TRUE, !.heap = [h EXCEPT !.fatal = TRUE]]
    BY <1>4 DEF InstallInSubDatabase, CallType, ending
  <2> QED
    BY <1>1, <2>1, fatalType DEF CallType
<1> QED
  BY <1>3, <1>4

LEMMA CreateSubDatabaseType ==
  ASSUME NEW c \in CallType, NEW q \in Procs, NEW p \in Procs,
         c.heap.unused # {}
  PROVE  CreateSubDatabase(c, q, p) \in CallType
<1> DEFINE h     == c.heap
           key   == h.prio[p]
           sub   == CHOOSE d \in h.unused : TRUE
           prio  == [h.prio EXCEPT ![q] = XPSPL_SUBDATABASE_DEFAULT_PRIORITY]
           moved == offsetSet(empty, prio[q], q)
           keyed == offsetSet(offsetUnset(h.store[c.at], key), key, sub)
           store == [h.store EXCEPT ![sub] = moved, ![c.at] = keyed]
           unused == h.unused \ {sub}
           g     == [h EXCEPT !.prio = prio, !.unused = unused, !.store = store]
<1>1. CreateSubDatabase(c, q, p) = [c EXCEPT !.heap = g]
  BY DEF CreateSubDatabase
<1>2. h \in HeapType /\ c.at \in Dbs
  BY CallFields
<1> HIDE DEF h
<1>3. sub \in h.unused /\ sub \in Dbs /\ unused \in SUBSET Dbs
  BY <1>2, HeapFields DEF h
<1> HIDE DEF sub, unused
<1>4. prio \in [Procs -> Int] /\ prio[q] \in Int /\ key \in Int
  BY <1>2, HeapFields DEF XPSPL_SUBDATABASE_DEFAULT_PRIORITY
<1> HIDE DEF prio, key
<1>5. moved \in StorageType
  BY <1>4, emptyType, offsetSetType
<1>6. keyed \in StorageType
  <2>1. h.store[c.at] \in StorageType
    BY <1>2, HeapFields
  <2>2. offsetUnset(h.store[c.at], key) \in StorageType
    BY <2>1, offsetUnsetType
  <2> QED
    BY <1>3, <1>4, <2>2, offsetSetType
<1> HIDE DEF moved, keyed
<1>7. store \in [Dbs -> StorageType]
  BY <1>2, <1>5, <1>6, HeapFields
<1> HIDE DEF store
<1>8. g \in HeapType
  BY <1>2, <1>3, <1>4, <1>7 DEF HeapType
<1> HIDE DEF g
<1> QED
  BY <1>1, <1>8 DEF CallType

LEMMA FoundType ==
  ASSUME NEW c \in CallType, NEW p \in Procs, Taken(c, p)
  PROVE  Found(c, p) \in Procs \cup Dbs
BY CallFields, offsetGetType DEF Taken, Found

LEMMA InstallStepType ==
  ASSUME NEW c \in CallType, NEW p \in Procs
  PROVE  InstallStep(c, p) \in CallType
<1>1. CASE c.done
  BY <1>1 DEF InstallStep
<1>2. CASE ~c.done /\ ~Taken(c, p)
  BY <1>2, InstallNodeType DEF InstallStep
<1>3. CASE ~c.done /\ Taken(c, p)
  <2>1. Found(c, p) \in Procs \cup Dbs
    BY <1>3, FoundType
  <2>2. CASE Found(c, p) \in Dbs
    BY <1>3, <2>2, InstallInSubDatabaseType DEF InstallStep
  <2>3. CASE Found(c, p) \notin Dbs
    <3>1. c.heap.unused # {} => CreateSubDatabase(c, Found(c, p), p) \in CallType
      BY <2>1, <2>3, CreateSubDatabaseType
    <3> QED
      BY <1>3, <2>3, <3>1 DEF InstallStep
  <2> QED
    BY <2>2, <2>3
<1> QED
  BY <1>1, <1>2, <1>3

LEMMA InstallType ==
  ASSUME NEW h \in HeapType, NEW d \in Dbs, NEW p \in Procs
  PROVE  Install(h, d, p) \in CallType
<1>1. Call(h, d) \in CallType
  BY DEF Call, CallType
<1>2. ASSUME NEW c \in CallType PROVE TwoSteps(c, p) \in CallType
  BY InstallStepType DEF TwoSteps
<1> QED
  BY <1>1, <1>2 DEF Install

----------------------------------------------------------------------------
(* Nothing is lost: what a database has, it keeps.                         *)

\* A walk down the sub-databases comes to an end: every set of databases has
\* one that holds none of the set.
Grounded(h) ==
  \A C \in SUBSET Dbs : C # {} => \E x \in C : vals(h.store[x]) \cap C = {}

\* A process stays a member if it does where it is stored, and sub-databases
\* stay where they are.
LEMMA MembersKept ==
  ASSUME NEW h, NEW g, Grounded(h), NEW q \in Procs,
         \A d \in Dbs : q \in vals(h.store[d]) => q \in Members(g)[d],
         \A d \in Dbs : vals(h.store[d]) \cap Dbs \subseteq vals(g.store[d])
  PROVE  \A d \in Dbs : q \in Members(h)[d] => q \in Members(g)[d]
<1> DEFINE B == {d \in Dbs : q \in Members(h)[d] /\ q \notin Members(g)[d]}
<1>1. ASSUME B # {} PROVE FALSE
  <2>1. PICK x \in B : vals(h.store[x]) \cap B = {}
    BY <1>1 DEF Grounded
  <2>2. \/ q \in vals(h.store[x])
        \/ \E v \in vals(h.store[x]) \cap Dbs : q \in Members(h)[v]
    BY MembersStep
  <2>3. PICK v \in vals(h.store[x]) \cap Dbs : q \in Members(h)[v]
    BY <2>2
  <2>4. q \in Members(g)[v] /\ v \in vals(g.store[x]) \cap Dbs
    BY <2>1, <2>3
  <2> QED
    BY <2>4, MembersStep
<1> QED
  BY <1>1

LEMMA MembersProcs ==
  ASSUME NEW h, Grounded(h)
  PROVE  \A d \in Dbs : Members(h)[d] \subseteq Procs
<1> SUFFICES ASSUME NEW q, q \notin Procs, NEW b \in Dbs, q \in Members(h)[b] PROVE FALSE
  OBVIOUS
<1> DEFINE B == {d \in Dbs : q \in Members(h)[d]}
<1>1. PICK x \in B : vals(h.store[x]) \cap B = {}
  BY DEF Grounded
<1>2. \E v \in vals(h.store[x]) \cap Dbs : q \in Members(h)[v]
  BY MembersStep
<1> QED
  BY <1>1, <1>2

\* No sub-database is new, and processes stay members but those that are lost.
LEMMA NoneLost ==
  ASSUME NEW h, NEW g, Grounded(h), NEW lost,
         \A d \in Dbs : /\ vals(h.store[d]) \subseteq vals(g.store[d]) \cup lost
                        /\ vals(g.store[d]) \cap Dbs \subseteq vals(h.store[d]),
         lost \cap Dbs = {}
  PROVE  /\ Grounded(g)
         /\ \A d \in Dbs : Members(h)[d] \subseteq Members(g)[d] \cup lost
<1>1. Grounded(g)
  <2> SUFFICES ASSUME NEW C \in SUBSET Dbs, C # {}
               PROVE  \E x \in C : vals(g.store[x]) \cap C = {}
    BY DEF Grounded
  <2>1. PICK x \in C : vals(h.store[x]) \cap C = {}
    BY DEF Grounded
  <2> QED
    BY <2>1
<1>2. ASSUME NEW q \in Procs, q \notin lost
      PROVE  \A d \in Dbs : q \in Members(h)[d] => q \in Members(g)[d]
  <2>1. \A d \in Dbs : q \in vals(h.store[d]) => q \in Members(g)[d]
    BY <1>2, MembersStep
  <2>2. \A d \in Dbs : vals(h.store[d]) \cap Dbs \subseteq vals(g.store[d])
    OBVIOUS
  <2> QED
    BY <2>1, <2>2, MembersKept
<1>3. \A d \in Dbs : Members(h)[d] \subseteq Procs
  BY MembersProcs
<1> QED
  BY <1>1, <1>2, <1>3

=============================================================================

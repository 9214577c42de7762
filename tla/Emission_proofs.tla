-------------------------- MODULE Emission_proofs --------------------------
(***************************************************************************)
(* What one emission runs: the loops over the databases and their          *)
(* sub-databases, the interruptions and the halting of a signal implement  *)
(* Emission, as long as the processes that run do not change what there is *)
(* to run.                                                                 *)
(***************************************************************************)
EXTENDS Registry_proofs

----------------------------------------------------------------------------
(* What a loop over a database has still to run.                           *)

\* FlatFrom() of a heap h.
FlatIn(h, d, k) ==
  LET flat[x \in Dbs] ==
        FlattenSeq([i \in DOMAIN h.store[x].nodes |->
          LET v == h.store[x].nodes[i].val
          IN  IF v \in Procs THEN <<v>> ELSE flat[v]])
      rest == SubSeq(h.store[d].nodes, k, Len(h.store[d].nodes))
  IN  FlattenSeq([i \in DOMAIN rest |->
        IF rest[i].val \in Procs THEN <<rest[i].val>> ELSE flat[rest[i].val]])

\* When processes are installed once, a sub-database holds processes only: what
\* a node gives, and what the nodes of database d from the k-th on do.
Leaves(s) == [i \in DOMAIN s.nodes |-> <<s.nodes[i].val>>]

Branch(h, v) == IF v \in Procs THEN <<v>> ELSE FlattenSeq(Leaves(h.store[v]))

Ahead(h, d, k) ==
  [i \in 1..(Len(h.store[d].nodes) + 1 - k) |-> Branch(h, h.store[d].nodes[k + i - 1].val)]

LEMMA NodesOf ==
  ASSUME NEW h \in HeapType, NEW d \in Dbs
  PROVE  /\ Len(h.store[d].nodes) \in Nat
         /\ DOMAIN h.store[d].nodes = 1..Len(h.store[d].nodes)
         /\ \A i \in DOMAIN h.store[d].nodes :
              /\ h.store[d].nodes[i].val \in Procs \cup Dbs
              /\ h.store[d].nodes[i].val \in vals(h.store[d])
              /\ h.store[d].nodes[i] \in NodesIn(h, d)
         /\ \A i, j \in DOMAIN h.store[d].nodes :
              h.store[d].nodes[i].key = h.store[d].nodes[j].key => i = j
<1>1. h.store[d] \in StorageType
  BY HeapFields
<1>2. h.store[d].nodes \in Seq(NodeType) /\ WellFormedStorage(h.store[d])
  BY <1>1 DEF StorageType
<1>3. /\ Len(h.store[d].nodes) \in Nat
      /\ DOMAIN h.store[d].nodes = 1..Len(h.store[d].nodes)
      /\ \A i \in DOMAIN h.store[d].nodes : h.store[d].nodes[i] \in NodeType
  BY <1>2, LenProperties
<1> QED
  BY <1>2, <1>3 DEF WellFormedStorage, NodeType, vals, NodesIn, Range

\* The nodes of a sub-database hold processes.
LEMMA SubNodesProcs ==
  ASSUME NEW h \in HeapType, Once(h), NEW d \in Dbs, NEW v \in Dbs, v \in vals(h.store[d])
  PROVE  \A i \in DOMAIN h.store[v].nodes : h.store[v].nodes[i].val \in Procs
BY OnceSub, NodesOf

\* The recursion of FlatFrom() ends below the sub-databases.
Below(h, f, x) ==
  [j \in DOMAIN h.store[x].nodes |->
    IF h.store[x].nodes[j].val \in Procs THEN <<h.store[x].nodes[j].val>>
                                         ELSE f[h.store[x].nodes[j].val]]

Recurs(h, f) == \A x \in Dbs : f[x] = FlattenSeq(Below(h, f, x))

LEMMA BranchFound ==
  ASSUME NEW h \in HeapType, Once(h), NEW d \in Dbs, NEW i \in DOMAIN h.store[d].nodes,
         NEW f, Recurs(h, f)
  PROVE  Branch(h, h.store[d].nodes[i].val) =
           IF h.store[d].nodes[i].val \in Procs THEN <<h.store[d].nodes[i].val>>
                                                ELSE f[h.store[d].nodes[i].val]
<1> DEFINE v == h.store[d].nodes[i].val
<1>1. v \in Procs \cup Dbs /\ v \in vals(h.store[d])
  BY NodesOf
<1> HIDE DEF v
<1>2. CASE v \notin Procs
  <2>1. \A j \in DOMAIN h.store[v].nodes : h.store[v].nodes[j].val \in Procs
    BY <1>1, <1>2, SubNodesProcs
  <2>2. Below(h, f, v) = Leaves(h.store[v])
    BY <2>1 DEF Leaves, Below
  <2>3. f[v] = FlattenSeq(Leaves(h.store[v]))
    BY <1>1, <1>2, <2>2 DEF Recurs
  <2> QED
    BY <1>2, <2>3 DEF Branch, v
<1>3. CASE v \in Procs
  BY <1>3 DEF Branch, v
<1> QED
  BY <1>2, <1>3

LEMMA FlatInIs ==
  ASSUME NEW h \in HeapType, Once(h), NEW d \in Dbs, NEW k \in 1..(Len(h.store[d].nodes) + 1)
  PROVE  FlatIn(h, d, k) = FlattenSeq(Ahead(h, d, k))
<1> DEFINE flat == CHOOSE f : f = [x \in Dbs |-> FlattenSeq(Below(h, f, x))]
           nodes == h.store[d].nodes
           rest == SubSeq(nodes, k, Len(nodes))
<1>1. FlatIn(h, d, k) =
        FlattenSeq([i \in DOMAIN rest |->
          IF rest[i].val \in Procs THEN <<rest[i].val>> ELSE flat[rest[i].val]])
  BY DEF FlatIn, Below
<1>2. flat = [x \in Dbs |-> FlattenSeq(Below(h, flat, x))]
  <2> DEFINE branches(x) == [j \in DOMAIN h.store[x].nodes |-> Branch(h, h.store[x].nodes[j].val)]
             f == [x \in Dbs |-> FlattenSeq(branches(x))]
  <2>1. ASSUME NEW x \in Dbs, NEW j \in DOMAIN h.store[x].nodes, h.store[x].nodes[j].val \notin Procs
        PROVE  f[h.store[x].nodes[j].val] = Branch(h, h.store[x].nodes[j].val)
    <3> DEFINE v == h.store[x].nodes[j].val
    <3>1. v \in Dbs /\ v \in vals(h.store[x]) /\ v \notin Procs
      BY <2>1, NodesOf
    <3> HIDE DEF v
    <3>2. \A i \in DOMAIN h.store[v].nodes : h.store[v].nodes[i].val \in Procs
      BY <3>1, SubNodesProcs
    <3>3. branches(v) = Leaves(h.store[v])
      BY <3>2 DEF Leaves, Branch
    <3>4. f[v] = FlattenSeq(Leaves(h.store[v]))
      BY <3>1, <3>3
    <3>5. f[v] = Branch(h, v)
      BY <3>1, <3>4 DEF Branch
    <3> QED
      BY <3>5 DEF v
  <2>2. ASSUME NEW x \in Dbs PROVE branches(x) = Below(h, f, x)
    <3> HIDE DEF f
    <3>1. \A j \in DOMAIN h.store[x].nodes : branches(x)[j] = Below(h, f, x)[j]
      BY <2>1 DEF Branch, Below
    <3> QED
      BY <3>1 DEF Below
  <2>3. f = [x \in Dbs |-> FlattenSeq(Below(h, f, x))]
    <3> HIDE DEF branches
    <3>1. \A x \in Dbs : f[x] = FlattenSeq(Below(h, f, x))
      BY <2>2
    <3>2. f = [x \in Dbs |-> f[x]]
      OBVIOUS
    <3> HIDE DEF f
    <3> QED
      BY <3>1, <3>2
  <2> HIDE DEF f
  <2> QED
    BY <2>3
<1>3. /\ Len(nodes) \in Nat /\ DOMAIN nodes = 1..Len(nodes) /\ nodes \in Seq(NodeType)
  BY NodesOf, HeapFields DEF StorageType
<1>4. /\ DOMAIN rest = 1..(Len(nodes) + 1 - k)
      /\ \A i \in DOMAIN rest : rest[i] = nodes[k + i - 1] /\ k + i - 1 \in DOMAIN nodes
  BY <1>3
<1> HIDE DEF flat
<1>5. Recurs(h, flat)
  BY <1>2 DEF Recurs
<1>6. ASSUME NEW i \in DOMAIN rest
      PROVE  (IF rest[i].val \in Procs THEN <<rest[i].val>> ELSE flat[rest[i].val]) = Ahead(h, d, k)[i]
  <2>1. rest[i] = nodes[k + i - 1] /\ k + i - 1 \in DOMAIN nodes
    BY <1>4
  <2>2. Branch(h, nodes[k + i - 1].val) =
          IF nodes[k + i - 1].val \in Procs THEN <<nodes[k + i - 1].val>> ELSE flat[nodes[k + i - 1].val]
    <3>1. PICK j \in DOMAIN h.store[d].nodes : j = k + i - 1
      BY <2>1
    <3> HIDE DEF rest
    <3>2. Branch(h, h.store[d].nodes[j].val) =
            IF h.store[d].nodes[j].val \in Procs THEN <<h.store[d].nodes[j].val>>
                                                 ELSE flat[h.store[d].nodes[j].val]
      BY <1>5, BranchFound
    <3> QED
      BY <3>1, <3>2
  <2>3. Ahead(h, d, k)[i] = Branch(h, nodes[k + i - 1].val)
    BY <1>4 DEF Ahead
  <2> HIDE DEF rest, nodes
  <2> QED
    BY <2>1, <2>2, <2>3
<1>7. [i \in DOMAIN rest |-> IF rest[i].val \in Procs THEN <<rest[i].val>> ELSE flat[rest[i].val]]
        = Ahead(h, d, k)
  <2>1. Ahead(h, d, k) = [i \in DOMAIN rest |-> Ahead(h, d, k)[i]]
    BY <1>4 DEF Ahead
  <2> HIDE DEF rest, nodes
  <2> QED
    BY <1>6, <2>1
<1> QED
  BY <1>1, <1>7

\* A node gives processes.
LEMMA BranchType ==
  ASSUME NEW h \in HeapType, Once(h), NEW d \in Dbs, NEW v \in Procs \cup Dbs, v \in vals(h.store[d])
  PROVE  Branch(h, v) \in Seq(Procs)
<1>1. CASE v \in Procs
  <2>1. <<v>> \in Seq(Procs)
    BY <1>1
  <2> QED
    BY <1>1, <2>1 DEF Branch
<1>2. CASE v \notin Procs
  <2>1. v \in Dbs /\ \A i \in DOMAIN h.store[v].nodes : h.store[v].nodes[i].val \in Procs
    BY <1>2, SubNodesProcs
  <2>2. PICK n \in Nat : DOMAIN h.store[v].nodes = 1..n
    BY <2>1, NodesOf
  <2>3. Leaves(h.store[v]) \in [1..n -> Seq(Procs)]
    BY <2>1, <2>2 DEF Leaves
  <2>4. FlattenSeq(Leaves(h.store[v])) \in Seq(Procs)
    BY <2>3, FlattenType
  <2> QED
    BY <1>2, <2>4 DEF Branch
<1> QED
  BY <1>1, <1>2

\* What the nodes from the k-th on give is made of processes ...
LEMMA AheadType ==
  ASSUME NEW h \in HeapType, Once(h), NEW d \in Dbs, NEW k \in 1..(Len(h.store[d].nodes) + 1)
  PROVE  /\ Len(h.store[d].nodes) + 1 - k \in Nat
         /\ Ahead(h, d, k) \in [1..(Len(h.store[d].nodes) + 1 - k) -> Seq(Procs)]
         /\ FlatIn(h, d, k) \in Seq(Procs)
<1>1. /\ Len(h.store[d].nodes) \in Nat /\ Len(h.store[d].nodes) + 1 - k \in Nat
      /\ DOMAIN h.store[d].nodes = 1..Len(h.store[d].nodes)
  <2>1. Len(h.store[d].nodes) \in Nat /\ DOMAIN h.store[d].nodes = 1..Len(h.store[d].nodes)
    BY NodesOf
  <2> QED
    BY <2>1
<1>2. ASSUME NEW i \in DOMAIN h.store[d].nodes
      PROVE  Branch(h, h.store[d].nodes[i].val) \in Seq(Procs)
  <2>1. PICK v : v = h.store[d].nodes[i].val
    OBVIOUS
  <2>2. v \in Procs \cup Dbs /\ v \in vals(h.store[d])
    BY <2>1, NodesOf
  <2>3. Branch(h, v) \in Seq(Procs)
    BY <2>2, BranchType
  <2> QED
    BY <2>1, <2>3
<1>3. \A i \in 1..(Len(h.store[d].nodes) + 1 - k) : k + i - 1 \in DOMAIN h.store[d].nodes
  BY <1>1
<1>4. Ahead(h, d, k) \in [1..(Len(h.store[d].nodes) + 1 - k) -> Seq(Procs)]
  BY <1>2, <1>3 DEF Ahead
<1>5. FlattenSeq(Ahead(h, d, k)) \in Seq(Procs)
  <2>1. PICK n \in Nat : n = Len(h.store[d].nodes) + 1 - k
    BY <1>1
  <2> QED
    BY <1>4, <2>1, FlattenType
<1> QED
  BY <1>1, <1>4, <1>5, FlatInIs

\* ... is nothing past the last node ...
LEMMA FlatEnd ==
  ASSUME NEW h \in HeapType, Once(h), NEW d \in Dbs, NEW k \in Nat \ {0}, k = Len(h.store[d].nodes) + 1
  PROVE  FlatIn(h, d, k) = <<>>
<1>1. Len(h.store[d].nodes) \in Nat
  BY NodesOf
<1>2. k \in 1..(Len(h.store[d].nodes) + 1) /\ Len(h.store[d].nodes) + 1 - k = 0
  BY <1>1
<1>3. Ahead(h, d, k) \in [1..0 -> Seq(Procs)]
  BY <1>2, AheadType
<1>4. Ahead(h, d, k) = <<>>
  <2>1. Ahead(h, d, k) \in Seq(Seq(Procs)) /\ Len(Ahead(h, d, k)) = 0
    BY <1>3, IsASeq, LenProperties
  <2> QED
    BY <2>1, EmptySeq
<1> QED
  BY <1>2, <1>4, FlatInIs, FlattenNone

\* ... and begins with what the k-th node gives.
LEMMA FlatStep ==
  ASSUME NEW h \in HeapType, Once(h), NEW d \in Dbs, NEW k \in DOMAIN h.store[d].nodes
  PROVE  FlatIn(h, d, k) = Joined(Branch(h, h.store[d].nodes[k].val), FlatIn(h, d, k + 1))
<1>1. PICK len \in Nat : len = Len(h.store[d].nodes) /\ DOMAIN h.store[d].nodes = 1..len
  BY NodesOf
<1>2. PICK m \in Nat, n \in Nat : m = len + 1 - k /\ n = len + 1 - (k + 1) /\ m = n + 1
  BY <1>1
<1>3. k \in 1..(len + 1) /\ k + 1 \in 1..(len + 1)
  BY <1>1
<1>4. PICK u, v : u = Ahead(h, d, k) /\ v = Ahead(h, d, k + 1)
  OBVIOUS
<1>5. u \in [1..m -> Seq(Procs)] /\ v \in [1..n -> Seq(Procs)]
  BY <1>1, <1>2, <1>3, <1>4, AheadType
<1>6. /\ \A i \in 1..m : u[i] = Branch(h, h.store[d].nodes[k + i - 1].val)
      /\ \A i \in 1..n : v[i] = Branch(h, h.store[d].nodes[(k + 1) + i - 1].val)
  BY <1>1, <1>2, <1>4 DEF Ahead
<1>7. Rest(Procs, v, n, u, m)
  <2> SUFFICES ASSUME NEW i \in 1..n PROVE v[i] = u[i + 1]
    BY <1>2, <1>5 DEF Rest
  <2>1. i + 1 \in 1..m /\ (k + 1) + i - 1 = k + (i + 1) - 1
    BY <1>1, <1>2
  <2> QED
    BY <1>6, <2>1
<1>8. u[1] = Branch(h, h.store[d].nodes[k].val)
  <2>1. 1 \in 1..m /\ k + 1 - 1 = k
    BY <1>1, <1>2
  <2> QED
    BY <1>6, <2>1
<1>9. FlattenSeq(u) = Joined(u[1], FlattenSeq(v))
  BY <1>7, FlattenCons
<1>10. FlatIn(h, d, k) = FlattenSeq(u) /\ FlatIn(h, d, k + 1) = FlattenSeq(v)
  BY <1>1, <1>3, <1>4, FlatInIs
<1> QED
  BY <1>8, <1>9, <1>10

\* A sub-database gives what its nodes do.
LEMMA FlatSub ==
  ASSUME NEW h \in HeapType, Once(h), NEW d \in Dbs, NEW v \in Dbs, v \in vals(h.store[d])
  PROVE  FlatIn(h, v, 1) = Branch(h, v)
<1>1. /\ \A i \in DOMAIN h.store[v].nodes : h.store[v].nodes[i].val \in Procs
      /\ Len(h.store[v].nodes) \in Nat
      /\ DOMAIN h.store[v].nodes = 1..Len(h.store[v].nodes)
  BY SubNodesProcs, NodesOf
<1>2. 1 \in 1..(Len(h.store[v].nodes) + 1) /\ Len(h.store[v].nodes) + 1 - 1 = Len(h.store[v].nodes)
  BY <1>1
<1>3. Ahead(h, v, 1) = Leaves(h.store[v])
  <2>1. Ahead(h, v, 1) = [i \in 1..Len(h.store[v].nodes) |-> Branch(h, h.store[v].nodes[1 + i - 1].val)]
    BY <1>2 DEF Ahead
  <2>2. \A i \in 1..Len(h.store[v].nodes) :
          Branch(h, h.store[v].nodes[1 + i - 1].val) = <<h.store[v].nodes[i].val>>
    <3> TAKE i \in 1..Len(h.store[v].nodes)
    <3>1. 1 + i - 1 = i
      OBVIOUS
    <3> QED
      BY <1>1, <3>1 DEF Branch
  <2> QED
    BY <1>1, <2>1, <2>2 DEF Leaves
<1>4. v \notin Procs
  BY DisjointObjects
<1> QED
  BY <1>2, <1>3, <1>4, FlatInIs DEF Branch

\* Nothing else matters than the nodes.
LEMMA FlatSame ==
  ASSUME NEW h, NEW g, NEW d \in Dbs, NEW k, \A x \in Dbs : g.store[x].nodes = h.store[x].nodes
  PROVE  FlatIn(g, d, k) = FlatIn(h, d, k)
<1> DEFINE flat(a) == CHOOSE f : f = [x \in Dbs |-> FlattenSeq(Below(a, f, x))]
           from(a) == LET rest == SubSeq(a.store[d].nodes, k, Len(a.store[d].nodes))
                      IN  FlattenSeq([i \in DOMAIN rest |->
                            IF rest[i].val \in Procs THEN <<rest[i].val>> ELSE flat(a)[rest[i].val]])
<1>1. FlatIn(h, d, k) = from(h) /\ FlatIn(g, d, k) = from(g)
  BY DEF FlatIn, Below
<1>2. \A f : [x \in Dbs |-> FlattenSeq(Below(g, f, x))] = [x \in Dbs |-> FlattenSeq(Below(h, f, x))]
  <2> TAKE f
  <2>1. \A x \in Dbs : Below(g, f, x) = Below(h, f, x)
    BY DEF Below
  <2> QED
    BY <2>1
<1>3. flat(g) = flat(h)
  BY <1>2
<1> HIDE DEF flat
<1>4. from(g) = from(h)
  BY <1>3
<1> QED
  BY <1>1, <1>4

\* A node gives each process once: the one it holds, or those of the
\* sub-database it holds.
LEMMA SingleIs ==
  ASSUME NEW x
  PROVE  IsInjective(<<x>>) /\ Range(<<x>>) = {x}
BY DEF IsInjective, Range

LEMMA BranchHolds ==
  ASSUME NEW h \in HeapType, Once(h), NEW d \in Dbs, NEW v \in Procs \cup Dbs, v \in vals(h.store[d])
  PROVE  /\ IsInjective(Branch(h, v))
         /\ Range(Branch(h, v)) = IF v \in Procs THEN {v} ELSE vals(h.store[v])
<1>1. CASE v \in Procs
  BY <1>1, SingleIs DEF Branch
<1>2. CASE v \notin Procs
  <2> DEFINE w == Leaves(h.store[v])
             nodes == h.store[v].nodes
  <2>1. v \in Dbs /\ \A i \in DOMAIN nodes : nodes[i].val \in Procs /\ nodes[i] \in NodesIn(h, v)
    BY <1>2, SubNodesProcs, NodesOf
  <2>2. PICK n \in Nat : DOMAIN nodes = 1..n
    BY <2>1, NodesOf
  <2>3. \A i, j \in 1..n : nodes[i].val = nodes[j].val => i = j
    <3>1. \A i, j \in 1..n : nodes[i].val = nodes[j].val => nodes[i] = nodes[j]
      BY <2>1, <2>2 DEF Once
    <3>2. \A i, j \in 1..n : nodes[i].key = nodes[j].key => i = j
      BY <2>1, <2>2, NodesOf
    <3> QED
      BY <3>1, <3>2
  <2>4. \A i \in 1..n : w[i] = <<nodes[i].val>>
    BY <2>2 DEF Leaves
  <2>5. w \in [1..n -> Seq(Procs)]
    BY <2>1, <2>2 DEF Leaves
  <2> HIDE DEF w
  <2>6. Pieces(w, n)
    <3>1. \A i \in 1..n : IsInjective(w[i]) /\ Range(w[i]) = {nodes[i].val}
      BY <2>4, SingleIs
    <3> QED
      BY <2>3, <3>1 DEF Pieces
  <2>7. Gathers(w, n)
    BY <2>5, <2>6, FlattenInjective
  <2>8. UNION {Range(w[i]) : i \in 1..n} = {nodes[i].val : i \in 1..n}
    <3>1. \A i \in 1..n : Range(w[i]) = {nodes[i].val}
      BY <2>4, SingleIs
    <3> QED
      BY <3>1
  <2>9. vals(h.store[v]) = {nodes[i].val : i \in 1..n}
    BY <2>2 DEF vals
  <2>10. Branch(h, v) = FlattenSeq(w)
    BY <1>2 DEF Branch, w
  <2> QED
    BY <1>2, <2>7, <2>8, <2>9, <2>10 DEF Gathers
<1> QED
  BY <1>1, <1>2

\* Two nodes give different processes.
LEMMA BranchesApart ==
  ASSUME NEW h \in HeapType, Once(h), NEW roots, ForestOf(h, roots), NEW d \in Dbs,
         NEW i \in DOMAIN h.store[d].nodes, NEW j \in DOMAIN h.store[d].nodes, i # j
  PROVE  Range(Branch(h, h.store[d].nodes[i].val)) \cap Range(Branch(h, h.store[d].nodes[j].val)) = {}
<1>1. PICK m, n : m = h.store[d].nodes[i] /\ n = h.store[d].nodes[j]
  OBVIOUS
<1>2. /\ m \in NodesIn(h, d) /\ n \in NodesIn(h, d) /\ m # n
      /\ m.val \in Procs \cup Dbs /\ n.val \in Procs \cup Dbs
      /\ m.val \in vals(h.store[d]) /\ n.val \in vals(h.store[d])
  BY <1>1, NodesOf
<1> DEFINE holder(v) == IF v \in Procs THEN d ELSE v
<1>3. ASSUME NEW v \in Procs \cup Dbs, v \in vals(h.store[d]), NEW p \in Range(Branch(h, v))
      PROVE  holder(v) \in Dbs /\ p \in Procs /\ p \in vals(h.store[holder(v)]) /\ (v \in Procs => p = v)
  <2>1. v \notin Procs => vals(h.store[v]) \subseteq Procs
    BY <1>3, OnceSub
  <2> QED
    BY <1>3, <2>1, BranchHolds
<1>4. m.val # n.val
  <2>1. CASE m.val \in Procs
    BY <1>2, <2>1 DEF Once
  <2>2. CASE m.val \notin Procs /\ m.val = n.val
    <3>1. m \in SubNodes(h.store[d]) /\ n \in SubNodes(h.store[d])
      BY <1>2, <2>2 DEF SubNodes, NodesIn
    <3> QED
      BY <1>2, <2>2, <3>1 DEF ForestOf
  <2> QED
    BY <2>1, <2>2
<1>5. ASSUME NEW p, p \in Range(Branch(h, m.val)), p \in Range(Branch(h, n.val))
      PROVE  FALSE
  <2>1. PICK x \in Dbs, y \in Dbs : x = holder(m.val) /\ y = holder(n.val)
    BY <1>2, <1>3, <1>5
  <2>2. /\ p \in Procs /\ p \in vals(h.store[x]) /\ p \in vals(h.store[y])
        /\ (m.val \in Procs => p = m.val) /\ (n.val \in Procs => p = n.val)
    BY <1>2, <1>3, <1>5, <2>1
  <2>3. x = y
    <3>1. (\E a \in NodesIn(h, x) : a.val = p) /\ (\E b \in NodesIn(h, y) : b.val = p)
      BY <2>2, HeapFields, RangeOf DEF NodesIn
    <3> QED
      BY <2>2, <3>1 DEF Once
  <2>4. ASSUME NEW v \in Dbs, v \in vals(h.store[d]) PROVE v # d
    <3>1. vals(h.store[v]) \subseteq Procs
      BY <2>4, OnceSub
    <3> QED
      BY <2>4, <3>1, DisjointObjects
  <2> QED
    BY <1>2, <1>4, <2>1, <2>2, <2>3, <2>4
<1> QED
  BY <1>1, <1>5

\* A loop over a database gives each of its processes once.
LEMMA FlatOnce ==
  ASSUME NEW h \in HeapType, Once(h), NEW roots, ForestOf(h, roots), NEW d \in Dbs
  PROVE  /\ FlatIn(h, d, 1) \in Seq(Procs)
         /\ IsInjective(FlatIn(h, d, 1))
         /\ Range(FlatIn(h, d, 1)) \subseteq Members(h)[d]
<1>1. PICK n \in Nat : n = Len(h.store[d].nodes) /\ DOMAIN h.store[d].nodes = 1..n
  BY NodesOf
<1>2. 1 \in 1..(n + 1) /\ n + 1 - 1 = n
  BY <1>1
<1>3. PICK w : w = Ahead(h, d, 1)
  OBVIOUS
<1>4. w \in [1..n -> Seq(Procs)] /\ FlatIn(h, d, 1) \in Seq(Procs)
  BY <1>1, <1>2, <1>3, AheadType
<1>5. \A i \in 1..n : w[i] = Branch(h, h.store[d].nodes[i].val)
  <2> TAKE i \in 1..n
  <2>1. 1 + i - 1 = i
    OBVIOUS
  <2> QED
    BY <1>1, <1>2, <1>3, <2>1 DEF Ahead
<1>6. \A i \in 1..n : IsInjective(w[i]) /\ Range(w[i]) \subseteq Members(h)[d]
  <2> TAKE i \in 1..n
  <2>1. PICK v : v = h.store[d].nodes[i].val
    OBVIOUS
  <2>2. v \in Procs \cup Dbs /\ v \in vals(h.store[d])
    BY <1>1, <2>1, NodesOf
  <2>3. IsInjective(Branch(h, v)) /\ Range(Branch(h, v)) = IF v \in Procs THEN {v} ELSE vals(h.store[v])
    BY <2>2, BranchHolds
  <2>4. v \notin Procs => vals(h.store[v]) \subseteq Procs
    BY <2>2, OnceSub
  <2>5. Range(Branch(h, v)) \subseteq Members(h)[d]
    BY <2>2, <2>3, <2>4, MembersHeld DEF Held
  <2> QED
    BY <1>5, <2>1, <2>3, <2>5
<1>7. Pieces(w, n)
  <2>1. ASSUME NEW i \in DOMAIN h.store[d].nodes, NEW j \in DOMAIN h.store[d].nodes, i # j
        PROVE  Range(w[i]) \cap Range(w[j]) = {}
    <3>1. Range(Branch(h, h.store[d].nodes[i].val)) \cap Range(Branch(h, h.store[d].nodes[j].val)) = {}
      BY <2>1, BranchesApart
    <3>2. w[i] = Branch(h, h.store[d].nodes[i].val) /\ w[j] = Branch(h, h.store[d].nodes[j].val)
      BY <1>1, <1>5
    <3> QED
      BY <3>1, <3>2
  <2> QED
    BY <1>1, <1>6, <2>1 DEF Pieces
<1>8. Gathers(w, n)
  BY <1>4, <1>7, FlattenInjective
<1>9. FlatIn(h, d, 1) = FlattenSeq(w)
  BY <1>1, <1>2, <1>3, FlatInIs
<1> QED
  BY <1>4, <1>6, <1>8, <1>9 DEF Gathers

----------------------------------------------------------------------------
(* The processes of a signal leave alone what the emission has to run: they *)
(* install and delete none and emit nothing, but may halt the signal, and   *)
(* none is exhausted.                                                       *)

Quiet ==
  /\ InstalledOnce /\ Exhausts \subseteq {Never}
  /\ BodyCalls \subseteq {"throw", "halt", "set_signal_history", "erase_signal_history", "delete_signal"}

\* The loops of the emission: over the database of the signal or of one of its
\* interruptions, and over a sub-database of that, on which the outer loop
\* stays meanwhile.
Walks(stack, h) ==
  /\ Len(stack) <= 3
  /\ \A n \in DOMAIN stack :
       LET f == stack[n]
       IN  /\ f.op = "emit" <=> n = 1
           /\ f.sig = stack[1].sig
           /\ f.pc \in {"running", "next"} => valid(h.store[f.db])
           /\ f.pc = "next" => current(h.store[f.db]) \in Dbs
           /\ f.pc = "next" /\ n < Len(stack) => current(h.store[f.db]) = stack[n + 1].db

QuietInv ==
  /\ PlacedInv
  /\ Walks(frames, heap)
  /\ \A p \in Procs : heap.exhaust[p] = Never

LEMMA QuietFields ==
  ASSUME QuietInv
  PROVE  /\ PlacedInv /\ OnceInv /\ StackInv /\ TypeOK /\ Unmerged /\ Forest
         /\ heap \in HeapType /\ Once(heap) /\ frames \in Seq(FrameType)
         /\ DOMAIN frames = 1..Len(frames) /\ Len(frames) \in 0..3
         /\ Nested(frames) /\ Walks(frames, heap)
         /\ \A p \in Procs : heap.exhaust[p] = Never
<1>1. PlacedInv /\ OnceInv /\ Walks(frames, heap) /\ \A p \in Procs : heap.exhaust[p] = Never
  BY DEF QuietInv, PlacedInv
<1>2. /\ StackInv /\ TypeOK /\ Unmerged /\ Forest /\ Nested(frames)
      /\ heap \in HeapType /\ Once(heap) /\ frames \in Seq(FrameType)
  BY <1>1, RegisteredFields DEF OnceInv, GroundedInv, ForestInv, StackInv, TypeInv, WellNested
<1>3. DOMAIN frames = 1..Len(frames) /\ Len(frames) \in Nat
  BY <1>2, LenProperties
<1>4. Len(frames) \in 0..3
  BY <1>1, <1>3 DEF Walks
<1> QED
  BY <1>1, <1>2, <1>3, <1>4

\* A database is none of its own.
LEMMA NotItself ==
  ASSUME NEW h \in HeapType, Once(h), NEW d \in Dbs, NEW v \in Dbs, v \in vals(h.store[d])
  PROVE  v # d
<1>1. vals(h.store[v]) \subseteq Procs
  BY OnceSub
<1> QED
  BY <1>1, DisjointObjects

\* The innermost frame of a quiet emission, and those that wait for it.
LEMMA QuietTop ==
  ASSUME QuietInv, frames # <<>>
  PROVE  /\ Top = frames[Len(frames)] /\ Top \in FrameType /\ Len(frames) \in 1..3
         /\ Top.sig = frames[1].sig /\ Top.loop = Top.db /\ Top.db \in Dbs
         /\ Top.op = "emit" <=> Len(frames) = 1
         /\ Top.op \in {"emit", "exec"}
         /\ Top.pc = "running" <=> Top.proc # NoProc
         /\ Top.pc \in {"running", "next"} => valid(heap.store[Top.db])
         /\ Top.pc = "next" => current(heap.store[Top.db]) \in Dbs
         /\ Len(frames) = 3 => vals(heap.store[Top.db]) \subseteq Procs
         /\ \A n \in 1..(Len(frames) - 1) :
              /\ frames[n].op = "emit" => n = 1 /\ frames[n].pc \in {"main", "after", "done"}
              /\ frames[n].op # "emit" => /\ frames[n].op = "exec" /\ n = 2 /\ Len(frames) = 3
                                          /\ frames[n].pc = "next" /\ frames[n].db \in Dbs
                                          /\ frames[n].db # Top.db
                                          /\ Top.db \in vals(heap.store[frames[n].db])
<1>1. /\ heap \in HeapType /\ Once(heap) /\ frames \in Seq(FrameType) /\ Nested(frames)
      /\ DOMAIN frames = 1..Len(frames) /\ Len(frames) \in 0..3 /\ Walks(frames, heap)
      /\ Unmerged /\ StackInv
  BY QuietFields
<1>2. Len(frames) \in 1..3 /\ Top = frames[Len(frames)] /\ Top \in FrameType
  BY <1>1, TopType
<1>3. \A n \in 1..Len(frames) :
        /\ frames[n] \in FrameType /\ frames[n].db \in Dbs /\ frames[n].loop = frames[n].db
        /\ frames[n].op \in {"emit", "exec"}
        /\ frames[n].op = "emit" <=> n = 1
        /\ frames[n].sig = frames[1].sig
        /\ frames[n].pc \in {"running", "next"} => valid(heap.store[frames[n].db])
        /\ frames[n].pc = "next" => current(heap.store[frames[n].db]) \in Dbs
        /\ frames[n].pc = "next" /\ n < Len(frames) =>
             current(heap.store[frames[n].db]) = frames[n + 1].db
  <2>1. \A n \in 1..Len(frames) : /\ frames[n] \in FrameType /\ frames[n].loop = frames[n].db
                                  /\ frames[n].op # "merge"
    BY <1>1 DEF Unmerged, Alone
  <2>2. \A n \in 1..Len(frames) : /\ frames[n].db \in Dbs /\ frames[n].op \in {"emit", "exec"}
    BY <2>1, FrameFields
  <2> QED
    BY <1>1, <2>1, <2>2 DEF Walks
<1>4. \A n \in 1..(Len(frames) - 1) : Waits(frames[n], frames[n + 1]) /\ n \in 1..Len(frames) /\ n + 1 \in 1..Len(frames)
  BY <1>1 DEF Nested
<1>5. \A n \in 1..(Len(frames) - 1) :
        /\ frames[n].op = "emit" => n = 1 /\ frames[n].pc \in {"main", "after", "done"}
        /\ frames[n].op # "emit" => frames[n].op = "exec" /\ frames[n].pc = "next" /\ n # 1
  <2> TAKE n \in 1..(Len(frames) - 1)
  <2>1. frames[n + 1].op = "exec" /\ Waits(frames[n], frames[n + 1])
    BY <1>2, <1>3, <1>4
  <2> QED
    BY <1>3, <1>4, <2>1 DEF Waits
<1>6. ASSUME NEW n \in 1..(Len(frames) - 1), frames[n].op # "emit"
      PROVE  /\ frames[n].db \in Dbs /\ frames[n + 1].db \in Dbs
             /\ frames[n + 1].db \in vals(heap.store[frames[n].db])
  <2>1. /\ valid(heap.store[frames[n].db]) /\ frames[n].db \in Dbs /\ frames[n + 1].db \in Dbs
        /\ frames[n + 1].db = current(heap.store[frames[n].db])
    <3>1. n < Len(frames) /\ frames[n].pc = "next" /\ n \in 1..Len(frames) /\ n + 1 \in 1..Len(frames)
      BY <1>2, <1>5, <1>6
    <3> QED
      BY <1>3, <3>1
  <2> QED
    BY <2>1 DEF valid, current, vals
<1>7. ASSUME NEW n \in 1..(Len(frames) - 1), frames[n].op # "emit"
      PROVE  n = 2 /\ Len(frames) = 3
  BY <1>2, <1>5, <1>7
<1>8. ASSUME Len(frames) = 3
      PROVE  /\ Top.db \in vals(heap.store[frames[2].db]) /\ frames[2].db \in Dbs /\ Top.db \in Dbs
             /\ vals(heap.store[Top.db]) \subseteq Procs /\ frames[2].db # Top.db
  <2>1. 2 \in 1..(Len(frames) - 1) /\ frames[2].op # "emit" /\ 2 + 1 = Len(frames)
    BY <1>3, <1>8
  <2>2. Top.db \in vals(heap.store[frames[2].db]) /\ frames[2].db \in Dbs /\ Top.db \in Dbs
    BY <1>2, <1>6, <2>1
  <2> QED
    BY <1>1, <2>2, OnceSub, NotItself
<1>9. Top.pc = "running" <=> Top.proc # NoProc
  BY <1>1, NestedTop
<1>10. /\ Top.sig = frames[1].sig /\ Top.loop = Top.db /\ Top.db \in Dbs
       /\ Top.op = "emit" <=> Len(frames) = 1
       /\ Top.op \in {"emit", "exec"}
       /\ Top.pc \in {"running", "next"} => valid(heap.store[Top.db])
       /\ Top.pc = "next" => current(heap.store[Top.db]) \in Dbs
  <2>1. PICK n \in 1..Len(frames) : n = Len(frames)
    BY <1>2
  <2>2. Top = frames[n]
    BY <1>2, <2>1
  <2> QED
    BY <1>3, <2>1, <2>2
<1>11. ASSUME NEW n \in 1..(Len(frames) - 1), frames[n].op # "emit"
       PROVE  /\ frames[n].op = "exec" /\ n = 2 /\ Len(frames) = 3
              /\ frames[n].pc = "next" /\ frames[n].db \in Dbs
              /\ frames[n].db # Top.db /\ Top.db \in vals(heap.store[frames[n].db])
  <2>1. n = 2 /\ Len(frames) = 3
    BY <1>7, <1>11
  <2> QED
    BY <1>5, <1>8, <1>11, <2>1
<1> HIDE DEF Top
<1> QED
  BY <1>2, <1>5, <1>8, <1>9, <1>10, <1>11

----------------------------------------------------------------------------
(* The loops stay so at every step.                                        *)

LEMMA WalksKept ==
  ASSUME NEW s, NEW h, NEW g, Walks(s, h),
         \A n \in DOMAIN s : s[n].pc \in {"running", "next"} => g.store[s[n].db] = h.store[s[n].db]
  PROVE  Walks(s, g)
BY DEF Walks

\* The innermost frame takes another form; those below it stay.
Updates(f) == /\ f \in FrameType
              /\ f.op = Top.op /\ f.db = Top.db /\ f.sig = Top.sig

LEMMA LastFrame ==
  ASSUME frames \in Seq(FrameType), frames # <<>>
  PROVE  /\ frames = Append(Popped, Top)
         /\ \A pc \in Pcs : /\ At(pc) = Append(Popped, [Top EXCEPT !.pc = pc])
                           /\ Updates([Top EXCEPT !.pc = pc]) /\ [Top EXCEPT !.pc = pc].pc = pc
                           /\ [Top EXCEPT !.pc = pc].proc = Top.proc
         /\ \A pc \in Pcs, p \in Procs \cup {NoProc} :
              LET f == [[Top EXCEPT !.pc = pc] EXCEPT !.proc = p]
              IN  /\ WithProc(pc, p) = Append(Popped, f)
                  /\ Updates(f) /\ f.pc = pc /\ f.proc = p
<1>1. /\ Popped \in Seq(FrameType) /\ Len(Popped) = Len(frames) - 1
      /\ \A n \in 1..(Len(frames) - 1) : Popped[n] = frames[n]
      /\ Top \in FrameType /\ Len(frames) \in Nat \ {0} /\ Top = frames[Len(frames)]
  BY PoppedType, TopType
<1>2. ASSUME NEW s \in Seq(FrameType), Len(s) = Len(frames), NEW f \in FrameType, s[Len(frames)] = f,
             \A n \in 1..Len(frames) : n # Len(frames) => s[n] = frames[n]
      PROVE  s = Append(Popped, f)
  <2>1. /\ Append(Popped, f) \in Seq(FrameType) /\ Len(Append(Popped, f)) = Len(frames)
        /\ Append(Popped, f)[Len(frames)] = f
        /\ \A n \in 1..(Len(frames) - 1) : Append(Popped, f)[n] = frames[n]
    <3>1. /\ Append(Popped, f) \in Seq(FrameType) /\ Len(Append(Popped, f)) = Len(Popped) + 1
          /\ Append(Popped, f)[Len(Popped) + 1] = f
          /\ \A n \in 1..Len(Popped) : Append(Popped, f)[n] = Popped[n]
      BY <1>1, PushType
    <3> QED
      BY <1>1, <3>1
  <2>2. \A n \in 1..Len(s) : s[n] = Append(Popped, f)[n]
    <3> TAKE n \in 1..Len(s)
    <3>1. n = Len(frames) \/ n \in 1..(Len(frames) - 1)
      BY <1>1, <1>2
    <3> QED
      BY <1>1, <1>2, <2>1, <3>1
  <2> QED
    BY <1>2, <2>1, <2>2, SeqEqual
<1>3. frames = Append(Popped, Top)
  BY <1>1, <1>2
<1>4. ASSUME NEW pc \in Pcs
      PROVE  /\ At(pc) = Append(Popped, [Top EXCEPT !.pc = pc])
             /\ Updates([Top EXCEPT !.pc = pc]) /\ [Top EXCEPT !.pc = pc].pc = pc
             /\ [Top EXCEPT !.pc = pc].proc = Top.proc
  <2>1. /\ Updates([Top EXCEPT !.pc = pc]) /\ [Top EXCEPT !.pc = pc].pc = pc
        /\ [Top EXCEPT !.pc = pc].proc = Top.proc
    BY <1>1 DEF Updates, FrameType, Pcs
  <2>2. /\ At(pc) \in Seq(FrameType) /\ Len(At(pc)) = Len(frames)
        /\ At(pc)[Len(frames)] = [Top EXCEPT !.pc = pc]
        /\ \A n \in 1..Len(frames) : n # Len(frames) => At(pc)[n] = frames[n]
    BY AtType
  <2> QED
    BY <1>2, <2>1, <2>2 DEF Updates
<1>5. ASSUME NEW pc \in Pcs, NEW p \in Procs \cup {NoProc}
      PROVE  LET f == [[Top EXCEPT !.pc = pc] EXCEPT !.proc = p]
             IN  /\ WithProc(pc, p) = Append(Popped, f)
                 /\ Updates(f) /\ f.pc = pc /\ f.proc = p
  <2> DEFINE f == [[Top EXCEPT !.pc = pc] EXCEPT !.proc = p]
             s == WithProc(pc, p)
  <2>1. Updates(f) /\ f.pc = pc /\ f.proc = p
    BY <1>1 DEF Updates, FrameType, Pcs
  <2>2. s = [At(pc) EXCEPT ![Len(frames)] = f]
    BY AtType DEF WithProc
  <2>3. /\ At(pc) \in Seq(FrameType) /\ Len(At(pc)) = Len(frames) /\ Len(frames) \in 1..Len(frames)
        /\ \A n \in 1..Len(frames) : n # Len(frames) => At(pc)[n] = frames[n]
    BY AtType, TopType
  <2>4. f \in FrameType
    BY <2>1 DEF Updates
  <2> HIDE DEF f, s
  <2>5. /\ s \in Seq(FrameType) /\ Len(s) = Len(frames) /\ s[Len(frames)] = f
        /\ \A n \in 1..Len(frames) : n # Len(frames) => s[n] = frames[n]
    BY <2>2, <2>3, <2>4, ExceptSeq
  <2>6. s = Append(Popped, f)
    BY <1>2, <2>4, <2>5
  <2> QED
    BY <2>1, <2>6 DEF f, s
<1> QED
  BY <1>3, <1>4, <1>5

LEMMA ProcFrame ==
  ASSUME frames \in Seq(FrameType), frames # <<>>
  PROVE  \A pc \in Pcs, p \in Procs \cup {NoProc} :
           \E f : WithProc(pc, p) = Append(Popped, f) /\ Updates(f) /\ f.pc = pc /\ f.proc = p
<1> TAKE pc \in Pcs, p \in Procs \cup {NoProc}
<1> DEFINE g == [[Top EXCEPT !.pc = pc] EXCEPT !.proc = p]
<1>1. WithProc(pc, p) = Append(Popped, g) /\ Updates(g) /\ g.pc = pc /\ g.proc = p
  BY LastFrame
<1> HIDE DEF g
<1> QED
  BY <1>1

\* The innermost frame goes on, whatever becomes of the pointer of its own
\* database, ...
LEMMA WalksTop ==
  ASSUME QuietInv, frames # <<>>, NEW f, Updates(f), NEW g,
         f.pc \in {"running", "next"} => f.pc = "running" /\ valid(g.store[Top.db]),
         \A x \in Dbs : x # Top.db => g.store[x] = heap.store[x]
  PROVE  Walks(Append(Popped, f), g)
<1>1. /\ DOMAIN frames = 1..Len(frames) /\ Len(frames) \in 1..3 /\ Walks(frames, heap)
      /\ Top = frames[Len(frames)] /\ Top.sig = frames[1].sig /\ frames \in Seq(FrameType)
  BY QuietFields, QuietTop
<1>2. \A n \in 1..(Len(frames) - 1) :
        /\ frames[n].pc \in {"running", "next"} =>
             frames[n].db \in Dbs /\ frames[n].db # Top.db
  BY QuietTop
<1> DEFINE s == Append(Popped, f)
<1>3. /\ Len(s) = Len(frames) /\ DOMAIN s = DOMAIN frames /\ s[Len(frames)] = f
      /\ \A n \in 1..(Len(frames) - 1) : s[n] = frames[n]
  <2>1. /\ Popped \in Seq(FrameType) /\ Len(Popped) = Len(frames) - 1
        /\ \A n \in 1..(Len(frames) - 1) : Popped[n] = frames[n]
    BY <1>1, PoppedType
  <2>2. /\ s \in Seq(FrameType) /\ Len(s) = Len(Popped) + 1
        /\ s[Len(Popped) + 1] = f /\ \A n \in 1..Len(Popped) : s[n] = Popped[n]
    BY <2>1, PushType DEF Updates
  <2> HIDE DEF s
  <2> QED
    BY <1>1, <2>1, <2>2, LenProperties
<1> HIDE DEF s
<1>4. ASSUME NEW n \in DOMAIN s
      PROVE  /\ s[n].op = "emit" <=> n = 1
             /\ s[n].sig = s[1].sig
             /\ s[n].pc \in {"running", "next"} => valid(g.store[s[n].db])
             /\ s[n].pc = "next" => current(g.store[s[n].db]) \in Dbs
             /\ s[n].pc = "next" /\ n < Len(s) => current(g.store[s[n].db]) = s[n + 1].db
  <2>1. \A m \in DOMAIN s : s[m].op = frames[m].op /\ s[m].sig = frames[m].sig /\ s[m].db = frames[m].db
    <3> TAKE m \in DOMAIN s
    <3>1. m = Len(frames) \/ m \in 1..(Len(frames) - 1)
      BY <1>1, <1>3
    <3> QED
      BY <1>1, <1>3, <3>1 DEF Updates
  <2>2. 1 \in DOMAIN s
    BY <1>1, <1>3
  <2>3. CASE n # Len(frames)
    <3>1. n \in 1..(Len(frames) - 1) /\ s[n] = frames[n] /\ n < Len(frames) /\ n + 1 \in DOMAIN s
      BY <1>1, <1>3, <2>3
    <3>2. s[n].pc \in {"running", "next"} => g.store[s[n].db] = heap.store[s[n].db]
      BY <1>2, <3>1
    <3> QED
      BY <1>1, <1>3, <2>1, <2>2, <3>1, <3>2 DEF Walks
  <2>4. CASE n = Len(frames)
    <3>1. s[n] = f /\ s[n].db = Top.db
      BY <1>3, <2>4 DEF Updates
    <3> QED
      BY <1>1, <1>3, <2>1, <2>2, <2>4, <3>1 DEF Walks
  <2> QED
    BY <2>3, <2>4
<1>5. Len(s) <= 3
  BY <1>1, <1>3
<1> QED
  BY <1>4, <1>5 DEF Walks, s

\* ... or comes to its end, ...
LEMMA WalksPop ==
  ASSUME QuietInv, frames # <<>>
  PROVE  Walks(Popped, heap)
<1>1. /\ DOMAIN frames = 1..Len(frames) /\ Len(frames) \in 1..3 /\ Walks(frames, heap)
      /\ frames \in Seq(FrameType)
  BY QuietFields, QuietTop
<1> DEFINE s == Popped
<1>2. /\ Len(s) = Len(frames) - 1 /\ DOMAIN s = 1..(Len(frames) - 1)
      /\ \A n \in 1..(Len(frames) - 1) : s[n] = frames[n]
  BY <1>1, PoppedType, LenProperties
<1> HIDE DEF s
<1>3. ASSUME NEW n \in DOMAIN s
      PROVE  /\ s[n].op = "emit" <=> n = 1
             /\ s[n].sig = s[1].sig
             /\ s[n].pc \in {"running", "next"} => valid(heap.store[s[n].db])
             /\ s[n].pc = "next" => current(heap.store[s[n].db]) \in Dbs
             /\ s[n].pc = "next" /\ n < Len(s) => current(heap.store[s[n].db]) = s[n + 1].db
  <2>1. s[n] = frames[n] /\ s[1] = frames[1] /\ n \in DOMAIN frames /\ n < Len(frames)
    BY <1>1, <1>2
  <2>2. n < Len(s) => s[n + 1] = frames[n + 1]
    BY <1>1, <1>2
  <2> QED
    BY <1>1, <2>1, <2>2 DEF Walks
<1>4. Len(s) <= 3
  BY <1>1, <1>2
<1> QED
  BY <1>3, <1>4 DEF Walks, s

\* ... or starts a loop: over a database of the signal, or over a sub-database.
LEMMA WalksPush ==
  ASSUME QuietInv, frames # <<>>, NEW f, Updates(f), NEW e \in FrameType, NEW g,
         e.op = "exec" /\ e.sig = Top.sig /\ e.pc = "fetch",
         \/ Top.op = "emit" /\ f.pc \notin {"running", "next"}
         \/ /\ Top.op = "exec" /\ f.pc = "next" /\ Len(frames) # 3
            /\ valid(heap.store[Top.db]) /\ current(heap.store[Top.db]) = e.db
            /\ e.db \in Dbs /\ g.store[Top.db] = heap.store[Top.db]
  PROVE  Walks(Append(Append(Popped, f), e), g)
<1>1. /\ DOMAIN frames = 1..Len(frames) /\ Len(frames) \in 1..2 /\ Walks(frames, heap)
      /\ Top = frames[Len(frames)] /\ Top.sig = frames[1].sig /\ frames \in Seq(FrameType)
      /\ Top.op = "emit" <=> Len(frames) = 1
  <2>1. Top.op = "emit" <=> Len(frames) = 1
    BY QuietTop
  <2>2. Len(frames) # 3
    BY <2>1
  <2> QED
    BY <2>1, <2>2, QuietFields, QuietTop
<1>2. \A n \in 1..(Len(frames) - 1) : n = 1 /\ frames[n].pc \notin {"running", "next"} /\ frames[n].op = "emit"
  <2> TAKE n \in 1..(Len(frames) - 1)
  <2>1. /\ frames[n].op = "emit" => n = 1 /\ frames[n].pc \in {"main", "after", "done"}
        /\ frames[n].op # "emit" => Len(frames) = 3
    BY QuietTop
  <2> QED
    BY <1>1, <2>1
<1> DEFINE t == Append(Popped, f)
           s == Append(t, e)
<1>3. /\ t \in Seq(FrameType) /\ Len(t) = Len(frames) /\ t[Len(frames)] = f
      /\ \A n \in 1..(Len(frames) - 1) : t[n] = frames[n]
  <2>1. /\ Popped \in Seq(FrameType) /\ Len(Popped) = Len(frames) - 1
        /\ \A n \in 1..(Len(frames) - 1) : Popped[n] = frames[n]
    BY <1>1, PoppedType
  <2>2. /\ t \in Seq(FrameType) /\ Len(t) = Len(Popped) + 1
        /\ t[Len(Popped) + 1] = f /\ \A n \in 1..Len(Popped) : t[n] = Popped[n]
    BY <2>1, PushType DEF Updates
  <2> HIDE DEF t
  <2> QED
    BY <1>1, <2>1, <2>2, LenProperties
<1> HIDE DEF t
<1>4. /\ Len(s) = Len(frames) + 1 /\ DOMAIN s = 1..(Len(frames) + 1)
      /\ s[Len(frames) + 1] = e /\ s[Len(frames)] = f
      /\ \A n \in 1..(Len(frames) - 1) : s[n] = frames[n]
  <2>1. /\ s \in Seq(FrameType) /\ Len(s) = Len(t) + 1
        /\ s[Len(t) + 1] = e /\ \A n \in 1..Len(t) : s[n] = t[n]
    BY <1>3, PushType
  <2> HIDE DEF s
  <2> QED
    BY <1>1, <1>3, <2>1, LenProperties
<1> HIDE DEF s
<1>5. \A n \in DOMAIN s : n = Len(frames) + 1 \/ n = Len(frames) \/ n \in 1..(Len(frames) - 1)
  BY <1>1, <1>4
<1>6. s[1].sig = Top.sig
  BY <1>1, <1>4 DEF Updates
<1>7. ASSUME NEW n \in DOMAIN s
      PROVE  /\ s[n].op = "emit" <=> n = 1
             /\ s[n].sig = s[1].sig
             /\ s[n].pc \in {"running", "next"} => valid(g.store[s[n].db])
             /\ s[n].pc = "next" => current(g.store[s[n].db]) \in Dbs
             /\ s[n].pc = "next" /\ n < Len(s) => current(g.store[s[n].db]) = s[n + 1].db
  <2>1. CASE n = Len(frames) + 1
    BY <1>1, <1>4, <1>6, <2>1
  <2>2. CASE n = Len(frames)
    <3>1. s[n] = f /\ s[n + 1] = e
      BY <1>4, <2>2
    <3>2. f.op = Top.op /\ f.db = Top.db /\ f.sig = Top.sig
      BY DEF Updates
    <3> QED
      BY <1>1, <1>6, <2>2, <3>1, <3>2
  <2>3. CASE n \in 1..(Len(frames) - 1)
    BY <1>1, <1>2, <1>4, <1>6, <2>3
  <2> QED
    BY <1>5, <2>1, <2>2, <2>3
<1>8. Len(s) <= 3
  BY <1>1, <1>4
<1> QED
  BY <1>7, <1>8 DEF Walks, s, t

\* A pointer moves, in one database.
LEMMA StoreMoved ==
  ASSUME NEW h \in HeapType, NEW d \in Dbs
  PROVE  /\ [h EXCEPT !.store[d] = next(@)].store[d] = next(h.store[d])
         /\ [h EXCEPT !.store[d] = reset(@)].store[d] = reset(h.store[d])
         /\ \A x \in Dbs : x # d => /\ [h EXCEPT !.store[d] = next(@)].store[x] = h.store[x]
                                   /\ [h EXCEPT !.store[d] = reset(@)].store[x] = h.store[x]
BY HeapFields

\* A loop starts over database d, for the emission or for the loop around it.
LEMMA QuietExecute ==
  ASSUME QuietInv, frames # <<>>, NEW d \in Dbs, NEW pc \in Pcs, Execute(d, pc),
         \/ Top.op = "emit" /\ pc \notin {"running", "next"}
         \/ /\ Top.op = "exec" /\ pc = "next"
            /\ valid(heap.store[Top.db]) /\ current(heap.store[Top.db]) = d
  PROVE  /\ frames' = Append(Append(Popped, [Top EXCEPT !.pc = pc]), ExecFrame(Top.sig, d))
         /\ ExecFrame(Top.sig, d) \in FrameType
         /\ heap' = [heap EXCEPT !.store[d] = reset(@)]
         /\ Top.op = "exec" => d \in vals(heap.store[Top.db]) /\ d # Top.db /\ Len(frames) # 3
         /\ Walks(frames', heap')
<1>1. /\ heap \in HeapType /\ Once(heap) /\ frames \in Seq(FrameType)
      /\ Top \in FrameType /\ Top.db \in Dbs /\ Top.sig \in Sigs
  BY QuietFields, QuietTop, FrameFields
<1>2. /\ frames' = Append(Append(Popped, [Top EXCEPT !.pc = pc]), ExecFrame(Top.sig, d))
      /\ heap' = [heap EXCEPT !.store[d] = reset(@)]
      /\ Updates([Top EXCEPT !.pc = pc]) /\ [Top EXCEPT !.pc = pc].pc = pc
  BY <1>1, LastFrame DEF Execute, Rewind
<1>3. ExecFrame(Top.sig, d) \in FrameType
  BY <1>1, EmptySeq, NewFrameType
<1>4. /\ ExecFrame(Top.sig, d).op = "exec" /\ ExecFrame(Top.sig, d).sig = Top.sig
      /\ ExecFrame(Top.sig, d).pc = "fetch" /\ ExecFrame(Top.sig, d).db = d
  BY DEF ExecFrame
<1>5. ASSUME Top.op = "exec"
      PROVE  /\ d \in vals(heap.store[Top.db]) /\ d # Top.db /\ Len(frames) # 3
             /\ heap'.store[Top.db] = heap.store[Top.db]
  <2>1. d \in vals(heap.store[Top.db])
    BY <1>5 DEF valid, current, vals
  <2>2. d # Top.db
    BY <1>1, <2>1, NotItself
  <2>3. Len(frames) # 3
    BY <2>1, QuietTop, DisjointObjects
  <2> QED
    BY <1>1, <1>2, <2>1, <2>2, <2>3, StoreMoved
<1>6. PICK f, e : f = [Top EXCEPT !.pc = pc] /\ e = ExecFrame(Top.sig, d)
  OBVIOUS
<1>7. Walks(Append(Append(Popped, f), e), heap')
  <2>1. /\ Updates(f) /\ f.pc = pc /\ e \in FrameType
        /\ e.op = "exec" /\ e.sig = Top.sig /\ e.pc = "fetch" /\ e.db = d
    BY <1>2, <1>3, <1>4, <1>6
  <2> HIDE DEF Top
  <2> QED
    BY <1>5, <2>1, WalksPush
<1> QED
  BY <1>2, <1>3, <1>5, <1>6, <1>7

LEMMA QuietInterrupt ==
  ASSUME QuietInv, frames # <<>>, Top.op = "emit", NEW w \in Places, NEW pc \in Pcs,
         pc \notin {"running", "next"}, Interrupt(w, pc)
  PROVE  Walks(frames', heap')
<1>1. TypeOK /\ frames \in Seq(FrameType) /\ Top.sig \in Sigs
  BY QuietFields, QuietTop, FrameFields
<1>2. Find(w, Top.sig) \in Dbs \cup {NoDb}
  BY <1>1, FindType
<1>3. CASE Find(w, Top.sig) # NoDb
  BY <1>2, <1>3, QuietExecute DEF Interrupt
<1>4. CASE Find(w, Top.sig) = NoDb
  <2>1. frames' = Append(Popped, [Top EXCEPT !.pc = pc]) /\ heap' = heap
    BY <1>1, <1>4, LastFrame DEF Interrupt
  <2>2. Updates([Top EXCEPT !.pc = pc]) /\ [Top EXCEPT !.pc = pc].pc = pc
    BY <1>1, LastFrame
  <2> QED
    BY <2>1, <2>2, WalksTop
<1> QED
  BY <1>3, <1>4

LEMMA PointersWalk ==
  ASSUME QuietInv, Pointers
  PROVE  Walks(frames', heap')
<1> USE DEF Pcs, Places
<1>1. TypeOK /\ Unmerged /\ heap \in HeapType /\ frames \in Seq(FrameType) /\ (\E op, pc : On(op, pc))
  BY QuietFields DEF Pointers, Accept, Reject, MergeSubDatabase, MergeFatal, MergeEnd,
         EmitBefore, EmitMain, EmitAfter, EmitEnd, ExecEnd, ExecSubDatabase, Advance
<1>2. frames # <<>>
  BY <1>1, OnType
<1>3. /\ Top.op # "merge" /\ Top.pending = <<>> /\ Top.loop = Top.db /\ Top.db \in Dbs
  BY <1>1, <1>2, TopAlone, QuietTop
<1>4. CASE Accept \/ Reject \/ MergeSubDatabase \/ MergeFatal \/ MergeEnd
  BY <1>3, <1>4 DEF Accept, Reject, MergeSubDatabase, MergeFatal, MergeEnd, On
<1>5. CASE EmitBefore \/ EmitAfter
  BY <1>2, <1>5, QuietInterrupt DEF EmitBefore, EmitAfter, On
<1>6. CASE EmitMain
  BY <1>2, <1>3, <1>6, QuietExecute DEF EmitMain, On
<1>7. CASE EmitEnd \/ ExecEnd
  <2>1. frames' = Popped /\ heap' = heap
    BY <1>7 DEF EmitEnd, ExecEnd
  <2> QED
    BY <1>2, <2>1, WalksPop
<1>8. CASE ExecSubDatabase
  <2>1. /\ Fetched \in Dbs /\ Execute(Fetched, "next") /\ valid(heap.store[Top.db]) /\ Top.op = "exec"
        /\ Fetched = current(heap.store[Top.db])
    BY <1>3, <1>8 DEF ExecSubDatabase, On, Fetched
  <2> QED
    BY <1>2, <2>1, QuietExecute
<1>9. CASE Advance
  <2>1. /\ frames' = Append(Popped, [Top EXCEPT !.pc = "fetch"])
        /\ heap' = [heap EXCEPT !.store[Top.db] = next(@)]
    BY <1>1, <1>2, <1>3, <1>9, LastFrame DEF Advance
  <2>2. Updates([Top EXCEPT !.pc = "fetch"]) /\ [Top EXCEPT !.pc = "fetch"].pc = "fetch"
    BY <1>1, <1>2, LastFrame
  <2>3. \A x \in Dbs : x # Top.db => heap'.store[x] = heap.store[x]
    BY <1>1, <1>3, <2>1, StoreMoved
  <2> QED
    BY <1>2, <2>1, <2>2, <2>3, WalksTop
<1> QED
  BY <1>4, <1>5, <1>6, <1>7, <1>8, <1>9 DEF Pointers

\* A process that runs is that of the current node, which its return leaves.
LEMMA ProcWalk ==
  ASSUME QuietInv, ExecProcess \/ \E result \in Returns : Return(result)
  PROVE  /\ Walks(frames', heap')
         /\ heap'.exhaust = heap.exhaust
<1>1. TypeOK /\ Unmerged /\ OnceInv /\ heap \in HeapType /\ frames \in Seq(FrameType)
      /\ \A p \in Procs : heap.exhaust[p] = Never
  BY QuietFields
<1>2. CASE ExecProcess
  <2>1. /\ frames # <<>> /\ Top.db \in Dbs /\ Fetched \in Procs
        /\ frames' = WithProc("running", Fetched)
        /\ heap'.exhaust = [heap.exhaust EXCEPT ![Fetched] = decrement_exhaust(@)]
    BY <1>1, <1>2, ExecProcessMoves
  <2>2. heap'.store = heap.store
    BY <1>1, <1>2 DEF ExecProcess, HeapType
  <2>3. Top.loop = Top.db /\ valid(heap.store[Top.loop])
    BY <1>2, <2>1, QuietTop DEF ExecProcess
  <2>4. PICK f : frames' = Append(Popped, f) /\ Updates(f) /\ f.pc = "running" /\ f.proc = Fetched
    BY <1>1, <2>1, ProcFrame DEF Pcs
  <2>5. Walks(frames', heap')
    <3>1. valid(heap'.store[Top.db]) /\ \A x \in Dbs : x # Top.db => heap'.store[x] = heap.store[x]
      BY <2>2, <2>3
    <3>2. f.pc \in {"running", "next"} => f.pc = "running" /\ valid(heap'.store[Top.db])
      BY <2>4, <3>1
    <3>3. frames' = Append(Popped, f) /\ Updates(f) /\ frames # <<>>
      BY <2>1, <2>4
    <3> HIDE DEF Top, Fetched, Popped, Updates
    <3>4. Walks(Append(Popped, f), heap')
      BY <3>1, <3>2, <3>3, WalksTop
    <3> QED
      BY <3>3, <3>4
  <2>6. heap'.exhaust = heap.exhaust
    <3>1. decrement_exhaust(heap.exhaust[Fetched]) = heap.exhaust[Fetched]
      BY <1>1, <2>1 DEF decrement_exhaust
    <3>2. heap.exhaust \in [Procs -> Int \cup {Never}]
      BY <1>1, HeapFields
    <3> QED
      BY <2>1, <3>1, <3>2
  <2> QED
    BY <2>5, <2>6
<1>3. ASSUME NEW result \in Returns, Return(result)
      PROVE  Walks(frames', heap') /\ heap'.exhaust = heap.exhaust
  <2>1. /\ frames # <<>> /\ Top.db \in Dbs /\ Top.proc \in Procs
        /\ frames' = WithProc("fetch", NoProc) /\ heap'.exhaust = heap.exhaust
    BY <1>1, <1>3, ReturnMoves
  <2>2. heap' = [heap EXCEPT !.store[Top.db] = next(@)]
    <3>1. Top.loop = Top.db /\ ~is_exhausted(heap.exhaust[Top.proc])
      BY <1>1, <2>1, QuietTop DEF is_exhausted
    <3> QED
      BY <1>3, <3>1 DEF Return
  <2>3. \A x \in Dbs : x # Top.db => heap'.store[x] = heap.store[x]
    BY <1>1, <2>1, <2>2, StoreMoved
  <2>4. PICK f : frames' = Append(Popped, f) /\ Updates(f) /\ f.pc = "fetch" /\ f.proc = NoProc
    BY <1>1, <2>1, ProcFrame DEF Pcs
  <2> QED
    BY <2>1, <2>3, <2>4, WalksTop
<1> QED
  BY <1>2, <1>3

\* What user code does: the main program whatever it likes, a process little.
LEMMA UserQuiet ==
  ASSUME Quiet, QuietInv, ~Throw,
         \/ Inspects \/ Unregisters
         \/ \E s \in Sigs, p \in Procs : Signal(s, p) \/ Before(s, p) \/ After(s, p) \/ DeleteProcess(s, p)
  PROVE  \/ Idle /\ UNCHANGED frames
         \/ \E s \in Sigs : Idle /\ Emit(s)
         \/ UNCHANGED <<frames, halted>> /\ heap'.store = heap.store
            /\ \A w \in {"before", "after"} : databases'[w] = databases[w]
         \/ UNCHANGED frames /\ heap'.store = heap.store
            /\ \A w \in {"before", "after"} : databases'[w] = databases[w]
            /\ \E s \in Sigs : NewSignal(s)
         \/ UNCHANGED <<frames, heap, databases>> /\ \E s \in Sigs : Halt(s)
<1>1. TypeOK /\ heap \in HeapType
  BY QuietFields
<1>2. ASSUME NEW fn, Calling(fn),
             fn \notin {"throw", "halt", "set_signal_history", "erase_signal_history", "delete_signal"}
      PROVE  Idle
  BY <1>2 DEF Calling, Quiet
<1>3. ASSUME NEW s \in Sigs, HasSignalExhausted(s) \/ EmitNothing(s)
      PROVE  Idle /\ UNCHANGED frames
  BY <1>2, <1>3 DEF HasSignalExhausted, EmitNothing
<1>4. ASSUME NEW s \in Sigs, Emit(s) PROVE Idle
  BY <1>2, <1>4 DEF Emit
<1>5. ASSUME NEW s \in Sigs, EraseHistory(s)
      PROVE  UNCHANGED <<frames, halted, databases>> /\ heap'.store = heap.store
  BY <1>1, <1>5 DEF EraseHistory, Descended, HeapType
<1>6. ASSUME NEW s \in Sigs, NEW erase \in BOOLEAN, DeleteSignal(s, erase)
      PROVE  /\ UNCHANGED <<frames, halted>> /\ heap'.store = heap.store
             /\ \A w \in {"before", "after"} : databases'[w] = databases[w]
  <2>1. heap'.store = heap.store /\ UNCHANGED <<frames, halted>>
    BY <1>1, <1>6 DEF DeleteSignal, Descended, HeapType
  <2>2. databases' = [databases EXCEPT !["index"][Index[s]] = NoDb]
    BY <1>6 DEF DeleteSignal
  <2>3. \A w \in {"before", "after"} : databases'[w] = databases[w]
    BY <1>1, <2>2 DEF TypeOK, Places
  <2> QED
    BY <2>1, <2>3
<1>7. CASE Flush \/ \E flag \in BOOLEAN : SetSignalHistory(flag)
  <2>1. CASE Flush
    BY <1>2, <2>1 DEF Flush
  <2>2. CASE \E flag \in BOOLEAN : SetSignalHistory(flag)
    BY <2>2 DEF SetSignalHistory
  <2> QED
    BY <1>7, <2>1, <2>2
<1>8. CASE UNCHANGED vars
  BY <1>8 DEF vars
<1>9. ASSUME NEW s \in Sigs, NewSignal(s)
      PROVE  UNCHANGED <<frames, databases, heap>>
  BY <1>9 DEF NewSignal
<1>9a. ASSUME NEW s \in Sigs, Halt(s)
       PROVE  UNCHANGED <<frames, heap, databases>>
  BY <1>9a DEF Halt
<1>10. CASE \E s \in Sigs, p \in Procs : Signal(s, p) \/ Before(s, p) \/ After(s, p) \/ DeleteProcess(s, p)
  BY <1>2, <1>10 DEF Signal, Before, After, DeleteProcess, InstallOn
<1>11. CASE Inspects
  BY <1>3, <1>4, <1>5, <1>7, <1>8, <1>9, <1>9a, <1>11 DEF Inspects
<1>12. CASE Unregisters
  BY <1>6, <1>7, <1>12 DEF Unregisters
<1> QED
  BY <1>10, <1>11, <1>12

LEMMA WalksNone == \A h : Walks(<<>>, h)
BY EmptySeq DEF Walks

\* An exception ends the emission: no process below the one that throws runs.
LEMMA ThrowEnds ==
  ASSUME QuietInv, Throw
  PROVE  frames # <<>> /\ frames' = <<>>
<1>1. frames # <<>> /\ frames \in Seq(FrameType)
  BY QuietFields DEF Throw, Idle
<1>2. PICK k \in {0} \cup {k \in DOMAIN frames : k < Len(frames) /\ frames[k].pc = "running"} :
         frames' = SubSeq(frames, 1, k)
  BY DEF Throw
<1>3. k = 0
  <2> SUFFICES ASSUME k # 0 PROVE FALSE
    OBVIOUS
  <2>1. k \in 1..(Len(frames) - 1) /\ frames[k].pc = "running"
    BY <1>1, <1>2, LenProperties
  <2> QED
    BY <1>1, <2>1, QuietTop
<1>4. SubSeq(frames, 1, 0) = <<>>
  BY <1>1
<1> QED
  BY <1>1, <1>2, <1>3, <1>4

LEMMA EmitWalks ==
  ASSUME QuietInv, NEW s \in Sigs, Idle, Emit(s)
  PROVE  /\ frames' = <<EmitFrame(s, Find("index", s), <<>>)>>
         /\ Find("index", s) \in Dbs
         /\ EmitFrame(s, Find("index", s), <<>>) \in FrameType
         /\ Walks(frames', heap')
<1>1. TypeOK /\ complexes = <<>> /\ frames = <<>>
  BY QuietFields DEF Unmerged, Idle
<1>2. Find("index", s) \in Dbs
  BY <1>1, FindType DEF Emit, Places
<1>3. Evaluated = <<>>
  BY <1>1 DEF Evaluated
<1>4. frames' = <<EmitFrame(s, Find("index", s), <<>>)>>
  BY <1>1, <1>3 DEF Emit, Push
<1>5. EmitFrame(s, Find("index", s), <<>>) \in FrameType
  BY <1>2, EmptySeq, NewFrameType DEF EmitFrame, FrameType
<1>6. PICK e : e = EmitFrame(s, Find("index", s), <<>>)
  OBVIOUS
<1>7. e.op = "emit" /\ e.pc = "start"
  BY <1>6 DEF EmitFrame
<1>8. Walks(<<e>>, heap')
  BY <1>7 DEF Walks
<1> QED
  BY <1>2, <1>4, <1>5, <1>6, <1>8

LEMMA QuietWalks ==
  ASSUME Quiet, QuietInv, [Next]_vars
  PROVE  Walks(frames', heap')
<1>1. TypeOK /\ Unmerged /\ Walks(frames, heap)
  BY QuietFields
<1>2. CASE Pointers
  BY <1>2, PointersWalk
<1>3. CASE MergeProcess
  BY <1>1, <1>3, TopAlone DEF MergeProcess
<1>4. CASE ExecProcess \/ \E result \in Returns : Return(result)
  BY <1>4, ProcWalk
<1>5. CASE Throw
  BY <1>5, ThrowEnds, WalksNone
<1>6. CASE /\ ~Throw
           /\ \/ Inspects \/ Unregisters
              \/ \E s \in Sigs, p \in Procs : Signal(s, p) \/ Before(s, p) \/ After(s, p) \/ DeleteProcess(s, p)
  <2>1. \/ Idle /\ UNCHANGED frames
        \/ \E s \in Sigs : Idle /\ Emit(s)
        \/ UNCHANGED frames /\ heap'.store = heap.store
    BY <1>6, UserQuiet
  <2>2. CASE Idle /\ UNCHANGED frames
    BY <2>2, WalksNone DEF Idle
  <2>3. CASE \E s \in Sigs : Idle /\ Emit(s)
    BY <2>3, EmitWalks
  <2>4. CASE UNCHANGED frames /\ heap'.store = heap.store
    BY <1>1, <2>4, WalksKept
  <2> QED
    BY <2>1, <2>2, <2>3, <2>4
<1> QED
  BY <1>2, <1>3, <1>4, <1>5, <1>6, StepKinds

LEMMA QuietExhausts ==
  ASSUME Quiet, QuietInv, [Next]_vars, NEW q \in Procs
  PROVE  heap'.exhaust[q] = Never
<1>1. /\ TypeOK /\ Unmerged /\ OnceInv /\ heap \in HeapType /\ InstalledOnce
      /\ \A p \in Procs : heap.exhaust[p] = Never
  BY QuietFields DEF Quiet
<1>2. CASE heap'.exhaust = heap.exhaust
  BY <1>1, <1>2
<1>3. CASE Pointers
  BY <1>1, <1>3, PointersUnaltered
<1>4. CASE Inspects \/ Unregisters
  BY <1>1, <1>4, UserUnaltered
<1>5. CASE MergeProcess
  BY <1>1, <1>5, TopAlone DEF MergeProcess
<1>6. CASE ExecProcess \/ \E result \in Returns : Return(result)
  BY <1>1, <1>6, ProcWalk
<1>7. CASE \E s \in Sigs, p \in Procs : DeleteProcess(s, p)
  <2>1. PICK s \in Sigs, p \in Procs : DeleteProcess(s, p)
    BY <1>7
  <2>2. Find("index", s) \in Dbs
    BY <1>1, <2>1, FindType DEF DeleteProcess, Places
  <2>3. heap'.exhaust = heap.exhaust
    BY <1>1, <2>1, <2>2, DeleteNodes DEF DeleteProcess
  <2> QED
    BY <1>1, <2>3
<1>8. ASSUME NEW s \in Sigs, NEW p \in Procs, Signal(s, p) \/ Before(s, p) \/ After(s, p)
      PROVE  heap'.exhaust[q] = Never
  <2>1. PICK w \in Places : InstallOn(w, s, p)
    BY <1>8 DEF Signal, Before, After, Places
  <2>2. PICK g, d : Installs(g, d, w, s, p) /\ OncePass(Install(g, d, p), g, d, p, Registereds')
                    /\ p \notin made
    BY <1>1, <2>1, InstallOnOnce
  <2>3. heap'.exhaust = g.exhaust
    BY <2>2 DEF Installs, OncePass
  <2>4. PICK e \in Exhausts : g.exhaust = [heap.exhaust EXCEPT ![p] = set_exhaust(e)]
    BY <2>2 DEF Installs
  <2>5. set_exhaust(e) = Never
    BY <2>4 DEF Quiet, set_exhaust
  <2>6. heap.exhaust \in [Procs -> Int \cup {Never}]
    BY <1>1, HeapFields
  <2> QED
    BY <1>1, <2>3, <2>4, <2>5, <2>6
<1> QED
  BY <1>3, <1>4, <1>5, <1>6, <1>7, <1>8, StepKinds

LEMMA QuietNext ==
  ASSUME Quiet, QuietInv, [Next]_vars
  PROVE  QuietInv'
BY PlacedNext, QuietWalks, QuietExhausts DEF QuietInv, Quiet

LEMMA QuietInit == Init => QuietInv
BY PlacedInit, WalksNone DEF Init, QuietInv

----------------------------------------------------------------------------
(* What the call stack has still to run.                                   *)

FlatFor(h, d) == IF d = NoDb THEN <<>> ELSE FlatIn(h, d, 1)

\* Remaining() of a heap and of the registered databases.
RemainingIn(h, dbs, f) ==
  LET before == FlatFor(h, dbs["before"][Index[f.sig]])
      main   == FlatFor(h, f.db)
      after  == FlatFor(h, dbs["after"][Index[f.sig]])
  IN  CASE f.op = "emit" /\ f.pc = "start" -> Joined(Joined(before, main), after)
        [] f.op = "emit" /\ f.pc = "main"  -> Joined(main, after)
        [] f.op = "emit" /\ f.pc = "after" -> after
        [] f.op = "exec" /\ f.pc = "fetch" -> FlatIn(h, f.db, h.store[f.db].ptr)
        [] f.op = "exec" /\ f.pc # "fetch" -> FlatIn(h, f.db, h.store[f.db].ptr + 1)
        [] OTHER -> <<>>

TodoOf(h, dbs, s) == FlattenSeq([n \in DOMAIN s |-> RemainingIn(h, dbs, s[Len(s) + 1 - n])])

Todo(h, dbs, s, off) ==
  IF s = <<>> \/ s[1].sig \in off THEN <<>> ELSE TodoOf(h, dbs, s)

LEMMA FlatIs == \A d, k : FlatFrom(d, k) = FlatIn(heap, d, k)
BY DEF FlatFrom, FlatIn

LEMMA RemainingIs == \A f : Remaining(f) = RemainingIn(heap, databases, f)
<1> TAKE f
<1>1. \A d : FlatOf(d) = FlatFor(heap, d)
  BY FlatIs DEF FlatOf, FlatFor
<1> QED
  BY <1>1, FlatIs DEF Remaining, RemainingIn, Joined, Find

LEMMA TodoNow == todo = Todo(heap, databases, frames, halted)
BY RemainingIs DEF todo, Todo, TodoOf, Idle

LEMMA TodoNext == todo' = Todo(heap', databases', frames', halted')
<1>1. (todo = Todo(heap, databases, frames, halted))'
  BY TodoNow, PTL
<1> QED
  BY <1>1

Sized(h, dbs, s) == \A n \in DOMAIN s : RemainingIn(h, dbs, s[n]) \in Seq(Procs)

\* What each frame has to run, the innermost first.
Inward(h, dbs, s) == [n \in DOMAIN s |-> RemainingIn(h, dbs, s[Len(s) + 1 - n])]

LEMMA InwardType ==
  ASSUME NEW h, NEW dbs, NEW s \in Seq(FrameType), Sized(h, dbs, s)
  PROVE  /\ Len(s) \in Nat /\ Inward(h, dbs, s) \in [1..Len(s) -> Seq(Procs)]
         /\ TodoOf(h, dbs, s) = FlattenSeq(Inward(h, dbs, s))
         /\ TodoOf(h, dbs, s) \in Seq(Procs)
<1>1. Len(s) \in Nat /\ DOMAIN s = 1..Len(s)
  BY LenProperties
<1>2. \A n \in 1..Len(s) : RemainingIn(h, dbs, s[Len(s) + 1 - n]) \in Seq(Procs)
  <2> TAKE n \in 1..Len(s)
  <2>1. PICK m \in DOMAIN s : m = Len(s) + 1 - n
    BY <1>1
  <2> QED
    BY <2>1 DEF Sized
<1>3. Inward(h, dbs, s) \in [1..Len(s) -> Seq(Procs)]
  BY <1>1, <1>2 DEF Inward
<1>4. FlattenSeq(Inward(h, dbs, s)) \in Seq(Procs)
  <2>1. PICK n \in Nat : n = Len(s)
    BY <1>1
  <2> QED
    BY <1>3, <2>1, FlattenType
<1> QED
  BY <1>1, <1>3, <1>4 DEF TodoOf, Inward

LEMMA TodoNone == \A h, dbs : TodoOf(h, dbs, <<>>) = <<>>
<1> TAKE h, dbs
<1>1. [n \in DOMAIN <<>> |-> RemainingIn(h, dbs, <<>>[Len(<<>>) + 1 - n])] = <<>>
  <2>1. DOMAIN <<>> = 1..0
    BY EmptySeq, LenProperties
  <2> QED
    BY <2>1, EmptySeq
<1> QED
  BY <1>1, FlattenNone DEF TodoOf

\* The innermost frame goes first.
LEMMA TodoPush ==
  ASSUME NEW h, NEW dbs, NEW s \in Seq(FrameType), NEW f \in FrameType,
         Sized(h, dbs, s), RemainingIn(h, dbs, f) \in Seq(Procs)
  PROVE  /\ Append(s, f) \in Seq(FrameType) /\ Sized(h, dbs, Append(s, f))
         /\ TodoOf(h, dbs, Append(s, f)) = Joined(RemainingIn(h, dbs, f), TodoOf(h, dbs, s))
<1>1. PICK t : t = Append(s, f)
  OBVIOUS
<1>2. PICK n \in Nat, m \in Nat : n = Len(s) /\ m = Len(t) /\ m = n + 1
  <2>1. Len(s) \in Nat /\ Len(t) = Len(s) + 1
    BY <1>1, PushType, LenProperties
  <2> QED
    BY <2>1
<1>3. /\ t \in Seq(FrameType) /\ t[m] = f /\ (\A i \in 1..n : t[i] = s[i])
      /\ DOMAIN s = 1..n /\ DOMAIN t = 1..m
  BY <1>1, <1>2, PushType, LenProperties
<1>4. Sized(h, dbs, t)
  <2>1. \A i \in 1..m : i = m \/ i \in 1..n
    BY <1>2
  <2> QED
    BY <1>3, <2>1 DEF Sized
<1>5. PICK u, v : u = Inward(h, dbs, t) /\ v = Inward(h, dbs, s)
  OBVIOUS
<1>6. /\ u \in [1..m -> Seq(Procs)] /\ v \in [1..n -> Seq(Procs)]
      /\ TodoOf(h, dbs, t) = FlattenSeq(u) /\ TodoOf(h, dbs, s) = FlattenSeq(v)
  BY <1>2, <1>3, <1>4, <1>5, InwardType
<1>7. /\ \A i \in 1..m : u[i] = RemainingIn(h, dbs, t[m + 1 - i])
      /\ \A i \in 1..n : v[i] = RemainingIn(h, dbs, s[n + 1 - i])
  BY <1>2, <1>3, <1>5 DEF Inward
<1>8. Rest(Procs, v, n, u, m)
  <2> SUFFICES ASSUME NEW i \in 1..n PROVE v[i] = u[i + 1]
    BY <1>2, <1>6 DEF Rest
  <2>1. i + 1 \in 1..m /\ m + 1 - (i + 1) = n + 1 - i /\ n + 1 - i \in 1..n
    BY <1>2
  <2> QED
    BY <1>3, <1>7, <2>1
<1>9. u[1] = RemainingIn(h, dbs, f)
  <2>1. 1 \in 1..m /\ m + 1 - 1 = m
    BY <1>2
  <2> QED
    BY <1>3, <1>7, <2>1
<1>10. FlattenSeq(u) = Joined(u[1], FlattenSeq(v))
  BY <1>8, FlattenCons
<1> QED
  BY <1>1, <1>3, <1>4, <1>6, <1>9, <1>10

LEMMA TodoSame ==
  ASSUME NEW h, NEW dbs, NEW g, NEW ebs, NEW s \in Seq(FrameType),
         \A n \in DOMAIN s : RemainingIn(g, ebs, s[n]) = RemainingIn(h, dbs, s[n])
  PROVE  TodoOf(g, ebs, s) = TodoOf(h, dbs, s)
<1>1. Len(s) \in Nat /\ DOMAIN s = 1..Len(s)
  BY LenProperties
<1>2. \A n \in DOMAIN s : RemainingIn(g, ebs, s[Len(s) + 1 - n]) = RemainingIn(h, dbs, s[Len(s) + 1 - n])
  <2> TAKE n \in DOMAIN s
  <2>1. PICK m \in DOMAIN s : m = Len(s) + 1 - n
    BY <1>1
  <2> QED
    BY <2>1
<1>3. Inward(g, ebs, s) = Inward(h, dbs, s)
  BY <1>2 DEF Inward
<1> QED
  BY <1>3 DEF TodoOf, Inward

----------------------------------------------------------------------------
\* What a frame has to run, by what it does next.
LEMMA RemainingForms ==
  ASSUME NEW h, NEW dbs, NEW f
  PROVE  LET before == FlatFor(h, dbs["before"][Index[f.sig]])
             main   == FlatFor(h, f.db)
             after  == FlatFor(h, dbs["after"][Index[f.sig]])
             r      == RemainingIn(h, dbs, f)
         IN  /\ f.op = "emit" /\ f.pc = "start" => r = Joined(Joined(before, main), after)
             /\ f.op = "emit" /\ f.pc = "main"  => r = Joined(main, after)
             /\ f.op = "emit" /\ f.pc = "after" => r = after
             /\ f.op = "emit" /\ f.pc \notin {"start", "main", "after"} => r = <<>>
             /\ f.op = "exec" /\ f.pc = "fetch" => r = FlatIn(h, f.db, h.store[f.db].ptr)
             /\ f.op = "exec" /\ f.pc # "fetch" => r = FlatIn(h, f.db, h.store[f.db].ptr + 1)
             /\ f.op \notin {"emit", "exec"} => r = <<>>
BY DEF RemainingIn

LEMMA FlatForType ==
  ASSUME NEW h \in HeapType, Once(h), NEW d \in Dbs \cup {NoDb}
  PROVE  FlatFor(h, d) \in Seq(Procs)
<1>1. CASE d \in Dbs
  <2>1. 1 \in 1..(Len(h.store[d].nodes) + 1)
    BY <1>1, NodesOf
  <2> QED
    BY <1>1, <2>1, AheadType, EmptySeq DEF FlatFor
<1> QED
  BY <1>1, EmptySeq DEF FlatFor

\* The loops that are on, and past, a node of their database.
InLoop(h, f) == f.op = "exec" => /\ f.pc \in {"fetch", "running", "next"}
                                 /\ f.pc # "fetch" => valid(h.store[f.db])

LEMMA RemainingType ==
  ASSUME NEW h \in HeapType, Once(h), NEW dbs \in [Places -> [Idx -> Dbs \cup {NoDb}]],
         NEW f \in FrameType, InLoop(h, f)
  PROVE  RemainingIn(h, dbs, f) \in Seq(Procs)
<1> DEFINE before == FlatFor(h, dbs["before"][Index[f.sig]])
           main   == FlatFor(h, f.db)
           after  == FlatFor(h, dbs["after"][Index[f.sig]])
<1>1. f.sig \in Sigs /\ f.db \in Dbs /\ Index[f.sig] \in Idx /\ f.op \in {"emit", "exec", "merge"}
  BY FrameFields, IndexType
<1>2. before \in Seq(Procs) /\ main \in Seq(Procs) /\ after \in Seq(Procs)
  <2>1. dbs["before"][Index[f.sig]] \in Dbs \cup {NoDb} /\ dbs["after"][Index[f.sig]] \in Dbs \cup {NoDb}
    BY <1>1 DEF Places
  <2> QED
    BY <1>1, <2>1, FlatForType
<1>3. /\ Len(h.store[f.db].nodes) \in Nat /\ DOMAIN h.store[f.db].nodes = 1..Len(h.store[f.db].nodes)
      /\ h.store[f.db].ptr \in 1..(Len(h.store[f.db].nodes) + 1)
      /\ valid(h.store[f.db]) => h.store[f.db].ptr + 1 \in 1..(Len(h.store[f.db].nodes) + 1)
  <2>1. h.store[f.db] \in StorageType
    BY <1>1, HeapFields
  <2> QED
    BY <2>1, StorageFields DEF valid
<1>4. \A k \in 1..(Len(h.store[f.db].nodes) + 1) : FlatIn(h, f.db, k) \in Seq(Procs)
  BY <1>1, AheadType
<1>5. /\ Joined(Joined(before, main), after) \in Seq(Procs) /\ Joined(main, after) \in Seq(Procs)
      /\ <<>> \in Seq(Procs)
  BY <1>2, JoinedType, EmptySeq
<1>6. CASE f.op = "exec"
  BY <1>3, <1>4, <1>6, RemainingForms DEF InLoop
<1>7. CASE f.op = "emit"
  <2> HIDE DEF before, main, after
  <2>1. /\ f.pc = "start" => RemainingIn(h, dbs, f) = Joined(Joined(before, main), after)
        /\ f.pc = "main" => RemainingIn(h, dbs, f) = Joined(main, after)
        /\ f.pc = "after" => RemainingIn(h, dbs, f) = after
        /\ f.pc \notin {"start", "main", "after"} => RemainingIn(h, dbs, f) = <<>>
    BY <1>7, RemainingForms DEF before, main, after
  <2> QED
    BY <1>2, <1>5, <2>1
<1>8. CASE f.op = "merge"
  BY <1>5, <1>8, RemainingForms
<1> QED
  BY <1>1, <1>6, <1>7, <1>8

\* Moving the pointers of other databases changes nothing.
SameWay(g, ebs, h, dbs, f) ==
  /\ f \in FrameType
  /\ \A x \in Dbs : g.store[x].nodes = h.store[x].nodes
  /\ \A w \in {"before", "after"} : ebs[w] = dbs[w]
  /\ \A w \in {"before", "after"} : dbs[w][Index[f.sig]] \in Dbs \cup {NoDb}
  /\ f.op = "exec" => g.store[f.db].ptr = h.store[f.db].ptr

LEMMA RemainingSame ==
  ASSUME NEW h, NEW dbs, NEW g, NEW ebs, NEW f, SameWay(g, ebs, h, dbs, f)
  PROVE  RemainingIn(g, ebs, f) = RemainingIn(h, dbs, f)
<1> USE DEF SameWay
<1>1. \A d \in Dbs : \A k : FlatIn(g, d, k) = FlatIn(h, d, k)
  BY FlatSame
<1>2. \A d \in Dbs \cup {NoDb} : FlatFor(g, d) = FlatFor(h, d)
  BY <1>1 DEF FlatFor
<1>3. f.db \in Dbs /\ f.op \in {"emit", "exec", "merge"}
  BY FrameFields
<1>4. CASE f.op = "exec"
  BY <1>1, <1>3, <1>4, RemainingForms
<1>5. CASE f.op = "emit"
  <2>1. /\ FlatFor(g, f.db) = FlatFor(h, f.db)
        /\ FlatFor(g, ebs["before"][Index[f.sig]]) = FlatFor(h, dbs["before"][Index[f.sig]])
        /\ FlatFor(g, ebs["after"][Index[f.sig]]) = FlatFor(h, dbs["after"][Index[f.sig]])
    BY <1>2, <1>3
  <2> QED
    BY <1>5, <2>1 DEF RemainingIn
<1>6. CASE f.op = "merge"
  BY <1>6, RemainingForms
<1> QED
  BY <1>3, <1>4, <1>5, <1>6

----------------------------------------------------------------------------
(* The steps of the processor, seen from the emission.                     *)

\* Heap g and registered databases dbs have the nodes and the interruptions of
\* the current ones, and the loops that wait stay where they are.
Remains(g, dbs) ==
  /\ g \in HeapType /\ Once(g) /\ dbs \in [Places -> [Idx -> Dbs \cup {NoDb}]]
  /\ \A x \in Dbs : g.store[x].nodes = heap.store[x].nodes
  /\ \A w \in {"before", "after"} : dbs[w] = databases[w]
  /\ \A n \in 1..(Len(frames) - 1) :
       frames[n].op = "exec" => g.store[frames[n].db].ptr = heap.store[frames[n].db].ptr

LEMMA DatabasesNow ==
  ASSUME QuietInv
  PROVE  /\ databases \in [Places -> [Idx -> Dbs \cup {NoDb}]]
         /\ \A w \in Places, f \in FrameType : databases[w][Index[f.sig]] \in Dbs \cup {NoDb}
<1>1. TypeOK
  BY QuietFields
<1>2. databases \in [Places -> [Idx -> Dbs \cup {NoDb}]]
  BY <1>1 DEF TypeOK
<1>3. \A f \in FrameType : Index[f.sig] \in Idx
  BY FrameFields, IndexType
<1> QED
  BY <1>2, <1>3

LEMMA RemainsNow ==
  ASSUME QuietInv
  PROVE  Remains(heap, databases)
BY QuietFields, DatabasesNow DEF Remains

\* What the frames that wait have still to run.
LEMMA TodoWaiting ==
  ASSUME QuietInv, frames # <<>>, NEW g, NEW dbs, Remains(g, dbs)
  PROVE  /\ Popped \in Seq(FrameType) /\ Sized(g, dbs, Popped)
         /\ TodoOf(g, dbs, Popped) = TodoOf(heap, databases, Popped)
         /\ TodoOf(heap, databases, Popped) \in Seq(Procs)
<1>1. /\ frames \in Seq(FrameType) /\ heap \in HeapType /\ Once(heap) /\ Walks(frames, heap)
      /\ DOMAIN frames = 1..Len(frames) /\ Len(frames) \in Nat
  BY QuietFields
<1>2. /\ Popped \in Seq(FrameType) /\ DOMAIN Popped = 1..(Len(frames) - 1)
      /\ \A n \in 1..(Len(frames) - 1) : Popped[n] = frames[n]
  BY <1>1, PoppedType, LenProperties
<1>3. \A n \in 1..(Len(frames) - 1) : frames[n] \in FrameType /\ InLoop(heap, frames[n])
  <2> TAKE n \in 1..(Len(frames) - 1)
  <2>1. n \in DOMAIN frames /\ frames[n] \in FrameType
    BY <1>1
  <2>2. frames[n].op # "emit" => frames[n].pc = "next"
    BY QuietTop
  <2>3. frames[n].pc = "next" => valid(heap.store[frames[n].db])
    BY <1>1, <2>1 DEF Walks
  <2> QED
    BY <2>1, <2>2, <2>3 DEF InLoop
<1>4. \A n \in 1..(Len(frames) - 1) :
        RemainingIn(g, dbs, frames[n]) = RemainingIn(heap, databases, frames[n])
  <2> TAKE n \in 1..(Len(frames) - 1)
  <2>1. PICK f \in FrameType : f = frames[n]
    BY <1>3
  <2>2. /\ \A w \in {"before", "after"} : databases[w][Index[f.sig]] \in Dbs \cup {NoDb}
        /\ \A x \in Dbs : g.store[x].nodes = heap.store[x].nodes
        /\ \A w \in {"before", "after"} : dbs[w] = databases[w]
        /\ f.op = "exec" => g.store[f.db].ptr = heap.store[f.db].ptr
    BY <2>1, DatabasesNow DEF Remains, Places
  <2> QED
    BY <2>1, <2>2, RemainingSame DEF SameWay
<1>5. \A n \in 1..(Len(frames) - 1) : RemainingIn(heap, databases, frames[n]) \in Seq(Procs)
  BY <1>1, <1>3, DatabasesNow, RemainingType
<1>6. Sized(g, dbs, Popped) /\ Sized(heap, databases, Popped)
  BY <1>2, <1>4, <1>5 DEF Sized
<1>7. TodoOf(g, dbs, Popped) = TodoOf(heap, databases, Popped)
  BY <1>2, <1>4, TodoSame
<1>8. TodoOf(heap, databases, Popped) \in Seq(Procs)
  BY <1>2, <1>6, InwardType
<1> QED
  BY <1>2, <1>6, <1>7, <1>8

\* ... and what they have when the innermost goes on as f, ...
LEMMA TodoTop ==
  ASSUME QuietInv, frames # <<>>, NEW g, NEW dbs, Remains(g, dbs), NEW f \in FrameType, InLoop(g, f)
  PROVE  /\ RemainingIn(g, dbs, f) \in Seq(Procs)
         /\ Append(Popped, f) \in Seq(FrameType) /\ Sized(g, dbs, Append(Popped, f))
         /\ TodoOf(g, dbs, Append(Popped, f)) =
              Joined(RemainingIn(g, dbs, f), TodoOf(heap, databases, Popped))
<1>1. RemainingIn(g, dbs, f) \in Seq(Procs)
  BY RemainingType DEF Remains
<1>2. PICK s : s = Popped
  OBVIOUS
<1>3. /\ s \in Seq(FrameType) /\ Sized(g, dbs, s) /\ TodoOf(g, dbs, s) = TodoOf(heap, databases, s)
  BY <1>2, TodoWaiting
<1>4. /\ Append(s, f) \in Seq(FrameType) /\ Sized(g, dbs, Append(s, f))
      /\ TodoOf(g, dbs, Append(s, f)) = Joined(RemainingIn(g, dbs, f), TodoOf(g, dbs, s))
  BY <1>1, <1>3, TodoPush
<1> QED
  BY <1>1, <1>2, <1>3, <1>4

\* ... and calls e.
LEMMA TodoCall ==
  ASSUME QuietInv, frames # <<>>, NEW g, NEW dbs, Remains(g, dbs), NEW f \in FrameType, InLoop(g, f),
         NEW e \in FrameType, InLoop(g, e)
  PROVE  /\ RemainingIn(g, dbs, e) \in Seq(Procs)
         /\ TodoOf(g, dbs, Append(Append(Popped, f), e)) =
              Joined(RemainingIn(g, dbs, e),
                     Joined(RemainingIn(g, dbs, f), TodoOf(heap, databases, Popped)))
<1>1. RemainingIn(g, dbs, e) \in Seq(Procs)
  BY RemainingType DEF Remains
<1>2. PICK s : s = Append(Popped, f)
  OBVIOUS
<1>3. /\ s \in Seq(FrameType) /\ Sized(g, dbs, s)
      /\ TodoOf(g, dbs, s) = Joined(RemainingIn(g, dbs, f), TodoOf(heap, databases, Popped))
  BY <1>2, TodoTop
<1>4. TodoOf(g, dbs, Append(s, e)) = Joined(RemainingIn(g, dbs, e), TodoOf(g, dbs, s))
  BY <1>1, <1>3, TodoPush
<1> QED
  BY <1>1, <1>2, <1>3, <1>4

\* Before a step of a loop or an emission ...
LEMMA TodoBefore ==
  ASSUME QuietInv, frames # <<>>
  PROVE  /\ running = Top.proc
         /\ Top.sig \in halted => todo = <<>>
         /\ Top.sig \notin halted /\ InLoop(heap, Top) =>
              /\ RemainingIn(heap, databases, Top) \in Seq(Procs)
              /\ todo = Joined(RemainingIn(heap, databases, Top), TodoOf(heap, databases, Popped))
<1>1. Top \in FrameType /\ Top.sig = frames[1].sig /\ frames \in Seq(FrameType)
  BY QuietTop, QuietFields
<1>2. frames = Append(Popped, Top)
  BY <1>1, LastFrame
<1>3. todo = IF Top.sig \in halted THEN <<>> ELSE TodoOf(heap, databases, frames)
  BY <1>1, TodoNow DEF Todo
<1>4. ASSUME InLoop(heap, Top)
      PROVE  /\ RemainingIn(heap, databases, Top) \in Seq(Procs)
             /\ TodoOf(heap, databases, frames) =
                  Joined(RemainingIn(heap, databases, Top), TodoOf(heap, databases, Popped))
  <2>1. PICK f \in FrameType : f = Top
    BY <1>1
  <2>2. /\ RemainingIn(heap, databases, f) \in Seq(Procs)
        /\ TodoOf(heap, databases, Append(Popped, f)) =
             Joined(RemainingIn(heap, databases, f), TodoOf(heap, databases, Popped))
    BY <1>4, <2>1, RemainsNow, TodoTop
  <2> QED
    BY <1>2, <2>1, <2>2
<1>5. running = Top.proc
  BY DEF running, Idle
<1> QED
  BY <1>3, <1>4, <1>5

\* ... and after it.
LEMMA TodoAfter ==
  ASSUME QuietInv', NEW s \in Seq(FrameType), NEW f \in FrameType, frames' = Append(s, f)
  PROVE  /\ running' = f.proc
         /\ todo' = IF f.sig \in halted' THEN <<>> ELSE TodoOf(heap', databases', frames')
<1>1. PICK t : t = Append(s, f)
  OBVIOUS
<1>2. /\ t \in Seq(FrameType) /\ Len(t) = Len(s) + 1 /\ t[Len(t)] = f /\ t # <<>>
      /\ Len(s) \in Nat /\ DOMAIN t = 1..Len(t)
  BY <1>1, PushType, LenProperties, EmptySeq
<1>3. Walks(t, heap')
  BY <1>1 DEF QuietInv
<1>4. f.sig = t[1].sig
  <2>1. Len(t) \in DOMAIN t
    BY <1>2
  <2> QED
    BY <1>2, <1>3, <2>1 DEF Walks
<1>5. todo' = IF f.sig \in halted' THEN <<>> ELSE TodoOf(heap', databases', frames')
  BY <1>1, <1>2, <1>4, TodoNext DEF Todo
<1>6. running' = f.proc
  BY <1>1, <1>2 DEF running, Idle, Top
<1> QED
  BY <1>5, <1>6

\* The innermost frame goes on and leaves the emission as much to run, ...
LEMMA TopStays ==
  ASSUME QuietInv, QuietInv', frames # <<>>, UNCHANGED halted, Remains(heap', databases'),
         InLoop(heap, Top), Top.proc = NoProc,
         NEW f, Updates(f), f.proc = NoProc, InLoop(heap', f), frames' = Append(Popped, f),
         Top.sig \notin halted =>
           RemainingIn(heap', databases', f) = RemainingIn(heap, databases, Top)
  PROVE  UNCHANGED <<todo, running>>
<1>1. f \in FrameType /\ f.sig = Top.sig /\ Popped \in Seq(FrameType)
  BY QuietFields, PoppedType DEF Updates
<1>2. /\ running' = NoProc
      /\ todo' = IF Top.sig \in halted THEN <<>> ELSE TodoOf(heap', databases', frames')
  BY <1>1, TodoAfter
<1>3. TodoOf(heap', databases', frames') =
        Joined(RemainingIn(heap', databases', f), TodoOf(heap, databases, Popped))
  BY <1>1, TodoTop
<1> HIDE DEF Top
<1> QED
  BY <1>2, <1>3, TodoBefore

\* ... or calls a loop that runs a part of it, ...
LEMMA CallStays ==
  ASSUME QuietInv, QuietInv', frames # <<>>, UNCHANGED halted, Remains(heap', databases'),
         InLoop(heap, Top), Top.proc = NoProc,
         NEW f, Updates(f), InLoop(heap', f),
         NEW e \in FrameType, e.sig = Top.sig, e.proc = NoProc, InLoop(heap', e),
         frames' = Append(Append(Popped, f), e),
         Top.sig \notin halted =>
           Joined(RemainingIn(heap', databases', e), RemainingIn(heap', databases', f)) =
             RemainingIn(heap, databases, Top)
  PROVE  UNCHANGED <<todo, running>>
<1>1. f \in FrameType
  BY DEF Updates
<1>2. Append(Popped, f) \in Seq(FrameType) /\ RemainingIn(heap', databases', f) \in Seq(Procs)
  BY <1>1, TodoTop
<1>3. /\ running' = NoProc
      /\ todo' = IF Top.sig \in halted THEN <<>> ELSE TodoOf(heap', databases', frames')
  BY <1>2, TodoAfter
<1>4. PICK r, t, b : /\ r = RemainingIn(heap', databases', e) /\ t = RemainingIn(heap', databases', f)
                     /\ b = TodoOf(heap, databases, Popped)
  OBVIOUS
<1>5. /\ r \in Seq(Procs) /\ t \in Seq(Procs) /\ b \in Seq(Procs)
      /\ TodoOf(heap', databases', frames') = Joined(r, Joined(t, b))
  BY <1>1, <1>2, <1>4, TodoCall, TodoWaiting
<1>6. Joined(Joined(r, t), b) = Joined(r, Joined(t, b))
  BY <1>5, JoinedFollow
<1> HIDE DEF Top
<1> QED
  BY <1>3, <1>4, <1>5, <1>6, TodoBefore

\* ... or comes to its end with nothing left.
LEMMA PopStays ==
  ASSUME QuietInv, frames # <<>>, UNCHANGED <<halted, heap, databases>>,
         InLoop(heap, Top), Top.proc = NoProc, frames' = Popped,
         Top.sig \notin halted => RemainingIn(heap, databases, Top) = <<>>
  PROVE  UNCHANGED <<todo, running>>
<1>1. /\ frames \in Seq(FrameType) /\ Nested(frames) /\ DOMAIN frames = 1..Len(frames)
      /\ Len(frames) \in 1..3 /\ Top.sig = frames[1].sig
  BY QuietFields, QuietTop
<1>2. PICK s : s = Popped
  OBVIOUS
<1>3. /\ s \in Seq(FrameType) /\ Len(s) = Len(frames) - 1
      /\ \A n \in 1..(Len(frames) - 1) : s[n] = frames[n]
  BY <1>1, <1>2, PoppedType
<1>4. /\ todo' = IF s = <<>> \/ s[1].sig \in halted THEN <<>> ELSE TodoOf(heap, databases, s)
      /\ running' = IF s = <<>> THEN NoProc ELSE s[Len(s)].proc
  BY <1>2, TodoNext DEF Todo, running, Idle, Top
<1>5. TodoOf(heap, databases, s) \in Seq(Procs)
  BY <1>2, RemainsNow, TodoWaiting
<1>6. todo = IF Top.sig \in halted THEN <<>> ELSE TodoOf(heap, databases, s)
  <2>1. Joined(<<>>, TodoOf(heap, databases, s)) = TodoOf(heap, databases, s)
    BY <1>5, JoinedEmpty
  <2> HIDE DEF Top
  <2> QED
    BY <1>2, <2>1, TodoBefore
<1>7. CASE s = <<>>
  BY <1>4, <1>6, <1>7, TodoNone, TodoBefore
<1>8. CASE s # <<>>
  <2>1. Len(frames) - 1 \in 1..(Len(frames) - 1) /\ 1 \in 1..(Len(frames) - 1)
    BY <1>1, <1>3, <1>8, EmptySeq
  <2>2. s[1].sig = Top.sig /\ s[Len(s)] = frames[Len(frames) - 1]
    BY <1>1, <1>3, <2>1
  <2>3. frames[Len(frames) - 1].pc # "running"
    BY <2>1, QuietTop
  <2>4. frames[Len(frames) - 1].proc = NoProc
    <3>1. Len(frames) - 1 \in DOMAIN frames
      BY <1>1, <2>1
    <3> QED
      BY <1>1, <2>3, <3>1 DEF Nested
  <2>5. running' = NoProc /\ running = NoProc
    BY <1>4, <1>8, <2>2, <2>4, TodoBefore
  <2> HIDE DEF Top
  <2> QED
    BY <1>4, <1>6, <1>8, <2>2, <2>5
<1> QED
  BY <1>7, <1>8

\* A pointer moves, of a database whose loop is not one that waits.
LEMMA RemainsNext ==
  ASSUME QuietInv, QuietInv', Unaltered(heap, heap'), UNCHANGED databases, NEW d \in Dbs,
         \A x \in Dbs : x # d => heap'.store[x] = heap.store[x],
         \A n \in 1..(Len(frames) - 1) :
           frames[n].op = "exec" => frames[n].db \in Dbs /\ frames[n].db # d
  PROVE  Remains(heap', databases')
<1>1. heap' \in HeapType /\ Once(heap')
  BY DEF QuietInv, PlacedInv, OnceInv, GroundedInv, ForestInv, TypeInv, TypeOK
<1>2. databases \in [Places -> [Idx -> Dbs \cup {NoDb}]]
  BY DatabasesNow
<1> QED
  BY <1>1, <1>2 DEF Remains, Unaltered

\* A loop over d begins: the caller leaves to it what d has to run.
LEMMA ExecuteStays ==
  ASSUME QuietInv, QuietInv', frames # <<>>, NEW d \in Dbs, NEW pc \in Pcs, Execute(d, pc),
         \/ Top.op = "emit" /\ pc \notin {"running", "next"}
         \/ /\ Top.op = "exec" /\ pc = "next"
            /\ valid(heap.store[Top.db]) /\ current(heap.store[Top.db]) = d,
         Top.proc = NoProc, InLoop(heap, Top), NEW f, f = [Top EXCEPT !.pc = pc],
         Top.sig \notin halted =>
           Joined(FlatIn(heap, d, 1), RemainingIn(heap, databases, f)) = RemainingIn(heap, databases, Top)
  PROVE  UNCHANGED <<todo, running>>
<1>1. /\ frames \in Seq(FrameType) /\ heap \in HeapType /\ Top \in FrameType /\ Top.db \in Dbs
      /\ TypeOK
  BY QuietFields, QuietTop
<1>2. /\ Updates(f) /\ f.pc = pc /\ f.op = Top.op /\ f.db = Top.db /\ f.sig = Top.sig /\ f \in FrameType
  BY <1>1, LastFrame DEF Updates
<1>3. PICK e : e = ExecFrame(Top.sig, d)
  OBVIOUS
<1>4. /\ e \in FrameType /\ e.op = "exec" /\ e.pc = "fetch" /\ e.db = d /\ e.sig = Top.sig /\ e.proc = NoProc
      /\ frames' = Append(Append(Popped, f), e)
      /\ heap' = [heap EXCEPT !.store[d] = reset(@)]
      /\ Top.op = "exec" => d # Top.db /\ Len(frames) # 3
  BY <1>3, QuietExecute DEF ExecFrame
<1>5. /\ Unaltered(heap, heap') /\ UNCHANGED databases /\ UNCHANGED halted
  BY <1>1, ExecuteUnaltered DEF Execute
<1>6. /\ heap'.store[d] = reset(heap.store[d]) /\ \A x \in Dbs : x # d => heap'.store[x] = heap.store[x]
  BY <1>1, <1>4, StoreMoved
<1>7. heap'.store[d].ptr = 1
  BY <1>1, <1>6, HeapFields DEF StorageType, reset
<1>8. \A n \in 1..(Len(frames) - 1) : frames[n].op # "exec"
  <2> TAKE n \in 1..(Len(frames) - 1)
  <2>1. frames[n].op # "emit" => Len(frames) = 3
    BY QuietTop
  <2>2. Len(frames) # 3
    BY <1>4, QuietTop
  <2> QED
    BY <2>1, <2>2
<1>9. Remains(heap', databases')
  BY <1>5, <1>6, <1>8, RemainsNext
<1>10. RemainingIn(heap', databases', f) = RemainingIn(heap, databases, f)
  <2>1. f.op = "exec" => heap'.store[f.db].ptr = heap.store[f.db].ptr
    BY <1>1, <1>2, <1>4, <1>6
  <2>2. \A w \in {"before", "after"} : databases[w][Index[f.sig]] \in Dbs \cup {NoDb}
    BY <1>2, DatabasesNow DEF Places
  <2> QED
    <3>1. PICK g, dbs : g = heap' /\ dbs = databases'
      OBVIOUS
    <3>2. /\ \A x \in Dbs : g.store[x].nodes = heap.store[x].nodes
          /\ \A v \in {"before", "after"} : dbs[v] = databases[v]
          /\ f.op = "exec" => g.store[f.db].ptr = heap.store[f.db].ptr
      BY <1>5, <2>1, <3>1 DEF Unaltered
    <3>3. SameWay(g, dbs, heap, databases, f)
      BY <1>2, <2>2, <3>2 DEF SameWay
    <3>4. RemainingIn(g, dbs, f) = RemainingIn(heap, databases, f)
      BY <3>3, RemainingSame
    <3> QED
      BY <3>1, <3>4
<1>11. RemainingIn(heap', databases', e) = FlatIn(heap, d, 1)
  <2>1. RemainingIn(heap', databases', e) = FlatIn(heap', d, 1)
    <3>1. PICK g, dbs : g = heap' /\ dbs = databases'
      OBVIOUS
    <3>2. g.store[d].ptr = 1
      BY <1>7, <3>1
    <3> HIDE DEF Top
    <3>3. RemainingIn(g, dbs, e) = FlatIn(g, d, 1)
      BY <1>4, <3>2, RemainingForms
    <3> QED
      BY <3>1, <3>3
  <2> QED
    BY <1>5, <2>1, FlatSame DEF Unaltered
<1>12. InLoop(heap', f) /\ InLoop(heap', e)
  BY <1>1, <1>2, <1>4, <1>6 DEF InLoop
<1> HIDE DEF Top, Popped
<1> QED
  BY <1>2, <1>4, <1>5, <1>9, <1>10, <1>11, <1>12, CallStays

\* An interruption runs, or there is none.
LEMMA InterruptStays ==
  ASSUME QuietInv, QuietInv', frames # <<>>, Top.op = "emit", NEW w \in Places, NEW pc \in Pcs,
         pc \notin {"running", "next"}, Interrupt(w, pc), Top.proc = NoProc,
         NEW f, f = [Top EXCEPT !.pc = pc],
         RemainingIn(heap, databases, Top) =
           Joined(FlatFor(heap, Find(w, Top.sig)), RemainingIn(heap, databases, f))
  PROVE  UNCHANGED <<todo, running>>
<1>1. TypeOK /\ frames \in Seq(FrameType) /\ Top \in FrameType /\ Top.sig \in Sigs
  BY QuietFields, QuietTop, FrameFields
<1>2. Find(w, Top.sig) \in Dbs \cup {NoDb}
  BY <1>1, FindType
<1>3. InLoop(heap, Top)
  BY DEF InLoop
<1>4. CASE Find(w, Top.sig) # NoDb
  <2>1. PICK d \in Dbs : d = Find(w, Top.sig)
    BY <1>2, <1>4
  <2>2. Execute(d, pc) /\ FlatFor(heap, Find(w, Top.sig)) = FlatIn(heap, d, 1)
    BY <1>4, <2>1 DEF Interrupt, FlatFor
  <2> HIDE DEF Top
  <2> QED
    BY <1>3, <2>2, ExecuteStays
<1>5. CASE Find(w, Top.sig) = NoDb
  <2>1. /\ frames' = Append(Popped, f) /\ UNCHANGED <<heap, databases, halted>>
        /\ Updates(f) /\ f.pc = pc /\ f.proc = Top.proc
    BY <1>1, <1>5, LastFrame DEF Interrupt
  <2>2. RemainingIn(heap, databases, f) \in Seq(Procs)
    <3>1. f \in FrameType /\ InLoop(heap, f) /\ heap \in HeapType /\ Once(heap)
      BY <2>1, QuietFields DEF Updates, InLoop
    <3> QED
      BY <3>1, DatabasesNow, RemainingType
  <2>3. RemainingIn(heap, databases, Top) = RemainingIn(heap, databases, f)
    BY <1>5, <2>2, JoinedEmpty DEF FlatFor
  <2>4. Remains(heap', databases') /\ InLoop(heap', f)
    <3>1. Remains(heap, databases) /\ InLoop(heap, f)
      BY <2>1, RemainsNow DEF Updates, InLoop
    <3> QED
      BY <2>1, <3>1
  <2>5. RemainingIn(heap', databases', f) = RemainingIn(heap, databases, Top)
    BY <2>1, <2>3
  <2> HIDE DEF Top, Popped, Updates
  <2> QED
    BY <1>3, <2>1, <2>4, <2>5, TopStays
<1> QED
  BY <1>4, <1>5

\* A loop that leaves a node, or the sub-database in it, has run it.
LEMMA NextRemains ==
  ASSUME QuietInv, QuietInv', frames # <<>>, Top.op = "exec", Top.pc \in {"running", "next"},
         heap' = [heap EXCEPT !.store[Top.db] = next(@)], UNCHANGED databases,
         NEW f, Updates(f), f.pc = "fetch"
  PROVE  /\ Remains(heap', databases') /\ InLoop(heap, Top) /\ InLoop(heap', f)
         /\ RemainingIn(heap', databases', f) = RemainingIn(heap, databases, Top)
<1>1. PICK d \in Dbs : d = Top.db
  BY QuietTop
<1>2. heap \in HeapType /\ valid(heap.store[d])
  BY <1>1, QuietFields, QuietTop
<1>3. Unaltered(heap, heap') /\ heap' = [heap EXCEPT !.store[d] = next(@)]
  BY <1>1, <1>2, IteratedUnaltered
<1>4. heap'.store[d] = next(heap.store[d]) /\ \A x \in Dbs : x # d => heap'.store[x] = heap.store[x]
  <2>1. PICK g : g = [heap EXCEPT !.store[d] = next(@)]
    OBVIOUS
  <2>2. g.store[d] = next(heap.store[d]) /\ \A x \in Dbs : x # d => g.store[x] = heap.store[x]
    BY <1>2, <2>1, StoreMoved
  <2>3. heap' = g
    BY <1>3, <2>1
  <2> QED
    BY <2>2, <2>3
<1>5. heap'.store[d].ptr = heap.store[d].ptr + 1
  BY <1>2, <1>4, HeapFields DEF StorageType, next
<1>6. \A n \in 1..(Len(frames) - 1) :
        frames[n].op = "exec" => frames[n].db \in Dbs /\ frames[n].db # d
  <2> TAKE n \in 1..(Len(frames) - 1)
  <2>1. frames[n].op # "emit" => frames[n].db \in Dbs /\ frames[n].db # Top.db
    BY QuietTop
  <2> QED
    BY <1>1, <2>1
<1>7. Remains(heap', databases')
  BY <1>3, <1>4, <1>6, RemainsNext
<1>8. f.op = "exec" /\ f.db = d /\ f.sig = Top.sig
  BY <1>1 DEF Updates
<1>9. InLoop(heap, Top) /\ InLoop(heap', f)
  BY <1>1, <1>2, <1>8 DEF InLoop
<1>10. RemainingIn(heap', databases', f) = RemainingIn(heap, databases, Top)
  <2>1. PICK g, dbs, k : g = heap' /\ dbs = databases' /\ k = heap.store[d].ptr + 1
    OBVIOUS
  <2>2. g.store[d].ptr = k /\ \A x \in Dbs : g.store[x].nodes = heap.store[x].nodes
    BY <1>3, <1>5, <2>1 DEF Unaltered
  <2>3. RemainingIn(g, dbs, f) = FlatIn(g, d, k)
    BY <1>8, <2>2, RemainingForms
  <2>4. RemainingIn(heap, databases, Top) = FlatIn(heap, d, k)
    <3>1. RemainingIn(heap, databases, Top) = FlatIn(heap, Top.db, heap.store[Top.db].ptr + 1)
      BY RemainingForms
    <3> QED
      BY <1>1, <2>1, <3>1
  <2>5. FlatIn(g, d, k) = FlatIn(heap, d, k)
    BY <2>2, FlatSame
  <2> QED
    BY <2>1, <2>3, <2>4, <2>5
<1> QED
  BY <1>7, <1>9, <1>10

LEMMA EmitStays ==
  ASSUME QuietInv, QuietInv', EmitBefore \/ EmitMain \/ EmitAfter
  PROVE  UNCHANGED <<todo, running>>
<1> USE DEF Pcs, Places
<1>1. TypeOK /\ frames \in Seq(FrameType) /\ heap \in HeapType /\ Once(heap)
  BY QuietFields
<1>2. (\E pc : On("emit", pc)) /\ Top.pc # "running"
  BY DEF EmitBefore, EmitMain, EmitAfter, On
<1>3. frames # <<>> /\ Top \in FrameType /\ Top.op = "emit" /\ Top.db \in Dbs /\ Top.sig \in Sigs
  BY <1>1, <1>2, OnType
<1>4. Top.proc = NoProc /\ InLoop(heap, Top)
  BY <1>2, <1>3, QuietTop DEF InLoop
<1>5. PICK b, m, a : /\ b = FlatFor(heap, Find("before", Top.sig)) /\ m = FlatFor(heap, Top.db)
                     /\ a = FlatFor(heap, Find("after", Top.sig))
  OBVIOUS
<1>6. b \in Seq(Procs) /\ m \in Seq(Procs) /\ a \in Seq(Procs)
  BY <1>1, <1>3, <1>5, FindType, FlatForType
<1>7. /\ Joined(Joined(b, m), a) = Joined(b, Joined(m, a)) /\ Joined(a, <<>>) = a
  BY <1>6, JoinedFollow, JoinedEmpty
<1>8. ASSUME NEW pc \in Pcs, NEW f, f = [Top EXCEPT !.pc = pc]
      PROVE  f.op = "emit" /\ f.pc = pc /\ f.db = Top.db /\ f.sig = Top.sig
  BY <1>3, <1>8 DEF FrameType
<1>9. ASSUME NEW f, f.op = "emit", f.db = Top.db, f.sig = Top.sig
      PROVE  /\ f.pc = "start" => RemainingIn(heap, databases, f) = Joined(Joined(b, m), a)
             /\ f.pc = "main" => RemainingIn(heap, databases, f) = Joined(m, a)
             /\ f.pc = "after" => RemainingIn(heap, databases, f) = a
             /\ f.pc = "done" => RemainingIn(heap, databases, f) = <<>>
  <2>1. /\ FlatFor(heap, databases["before"][Index[f.sig]]) = b
        /\ FlatFor(heap, databases["after"][Index[f.sig]]) = a
        /\ FlatFor(heap, f.db) = m
    BY <1>5, <1>9 DEF Find
  <2> HIDE DEF Top
  <2> QED
    BY <1>9, <2>1, RemainingForms
<1>10. CASE EmitBefore
  <2>1. PICK f : f = [Top EXCEPT !.pc = "main"]
    OBVIOUS
  <2>2. RemainingIn(heap, databases, Top) = Joined(b, RemainingIn(heap, databases, f))
    BY <1>3, <1>7, <1>8, <1>9, <1>10, <2>1 DEF EmitBefore, On
  <2> QED
    BY <1>3, <1>4, <1>5, <1>10, <2>1, <2>2, InterruptStays DEF EmitBefore
<1>11. CASE EmitMain
  <2>1. PICK f : f = [Top EXCEPT !.pc = "after"]
    OBVIOUS
  <2>2. RemainingIn(heap, databases, Top) = Joined(m, RemainingIn(heap, databases, f))
    BY <1>3, <1>8, <1>9, <1>11, <2>1 DEF EmitMain, On
  <2>3. m = FlatIn(heap, Top.db, 1)
    BY <1>3, <1>5, NothingType DEF FlatFor
  <2> QED
    BY <1>3, <1>4, <1>11, <2>1, <2>2, <2>3, ExecuteStays DEF EmitMain
<1>12. CASE EmitAfter
  <2>1. PICK f : f = [Top EXCEPT !.pc = "done"]
    OBVIOUS
  <2>2. RemainingIn(heap, databases, Top) = Joined(a, RemainingIn(heap, databases, f))
    BY <1>3, <1>7, <1>8, <1>9, <1>12, <2>1 DEF EmitAfter, On
  <2> QED
    BY <1>3, <1>4, <1>5, <1>12, <2>1, <2>2, InterruptStays DEF EmitAfter
<1> QED
  BY <1>10, <1>11, <1>12

\* A loop that is on a node begins with what the node gives.
LEMMA FetchRemains ==
  ASSUME QuietInv, frames # <<>>, Top.op = "exec", Top.pc = "fetch", valid(heap.store[Top.db])
  PROVE  /\ RemainingIn(heap, databases, Top) =
              Joined(Branch(heap, current(heap.store[Top.db])),
                     FlatIn(heap, Top.db, heap.store[Top.db].ptr + 1))
         /\ FlatIn(heap, Top.db, heap.store[Top.db].ptr + 1) \in Seq(Procs)
<1>1. heap \in HeapType /\ Once(heap) /\ Top.db \in Dbs
  BY QuietFields, QuietTop
<1>2. PICK d, k : d \in Dbs /\ d = Top.db /\ k = heap.store[d].ptr
  BY <1>1
<1>3. k \in DOMAIN heap.store[d].nodes /\ current(heap.store[d]) = heap.store[d].nodes[k].val
  BY <1>2 DEF valid, current
<1>4. FlatIn(heap, d, k) = Joined(Branch(heap, heap.store[d].nodes[k].val), FlatIn(heap, d, k + 1))
  BY <1>1, <1>2, <1>3, FlatStep
<1>5. RemainingIn(heap, databases, Top) = FlatIn(heap, d, k)
  <2>1. RemainingIn(heap, databases, Top) = FlatIn(heap, Top.db, heap.store[Top.db].ptr)
    BY RemainingForms
  <2> QED
    BY <1>2, <2>1
<1>6. FlatIn(heap, d, k + 1) \in Seq(Procs)
  <2>1. k + 1 \in 1..(Len(heap.store[d].nodes) + 1)
    <3>1. Len(heap.store[d].nodes) \in Nat /\ k \in 1..Len(heap.store[d].nodes)
      BY <1>1, <1>2, <1>3, NodesOf
    <3> QED
      BY <3>1
  <2> QED
    BY <1>1, <1>2, <2>1, AheadType
<1> QED
  BY <1>2, <1>3, <1>4, <1>5, <1>6

LEMMA ExecStays ==
  ASSUME QuietInv, QuietInv', EmitEnd \/ ExecEnd \/ ExecSubDatabase \/ Advance
  PROVE  UNCHANGED <<todo, running>>
<1> USE DEF Pcs
<1>1. TypeOK /\ frames \in Seq(FrameType) /\ heap \in HeapType /\ Once(heap) /\ Unmerged
  BY QuietFields
<1>2. (\E op, pc : On(op, pc)) /\ Top.pc # "running"
  BY DEF EmitEnd, ExecEnd, ExecSubDatabase, Advance, On
<1>3. frames # <<>> /\ Top \in FrameType /\ Top.db \in Dbs /\ Top.sig \in Sigs
  BY <1>1, <1>2, OnType
<1>4. Top.proc = NoProc /\ Top.loop = Top.db
  BY <1>2, <1>3, QuietTop
<1>5. CASE EmitEnd
  <2>1. /\ Top.op = "emit" /\ Top.pc = "done" /\ frames' = Popped
        /\ UNCHANGED <<halted, heap, databases>>
    BY <1>5 DEF EmitEnd, On
  <2>2. RemainingIn(heap, databases, Top) = <<>> /\ InLoop(heap, Top)
    BY <2>1, RemainingForms DEF InLoop
  <2> QED
    BY <1>3, <1>4, <2>1, <2>2, PopStays
<1>6. CASE ExecEnd
  <2>1. /\ Top.op = "exec" /\ Top.pc = "fetch" /\ frames' = Popped
        /\ ~valid(heap.store[Top.db]) \/ Top.sig \in halted
        /\ UNCHANGED <<halted, heap, databases>>
    BY <1>4, <1>6 DEF ExecEnd, On
  <2>2. ASSUME Top.sig \notin halted
        PROVE  RemainingIn(heap, databases, Top) = <<>>
    <3>1. PICK d, k : d \in Dbs /\ d = Top.db /\ k = heap.store[d].ptr
      BY <1>3
    <3>2. k \in Nat \ {0} /\ k = Len(heap.store[d].nodes) + 1
      <4>1. heap.store[d] \in StorageType
        BY <1>1, <3>1, HeapFields
      <4> QED
        BY <2>1, <2>2, <3>1, <4>1, StorageFields DEF valid
    <3>3. FlatIn(heap, d, k) = <<>>
      BY <1>1, <3>1, <3>2, FlatEnd
    <3>4. RemainingIn(heap, databases, Top) = FlatIn(heap, Top.db, heap.store[Top.db].ptr)
      BY <2>1, RemainingForms
    <3> QED
      BY <3>1, <3>3, <3>4
  <2>3. InLoop(heap, Top)
    BY <2>1 DEF InLoop
  <2> QED
    BY <1>3, <1>4, <2>1, <2>2, <2>3, PopStays
<1>7. CASE ExecSubDatabase
  <2>1. /\ Top.op = "exec" /\ Top.pc = "fetch" /\ valid(heap.store[Top.db])
        /\ Fetched = current(heap.store[Top.db]) /\ Fetched \in Dbs /\ Execute(Fetched, "next")
    BY <1>4, <1>7 DEF ExecSubDatabase, On, Fetched
  <2>2. PICK v, f : v \in Dbs /\ v = Fetched /\ f = [Top EXCEPT !.pc = "next"]
    BY <2>1
  <2>3. v \in vals(heap.store[Top.db])
    BY <2>1, <2>2 DEF valid, current, vals
  <2>4. FlatIn(heap, v, 1) = Branch(heap, v)
    BY <1>1, <1>3, <2>2, <2>3, FlatSub
  <2>5. RemainingIn(heap, databases, f) = FlatIn(heap, Top.db, heap.store[Top.db].ptr + 1)
    <3>1. f.op = "exec" /\ f.pc = "next" /\ f.db = Top.db
      BY <1>3, <2>1, <2>2 DEF FrameType
    <3>2. RemainingIn(heap, databases, f) = FlatIn(heap, f.db, heap.store[f.db].ptr + 1)
      BY <3>1, RemainingForms
    <3> QED
      BY <3>1, <3>2
  <2>6. Joined(FlatIn(heap, v, 1), RemainingIn(heap, databases, f)) = RemainingIn(heap, databases, Top)
    <3>1. RemainingIn(heap, databases, Top) =
            Joined(Branch(heap, current(heap.store[Top.db])),
                   FlatIn(heap, Top.db, heap.store[Top.db].ptr + 1))
      BY <1>3, <2>1, FetchRemains
    <3> QED
      BY <2>1, <2>2, <2>4, <2>5, <3>1
  <2>7. InLoop(heap, Top) /\ Execute(v, "next") /\ v = current(heap.store[Top.db])
    BY <2>1, <2>2 DEF InLoop
  <2> QED
    BY <1>3, <1>4, <2>1, <2>2, <2>6, <2>7, ExecuteStays
<1>8. CASE Advance
  <2>1. /\ Top.op = "exec" /\ Top.pc = "next" /\ frames' = At("fetch")
        /\ heap' = [heap EXCEPT !.store[Top.db] = next(@)] /\ UNCHANGED <<halted, databases>>
    <3>1. Top.op = "exec" /\ Top.pc = "next"
      BY <1>1, <1>8, TopAlone DEF Advance, On
    <3> QED
      BY <1>4, <1>8, <3>1 DEF Advance
  <2>2. PICK f : f = [Top EXCEPT !.pc = "fetch"]
    OBVIOUS
  <2>3. frames' = Append(Popped, f) /\ Updates(f) /\ f.pc = "fetch" /\ f.proc = NoProc
    BY <1>1, <1>3, <1>4, <2>1, <2>2, LastFrame
  <2>4. /\ Remains(heap', databases') /\ InLoop(heap, Top) /\ InLoop(heap', f)
        /\ RemainingIn(heap', databases', f) = RemainingIn(heap, databases, Top)
    BY <1>3, <2>1, <2>3, NextRemains
  <2> QED
    BY <1>3, <1>4, <2>1, <2>3, <2>4, TopStays
<1> QED
  BY <1>5, <1>6, <1>7, <1>8

LEMMA PointersStay ==
  ASSUME QuietInv, QuietInv', Pointers
  PROVE  UNCHANGED <<todo, running>>
<1>1. TypeOK /\ Unmerged /\ (\E op, pc : On(op, pc))
  BY QuietFields DEF Pointers, Accept, Reject, MergeSubDatabase, MergeFatal, MergeEnd,
         EmitBefore, EmitMain, EmitAfter, EmitEnd, ExecEnd, ExecSubDatabase, Advance
<1>2. Top.pending = <<>> /\ Top.op # "merge"
  BY <1>1, TopAlone
<1>3. CASE Accept \/ Reject \/ MergeSubDatabase \/ MergeFatal \/ MergeEnd
  BY <1>2, <1>3 DEF Accept, Reject, MergeSubDatabase, MergeFatal, MergeEnd, On
<1>4. CASE EmitBefore \/ EmitMain \/ EmitAfter
  BY <1>4, EmitStays
<1>5. CASE EmitEnd \/ ExecEnd \/ ExecSubDatabase \/ Advance
  BY <1>5, ExecStays
<1> QED
  BY <1>3, <1>4, <1>5 DEF Pointers

\* A process begins to run: it is the next one of the emission.
LEMMA ExecProcessRuns ==
  ASSUME QuietInv, QuietInv', ExecProcess
  PROVE  E!Run
<1> USE DEF Pcs
<1>1. TypeOK /\ frames \in Seq(FrameType) /\ heap \in HeapType /\ Once(heap) /\ OnceInv
  BY QuietFields
<1>2. /\ frames # <<>> /\ Top.db \in Dbs /\ Fetched \in Procs /\ frames' = WithProc("running", Fetched)
  BY <1>1, ExecProcessMoves
<1>3. /\ Top.op = "exec" /\ Top.pc = "fetch" /\ Top.sig \notin halted /\ UNCHANGED <<halted, databases>>
      /\ heap'.store = heap.store /\ Top.loop = Top.db
      /\ valid(heap.store[Top.db]) /\ Fetched = current(heap.store[Top.db])
  <2>1. heap'.store = heap.store
    BY <1>1 DEF ExecProcess, HeapType
  <2> QED
    BY <1>2, <2>1, QuietTop DEF ExecProcess, On, Fetched
<1>4. PICK p \in Procs : p = Fetched
  BY <1>2
<1>5. PICK f : frames' = Append(Popped, f) /\ Updates(f) /\ f.pc = "running" /\ f.proc = p
  BY <1>1, <1>2, <1>4, ProcFrame
<1>6. PICK rest, base : /\ rest = FlatIn(heap, Top.db, heap.store[Top.db].ptr + 1)
                        /\ base = TodoOf(heap, databases, Popped)
  OBVIOUS
<1>7. rest \in Seq(Procs) /\ RemainingIn(heap, databases, Top) = Joined(<<p>>, rest)
  <2>1. Branch(heap, p) = <<p>>
    BY DEF Branch
  <2> QED
    BY <1>2, <1>3, <1>4, <1>6, <2>1, FetchRemains
<1>8. base \in Seq(Procs) /\ Popped \in Seq(FrameType)
  BY <1>2, <1>6, RemainsNow, TodoWaiting
<1>9. running = NoProc /\ todo = Joined(<<p>>, Joined(rest, base))
  <2>1. running = Top.proc /\ Top.proc = NoProc
    BY <1>2, <1>3, TodoBefore, QuietTop
  <2>2. InLoop(heap, Top)
    BY <1>3 DEF InLoop
  <2>3. todo = Joined(Joined(<<p>>, rest), base)
    <3> HIDE DEF Top
    <3> QED
      BY <1>2, <1>3, <1>6, <1>7, <2>2, TodoBefore
  <2>4. <<p>> \in Seq(Procs) /\ rest \in Seq(Procs) /\ base \in Seq(Procs)
    BY <1>7, <1>8
  <2>5. \A s, t, r \in Seq(Procs) : Joined(Joined(s, t), r) = Joined(s, Joined(t, r))
    BY JoinedFollow
  <2>6. Joined(Joined(<<p>>, rest), base) = Joined(<<p>>, Joined(rest, base))
    BY <2>4, <2>5, Zenon
  <2> QED
    BY <2>1, <2>3, <2>6
<1>10. f.op = "exec" /\ f.db = Top.db /\ f.sig = Top.sig /\ f \in FrameType
  BY <1>3, <1>5 DEF Updates
<1>11. Remains(heap', databases') /\ InLoop(heap', f)
  <2>1. heap' \in HeapType /\ Once(heap')
    BY DEF QuietInv, PlacedInv, OnceInv, GroundedInv, ForestInv, TypeInv, TypeOK
  <2>2. databases \in [Places -> [Idx -> Dbs \cup {NoDb}]]
    BY DatabasesNow
  <2>3. Remains(heap', databases')
    BY <1>3, <2>1, <2>2 DEF Remains
  <2>4. valid(heap'.store[f.db])
    BY <1>3, <1>10
  <2> QED
    BY <1>5, <2>3, <2>4 DEF InLoop
<1>12. RemainingIn(heap', databases', f) = rest
  <2>1. PICK g, dbs : g = heap' /\ dbs = databases'
    OBVIOUS
  <2>2. RemainingIn(g, dbs, f) = FlatIn(g, f.db, g.store[f.db].ptr + 1)
    BY <1>5, <1>10, RemainingForms
  <2>3. g.store = heap.store
    BY <1>3, <2>1
  <2>4. RemainingIn(g, dbs, f) = FlatIn(g, Top.db, heap.store[Top.db].ptr + 1)
    BY <1>10, <2>2, <2>3
  <2>5. FlatIn(g, Top.db, heap.store[Top.db].ptr + 1) = rest
    BY <1>2, <1>6, <2>3, FlatSame
  <2> QED
    BY <2>1, <2>4, <2>5
<1>13. todo' = Joined(rest, base) /\ running' = p
  <2>1. /\ running' = f.proc
        /\ todo' = IF f.sig \in halted' THEN <<>> ELSE TodoOf(heap', databases', frames')
    BY <1>5, <1>8, <1>10, TodoAfter
  <2>2. TodoOf(heap', databases', frames') = Joined(RemainingIn(heap', databases', f), base)
    BY <1>2, <1>5, <1>6, <1>10, <1>11, TodoTop
  <2> HIDE DEF Top
  <2> QED
    BY <1>3, <1>5, <1>10, <1>12, <2>1, <2>2
<1>14. Joined(rest, base) \in Seq(Procs)
  BY <1>7, <1>8, JoinedType
<1>15. todo # <<>> /\ Head(todo) = p /\ Tail(todo) = Joined(rest, base)
  BY <1>9, <1>14, JoinedHead
<1> QED
  BY <1>9, <1>13, <1>15 DEF E!Run

LEMMA ReturnReturns ==
  ASSUME QuietInv, QuietInv', NEW result \in Returns, Return(result)
  PROVE  E!Return
<1> USE DEF Pcs
<1>1. TypeOK /\ frames \in Seq(FrameType) /\ OnceInv /\ \A p \in Procs : heap.exhaust[p] = Never
  BY QuietFields
<1>2. /\ frames # <<>> /\ Top.db \in Dbs /\ Top.proc \in Procs
      /\ frames' = WithProc("fetch", NoProc)
  BY <1>1, ReturnMoves
<1>3. /\ Top.op = "exec" /\ Top.pc = "running" /\ UNCHANGED databases
      /\ halted' = halted \/ halted' = halted \cup {Top.sig}
  BY DEF Return, On
<1>4. heap' = [heap EXCEPT !.store[Top.db] = next(@)]
  <2>1. Top.loop = Top.db /\ ~is_exhausted(heap.exhaust[Top.proc])
    BY <1>1, <1>2, QuietTop DEF is_exhausted
  <2> QED
    BY <2>1 DEF Return
<1>5. PICK f : frames' = Append(Popped, f) /\ Updates(f) /\ f.pc = "fetch" /\ f.proc = NoProc
  BY <1>1, <1>2, ProcFrame
<1>6. /\ Remains(heap', databases') /\ InLoop(heap, Top) /\ InLoop(heap', f)
      /\ RemainingIn(heap', databases', f) = RemainingIn(heap, databases, Top)
  BY <1>2, <1>3, <1>4, <1>5, NextRemains
<1>7. f \in FrameType /\ f.sig = Top.sig /\ Popped \in Seq(FrameType)
  BY <1>1, <1>2, <1>5, PoppedType DEF Updates
<1>8. /\ running' = NoProc
      /\ todo' = IF f.sig \in halted' THEN <<>> ELSE TodoOf(heap', databases', frames')
  BY <1>5, <1>7, TodoAfter
<1>9. TodoOf(heap', databases', frames') =
        Joined(RemainingIn(heap', databases', f), TodoOf(heap, databases, Popped))
  BY <1>2, <1>5, <1>6, <1>7, TodoTop
<1>10. running # NoProc
  BY <1>2, TodoBefore, NothingType
<1>11. todo' \in {todo, <<>>}
  <2> HIDE DEF Top
  <2> QED
    BY <1>2, <1>3, <1>6, <1>7, <1>8, <1>9, TodoBefore
<1> QED
  BY <1>8, <1>10, <1>11 DEF E!Return

LEMMA ThrowReturns ==
  ASSUME QuietInv, Throw
  PROVE  E!Return
<1>1. frames # <<>> /\ frames' = <<>>
  BY ThrowEnds
<1>2. Top.pc = "running"
  BY <1>1 DEF Throw, Calling, Idle, On
<1>3. running # NoProc
  BY <1>1, <1>2, TodoBefore, QuietTop
<1>4. todo' = <<>> /\ running' = NoProc
  BY <1>1, TodoNext DEF Todo, running, Idle
<1> QED
  BY <1>3, <1>4 DEF E!Return

LEMMA FlatForOnce ==
  ASSUME NEW h \in HeapType, Once(h), NEW roots, ForestOf(h, roots), NEW d \in Dbs \cup {NoDb}
  PROVE  /\ FlatFor(h, d) \in Seq(Procs) /\ IsInjective(FlatFor(h, d))
         /\ \A p \in Range(FlatFor(h, d)) : d \in Dbs /\ d # NoDb /\ p \in Members(h)[d]
<1>1. CASE d # NoDb
  BY <1>1, FlatOnce DEF FlatFor
<1>2. CASE d = NoDb
  <2>1. <<>> \in Seq(Procs) /\ DOMAIN <<>> = {}
    BY EmptySeq
  <2> QED
    BY <1>2, <2>1 DEF FlatFor, IsInjective, Range
<1> QED
  BY <1>1, <1>2

\* The database of a signal and those of its interruptions have no process in
\* common.
LEMMA PlacesApart ==
  ASSUME QuietInv, NEW s \in Sigs, NEW w \in Places, NEW v \in Places, w # v
  PROVE  Range(FlatFor(heap, Find(w, s))) \cap Range(FlatFor(heap, Find(v, s))) = {}
<1>1. /\ TypeOK /\ heap \in HeapType /\ Once(heap) /\ ForestOf(heap, Registereds) /\ OneEach
      /\ Registereds \subseteq Dbs
  BY QuietFields, RegisteredFields DEF PlacedInv, Forest
<1>2. PICK d, e : d = Find(w, s) /\ e = Find(v, s)
  OBVIOUS
<1>3. /\ d \in Dbs \cup {NoDb} /\ e \in Dbs \cup {NoDb} /\ Index[s] \in Idx
      /\ d = databases[w][Index[s]] /\ e = databases[v][Index[s]]
  BY <1>1, <1>2, FindType DEF Find
<1>4. ASSUME NEW p \in Range(FlatFor(heap, d)), p \in Range(FlatFor(heap, e))
      PROVE  FALSE
  <2>1. /\ d \in Dbs /\ d # NoDb /\ p \in Members(heap)[d] /\ FlatFor(heap, d) \in Seq(Procs)
        /\ e \in Dbs /\ e # NoDb /\ p \in Members(heap)[e]
    BY <1>1, <1>3, <1>4, FlatForOnce
  <2>2. d \in Registereds /\ e \in Registereds /\ p \in Procs
    <3>1. p \in Procs
      BY <1>4, <2>1, RangeOfSeq
    <3> QED
      BY <1>3, <2>1, <3>1 DEF Registereds
  <2>3. d = e
    BY <1>1, <2>1, <2>2, OneRoot
  <2> QED
    <3>1. PICK i \in Idx : i = Index[s]
      BY <1>3
    <3>2. databases[w][i] = databases[v][i] /\ databases[w][i] # NoDb
      BY <1>3, <2>1, <2>3, <3>1
    <3>3. OneEach
      BY <1>1
    <3> QED
      BY <3>2, <3>3 DEF OneEach
<1> QED
  BY <1>2, <1>4

\* What an emission has to run at first: each process once.
LEMMA EmissionOnce ==
  ASSUME QuietInv, NEW s \in Sigs, NEW b, NEW m, NEW a,
         b = FlatFor(heap, Find("before", s)), m = FlatFor(heap, Find("index", s)),
         a = FlatFor(heap, Find("after", s))
  PROVE  Joined(Joined(b, m), a) \in Seq(Procs) /\ IsInjective(Joined(Joined(b, m), a))
<1> USE DEF Places
<1>1. TypeOK /\ heap \in HeapType /\ Once(heap) /\ ForestOf(heap, Registereds)
  BY QuietFields DEF Forest
<1>2. \A w \in Places : FlatFor(heap, Find(w, s)) \in Seq(Procs) /\ IsInjective(FlatFor(heap, Find(w, s)))
  BY <1>1, FindType, FlatForOnce
<1>3. /\ Range(b) \cap Range(m) = {} /\ Range(b) \cap Range(a) = {} /\ Range(m) \cap Range(a) = {}
  BY PlacesApart
<1>4. /\ b \in Seq(Procs) /\ IsInjective(b) /\ m \in Seq(Procs) /\ IsInjective(m)
      /\ a \in Seq(Procs) /\ IsInjective(a)
  BY <1>2
<1>5. PICK t : t = Joined(b, m)
  OBVIOUS
<1>6. t \in Seq(Procs) /\ IsInjective(t) /\ Range(t) = Range(b) \cup Range(m)
  BY <1>3, <1>4, <1>5, JoinedInjective
<1>7. Range(t) \cap Range(a) = {}
  BY <1>3, <1>6
<1>8. Joined(t, a) \in Seq(Procs) /\ IsInjective(Joined(t, a))
  BY <1>4, <1>6, <1>7, JoinedInjective
<1> QED
  BY <1>5, <1>8

\* A signal is emitted.
LEMMA EmitBegins ==
  ASSUME QuietInv, QuietInv', NEW s \in Sigs, Idle, Emit(s)
  PROVE  E!Begin \/ UNCHANGED <<todo, running>>
<1>1. TypeOK /\ heap \in HeapType /\ Once(heap) /\ frames = <<>>
  BY QuietFields DEF Idle
<1>2. todo = <<>> /\ running = NoProc
  BY <1>1, TodoNow DEF Todo, running, Idle
<1>3. PICK e : e = EmitFrame(s, Find("index", s), <<>>)
  OBVIOUS
<1>4. /\ frames' = <<e>> /\ e \in FrameType /\ Find("index", s) \in Dbs
      /\ e.op = "emit" /\ e.pc = "start" /\ e.sig = s /\ e.db = Find("index", s) /\ e.proc = NoProc
  BY <1>3, EmitWalks DEF EmitFrame
<1>5. PICK b, m, a : /\ b = FlatFor(heap, Find("before", s)) /\ m = FlatFor(heap, Find("index", s))
                     /\ a = FlatFor(heap, Find("after", s))
  OBVIOUS
<1>6. PICK t : t = Joined(Joined(b, m), a)
  OBVIOUS
<1>7. t \in Seq(Procs) /\ IsInjective(t)
  BY <1>5, <1>6, EmissionOnce
<1>8. RemainingIn(heap, databases, e) = t
  <2>1. RemainingIn(heap, databases, e) =
          Joined(Joined(FlatFor(heap, databases["before"][Index[e.sig]]), FlatFor(heap, e.db)),
                 FlatFor(heap, databases["after"][Index[e.sig]]))
    BY <1>4, RemainingForms
  <2> QED
    BY <1>4, <1>5, <1>6, <2>1 DEF Find
<1>9. RemainingIn(heap', databases', e) = t
  <2>1. PICK g, dbs : g = heap' /\ dbs = databases'
    OBVIOUS
  <2>2. g = AfterExhausted(heap, Find("index", s)) /\ dbs = databases
    BY <2>1 DEF Emit
  <2>3. \A x \in Dbs : g.store[x].nodes = heap.store[x].nodes
    BY <1>1, <1>4, <2>2, AfterExhaustedUnaltered DEF Unaltered
  <2>4. \A w \in {"before", "after"} : databases[w][Index[e.sig]] \in Dbs \cup {NoDb}
    BY <1>4, DatabasesNow DEF Places
  <2>5. SameWay(g, dbs, heap, databases, e)
    BY <1>4, <2>2, <2>3, <2>4 DEF SameWay
  <2>6. RemainingIn(g, dbs, e) = RemainingIn(heap, databases, e)
    BY <2>5, RemainingSame
  <2> QED
    BY <1>8, <2>1, <2>6
<1>10. PICK none : none = <<>> /\ none \in Seq(FrameType) /\ DOMAIN none = {} /\ <<e>> = Append(none, e)
  <2>1. <<>> \in Seq(FrameType) /\ DOMAIN <<>> = {} /\ <<e>> = Append(<<>>, e)
    BY EmptySeq
  <2> QED
    BY <2>1
<1>11. TodoOf(heap', databases', frames') = t
  <2>1. Sized(heap', databases', none)
    BY <1>10 DEF Sized
  <2>2. TodoOf(heap', databases', Append(none, e)) =
          Joined(RemainingIn(heap', databases', e), TodoOf(heap', databases', none))
    BY <1>4, <1>7, <1>9, <1>10, <2>1, TodoPush
  <2>3. TodoOf(heap', databases', none) = <<>>
    BY <1>10, TodoNone
  <2>4. Joined(t, <<>>) = t
    BY <1>7, JoinedEmpty
  <2> QED
    BY <1>4, <1>9, <1>10, <2>2, <2>3, <2>4
<1>12. running' = NoProc /\ todo' = IF s \in halted' THEN <<>> ELSE t
  <2>1. frames' = Append(none, e)
    BY <1>4, <1>10
  <2> QED
    BY <1>4, <1>10, <1>11, <2>1, TodoAfter
<1>13. CASE s \in halted'
  BY <1>2, <1>12, <1>13
<1>14. CASE s \notin halted'
  <2>1. \A i, j \in DOMAIN t : t[i] = t[j] => i = j
    BY <1>7 DEF IsInjective
  <2> QED
    BY <1>2, <1>7, <1>12, <1>14, <2>1 DEF E!Begin
<1> QED
  BY <1>13, <1>14

\* Calls that leave alone the stack and what the databases hold.
LEMMA CallsStay ==
  ASSUME QuietInv, UNCHANGED frames, heap'.store = heap.store,
         \A w \in {"before", "after"} : databases'[w] = databases[w],
         UNCHANGED halted \/ \E s \in Sigs : NewSignal(s)
  PROVE  UNCHANGED <<todo, running>>
<1>1. frames \in Seq(FrameType) /\ DOMAIN frames = 1..Len(frames)
  BY QuietFields
<1>2. PICK g, dbs : g = heap' /\ dbs = databases'
  OBVIOUS
<1>3. \A n \in DOMAIN frames : RemainingIn(g, dbs, frames[n]) = RemainingIn(heap, databases, frames[n])
  <2> TAKE n \in DOMAIN frames
  <2>1. PICK f \in FrameType : f = frames[n]
    BY <1>1
  <2>2. \A w \in {"before", "after"} : databases[w][Index[f.sig]] \in Dbs \cup {NoDb}
    BY DatabasesNow DEF Places
  <2>3. SameWay(g, dbs, heap, databases, f)
    BY <1>2, <2>2 DEF SameWay
  <2> QED
    BY <2>1, <2>3, RemainingSame
<1>4. TodoOf(g, dbs, frames) = TodoOf(heap, databases, frames)
  BY <1>1, <1>3, TodoSame
<1>5. frames # <<>> => (frames[1].sig \in halted' <=> frames[1].sig \in halted)
  <2>1. ASSUME NEW s \in Sigs, NewSignal(s), frames # <<>>
        PROVE  halted' = halted \ {s} /\ frames[1].sig # s
    <3>1. 1 \in DOMAIN frames
      BY <1>1, <2>1, EmptySeq, LenProperties
    <3> QED
      BY <2>1, <3>1 DEF NewSignal, Referenced
  <2> QED
    BY <2>1
<1>6. UNCHANGED todo
  BY <1>2, <1>4, <1>5, TodoNow, TodoNext DEF Todo
<1>7. UNCHANGED running
  BY DEF running, Idle, Top
<1> QED
  BY <1>6, <1>7

\* A signal is halted: the emission has nothing left to run if it is the
\* signal's.
LEMMA HaltEnds ==
  ASSUME QuietInv, NEW s \in Sigs, Halt(s), UNCHANGED <<frames, heap, databases>>
  PROVE  E!Halt \/ UNCHANGED <<todo, running>>
<1>1. UNCHANGED running
  BY DEF running, Idle, Top
<1>2. CASE Idle \/ frames[1].sig # s
  BY <1>1, <1>2, TodoNow, TodoNext DEF Todo, Idle, Halt
<1>3. CASE frames # <<>> /\ frames[1].sig = s
  <2>1. Top.pc = "running"
    BY <1>3 DEF Halt, Calling, Idle, On
  <2>2. running # NoProc
    BY <1>3, <2>1, TodoBefore, QuietTop
  <2>3. todo' = <<>>
    BY <1>3, TodoNext DEF Todo, Halt
  <2> QED
    BY <1>1, <2>2, <2>3 DEF E!Halt
<1> QED
  BY <1>2, <1>3 DEF Idle

\* Every step is one of the emission, or changes nothing there.
LEMMA EmissionNext ==
  ASSUME Quiet, QuietInv, QuietInv', [Next]_vars
  PROVE  E!Next \/ UNCHANGED <<todo, running>>
<1>1. TypeOK /\ Unmerged
  BY QuietFields
<1>2. CASE Pointers
  BY <1>2, PointersStay
<1>3. CASE MergeProcess
  BY <1>1, <1>3, TopAlone DEF MergeProcess
<1>4. CASE ExecProcess
  BY <1>4, ExecProcessRuns DEF E!Next
<1>5. CASE \E result \in Returns : Return(result)
  BY <1>5, ReturnReturns DEF E!Next
<1>6. CASE Throw
  BY <1>6, ThrowReturns DEF E!Next
<1>7. CASE /\ ~Throw
           /\ \/ Inspects \/ Unregisters
              \/ \E s \in Sigs, p \in Procs : Signal(s, p) \/ Before(s, p) \/ After(s, p) \/ DeleteProcess(s, p)
  <2>1. CASE Idle /\ UNCHANGED frames
    BY <2>1, TodoNow, TodoNext DEF Todo, Idle, running
  <2>2. CASE \E s \in Sigs : Idle /\ Emit(s)
    BY <2>2, EmitBegins DEF E!Next
  <2>3. CASE /\ UNCHANGED frames /\ heap'.store = heap.store
             /\ \A w \in {"before", "after"} : databases'[w] = databases[w]
             /\ UNCHANGED halted \/ \E s \in Sigs : NewSignal(s)
    BY <2>3, CallsStay
  <2>4. CASE UNCHANGED <<frames, heap, databases>> /\ \E s \in Sigs : Halt(s)
    BY <2>4, HaltEnds DEF E!Next
  <2> QED
    BY <1>7, <2>1, <2>2, <2>3, <2>4, UserQuiet
<1> QED
  BY <1>2, <1>3, <1>4, <1>5, <1>6, <1>7, StepKinds

LEMMA EmissionInit == Init => E!Init
BY TodoNow DEF Init, Todo, running, Idle, E!Init

\* One emission runs every process that was installed on the signal, or to run
\* before or after it, once and in the order of the databases, one at a time,
\* until the end or until one halts the signal: the loops over the databases and
\* their sub-databases, with the one pointer that each of them has, implement
\* Emission.
THEOREM LoopsImplementEmission ==
  ASSUME Quiet
  PROVE  Spec => EmissionSpec
<1>1. QuietInv /\ [Next]_vars => QuietInv'
  BY QuietNext
<1>2. QuietInv /\ QuietInv' /\ [Next]_vars => [E!Next]_<<todo, running>>
  BY EmissionNext
<1> QED
  BY <1>1, <1>2, QuietInit, EmissionInit, PTL DEF Spec, EmissionSpec, E!Spec
=============================================================================

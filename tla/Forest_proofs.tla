--------------------------- MODULE Forest_proofs ---------------------------
(***************************************************************************)
(* The process databases are trees.  The heap changes in three ways: its   *)
(* pointers move and its nodes go (ForestKept), a process is stored        *)
(* (ForestStored), a sub-database takes the place of a process             *)
(* (ForestGrown).  A merge installs on the database of an emission that    *)
(* started long before, which has to have been created (Working).          *)
(***************************************************************************)
EXTENDS Processor_proofs

----------------------------------------------------------------------------
(* The sub-databases of a storage.                                         *)

\* Moving the pointer leaves the sub-databases as they are.
LEMMA SubNodesMoved ==
  ASSUME NEW s \in StorageType, NEW ptr
  PROVE  SubNodes([s EXCEPT !.ptr = ptr]) = SubNodes(s)
<1>1. [s EXCEPT !.ptr = ptr].nodes = s.nodes
  BY DEF StorageType
<1> QED
  BY <1>1 DEF SubNodes

LEMMA SubNodesOf ==
  ASSUME NEW s, NEW n
  PROVE  n \in SubNodes(s) <=> /\ n.val \in Dbs
                               /\ \E i \in DOMAIN s.nodes : n = s.nodes[i]
BY DEF SubNodes, Range

LEMMA SubNodesIterated ==
  ASSUME NEW s \in StorageType
  PROVE  /\ SubNodes(next(s)) = SubNodes(s)
         /\ SubNodes(reset(s)) = SubNodes(s)
         /\ SubNodes(end(s)) = SubNodes(s)
BY SubNodesMoved DEF next, reset, end

LEMMA SubNodesEmpty == SubNodes(empty) = {}
BY SubNodesOf DEF empty, SubNodes, Range

\* A current database is in a node.
LEMMA SubNodesCurrent ==
  ASSUME NEW s \in StorageType, valid(s), current(s) \in Dbs
  PROVE  \E n \in SubNodes(s) : n.val = current(s)
BY SubNodesOf DEF valid, current

LEMMA SubNodesFound ==
  ASSUME NEW s \in StorageType, NEW k, offsetExists(s, k), offsetGet(s, k) \in Dbs
  PROVE  \E n \in SubNodes(s) : n.val = offsetGet(s, k)
BY SubNodesOf, PosOfType DEF offsetGet

LEMMA SubNodesUnsetAt ==
  ASSUME NEW s \in StorageType, NEW i \in DOMAIN s.nodes
  PROVE  SubNodes(unsetAt(s, i)) \subseteq SubNodes(s)
<1> DEFINE r == RemoveAt(s.nodes, i)
<1>1. /\ Len(s.nodes) \in Nat /\ i \in 1..Len(s.nodes)
      /\ DOMAIN s.nodes = 1..Len(s.nodes) /\ DOMAIN r = 1..(Len(s.nodes) - 1)
      /\ \A n \in 1..(Len(s.nodes) - 1) :
           r[n] = IF n < i THEN s.nodes[n] ELSE s.nodes[n + 1]
  BY StorageFields, RemoveAtElements
<1>2. unsetAt(s, i).nodes = r
  BY DEF unsetAt
<1> HIDE DEF r
<1>3. ASSUME NEW n \in DOMAIN r PROVE \E j \in DOMAIN s.nodes : r[n] = s.nodes[j]
  <2>1. CASE n < i
    BY <1>1, <2>1
  <2>2. CASE ~(n < i)
    <3>1. n + 1 \in DOMAIN s.nodes /\ r[n] = s.nodes[n + 1]
      BY <1>1, <2>2
    <3> QED
      BY <3>1
  <2> QED
    BY <2>1, <2>2
<1>4. ASSUME NEW m \in SubNodes(unsetAt(s, i)) PROVE m \in SubNodes(s)
  <2>1. PICK n \in DOMAIN r : m = r[n] /\ m.val \in Dbs
    BY <1>2, SubNodesOf
  <2> QED
    BY <1>3, <2>1, SubNodesOf
<1> QED
  BY <1>4

\* Unsetting a key leaves no node with it.
LEMMA SubNodesUnset ==
  ASSUME NEW s \in StorageType, NEW k
  PROVE  /\ SubNodes(offsetUnset(s, k)) \subseteq SubNodes(s)
         /\ ~offsetExists(offsetUnset(s, k), k)
<1>1. CASE ~offsetExists(s, k)
  BY <1>1 DEF offsetUnset
<1>2. CASE offsetExists(s, k)
  <2> DEFINE i == PosOf(s, k)
             r == RemoveAt(s.nodes, i)
  <2>1. i \in DOMAIN s.nodes /\ s.nodes[i].key = k
    BY <1>2, PosOfType
  <2>2. offsetUnset(s, k) = unsetAt(s, i) /\ unsetAt(s, i).nodes = r
    BY <1>2 DEF offsetUnset, unsetAt
  <2>3. /\ Len(s.nodes) \in Nat /\ i \in 1..Len(s.nodes)
        /\ DOMAIN s.nodes = 1..Len(s.nodes) /\ DOMAIN r = 1..(Len(s.nodes) - 1)
        /\ \A n \in 1..(Len(s.nodes) - 1) :
             r[n] = IF n < i THEN s.nodes[n] ELSE s.nodes[n + 1]
    BY <2>1, StorageFields, RemoveAtElements
  <2> HIDE DEF r, i
  <2>4. ASSUME NEW n \in DOMAIN r PROVE r[n].key # k
    <3>0. \A j \in DOMAIN s.nodes : s.nodes[j].key = k => j = i
      BY <2>1, StorageFields
    <3>1. CASE n < i
      BY <2>3, <3>0, <3>1
    <3>2. CASE ~(n < i)
      <4>1. n + 1 \in DOMAIN s.nodes /\ n + 1 # i /\ r[n] = s.nodes[n + 1]
        BY <2>3, <3>2
      <4> QED
        BY <3>0, <4>1
    <3> QED
      BY <3>1, <3>2
  <2> QED
    BY <2>1, <2>2, <2>4, SubNodesUnsetAt DEF offsetExists, keys
<1> QED
  BY <1>1, <1>2

\* A node with a new key is added to the ones there are.
LEMMA SubNodesSet ==
  ASSUME NEW s \in StorageType, NEW k \in Int, NEW v \in Procs \cup Dbs,
         ~offsetExists(s, k)
  PROVE  /\ SubNodes(offsetSet(s, k, v)) \subseteq SubNodes(s) \cup {Node(k, v)}
         /\ v \in Procs => SubNodes(offsetSet(s, k, v)) \subseteq SubNodes(s)
<1> DEFINE nodes == Append(s.nodes, Node(k, v))
<1>1. Node(k, v) \in NodeType /\ Node(k, v).val = v
  BY DEF Node, NodeType
<1>2. offsetSet(s, k, v).nodes = nodes
  <2>1. offsetSet(s, k, v) = [s EXCEPT !.nodes = nodes]
    BY DEF offsetSet
  <2> HIDE DEF nodes
  <2> QED
    BY <2>1 DEF StorageType
<1>3. \A j \in DOMAIN nodes : nodes[j] = Node(k, v) \/ \E i \in DOMAIN s.nodes : nodes[j] = s.nodes[i]
  <2>1. /\ Len(s.nodes) \in Nat /\ DOMAIN s.nodes = 1..Len(s.nodes)
        /\ DOMAIN nodes = 1..(Len(s.nodes) + 1)
        /\ nodes[Len(s.nodes) + 1] = Node(k, v)
        /\ \A j \in 1..Len(s.nodes) : nodes[j] = s.nodes[j]
    BY <1>1, StorageFields, AppendProperties
  <2> HIDE DEF nodes
  <2>2. ASSUME NEW j \in DOMAIN nodes
        PROVE  nodes[j] = Node(k, v) \/ \E i \in DOMAIN s.nodes : nodes[j] = s.nodes[i]
    <3>1. j \in DOMAIN s.nodes \/ j = Len(s.nodes) + 1
      BY <2>1
    <3> QED
      BY <2>1, <3>1
  <2> QED
    BY <2>2
<1> HIDE DEF nodes
<1>4. ASSUME NEW m \in SubNodes(offsetSet(s, k, v))
      PROVE  m.val \in Dbs /\ (m = Node(k, v) \/ m \in SubNodes(s))
  <2>1. m.val \in Dbs /\ \E j \in DOMAIN nodes : m = nodes[j]
    BY <1>2, SubNodesOf
  <2> QED
    BY <1>3, <2>1, SubNodesOf
<1> QED
  BY <1>1, <1>4, DisjointObjects

----------------------------------------------------------------------------
(* Heaps.                                                                  *)

\* What a forest says, for citation.
LEMMA ForestFacts ==
  ASSUME NEW h \in HeapType, NEW roots, ForestOf(h, roots)
  PROVE  /\ \A d \in h.unused : h.store[d] = empty /\ d \notin roots /\ d \in Dbs
         /\ \A d \in Dbs : \A n \in SubNodes(h.store[d]) :
              n.val \in Dbs /\ n.val \notin h.unused /\ n.val \notin roots
         /\ \A d, e \in Dbs :
              \A m \in SubNodes(h.store[d]), n \in SubNodes(h.store[e]) :
                m.val = n.val => d = e /\ m = n
         /\ \A C \in SUBSET Dbs : C # {} =>
              \E x \in C : \A d \in C : \A n \in SubNodes(h.store[d]) : n.val # x
<1>1. \A d \in Dbs : \A n \in SubNodes(h.store[d]) : n.val \in Dbs
  BY SubNodesOf
<1> QED
  BY <1>1, HeapFields DEF ForestOf

LEMMA Initially ==
  ASSUME NEW h \in HeapType, \A d \in Dbs : h.store[d] = empty
  PROVE  ForestOf(h, {})
<1>1. \A d \in Dbs : SubNodes(h.store[d]) = {}
  BY SubNodesEmpty
<1>2. \A d \in Dbs : WellFormedStorage(h.store[d])
  BY HeapFields DEF StorageType
<1> QED
  BY <1>1, <1>2, HeapFields DEF ForestOf

\* No node gets a sub-database; databases may be created, and be roots.
LEMMA ForestKept ==
  ASSUME NEW h \in HeapType, NEW g \in HeapType, NEW roots, NEW others,
         ForestOf(h, roots),
         g.unused \subseteq h.unused,
         others \subseteq roots \cup (h.unused \ g.unused),
         \A d \in Dbs : SubNodes(g.store[d]) \subseteq SubNodes(h.store[d]),
         \A d \in g.unused : g.store[d] = empty
  PROVE  ForestOf(g, others)
<1>1. \A d \in Dbs : WellFormedStorage(g.store[d])
  BY HeapFields DEF StorageType
<1>2. \A d \in g.unused : g.store[d] = empty /\ d \notin others
  BY ForestFacts
<1>3. \A d \in Dbs : \A n \in SubNodes(g.store[d]) : n.val \notin g.unused \cup others
  BY ForestFacts
<1>4. \A d, e \in Dbs :
        \A m \in SubNodes(g.store[d]), n \in SubNodes(g.store[e]) :
          m.val = n.val => d = e /\ m = n
  BY ForestFacts
<1>5. ASSUME NEW C \in SUBSET Dbs, C # {}
      PROVE  \E x \in C : \A d \in C : \A n \in SubNodes(g.store[d]) : n.val # x
  <2>1. PICK x \in C : \A d \in C : \A n \in SubNodes(h.store[d]) : n.val # x
    BY <1>5, ForestFacts
  <2> QED
    BY <2>1
<1> QED
  BY <1>1, <1>2, <1>3, <1>4, <1>5 DEF ForestOf

\* A database created for it goes into one node, and holds no other.
LEMMA ForestGrown ==
  ASSUME NEW h \in HeapType, NEW g \in HeapType, NEW roots,
         ForestOf(h, roots),
         NEW sub \in h.unused, NEW at \in Dbs, at \notin h.unused, NEW k \in Int,
         g.unused = h.unused \ {sub},
         SubNodes(g.store[sub]) = {},
         SubNodes(g.store[at]) \subseteq SubNodes(h.store[at]) \cup {Node(k, sub)},
         \A d \in Dbs : d # sub /\ d # at => g.store[d] = h.store[d]
  PROVE  ForestOf(g, roots)
<1>0. sub \in Dbs /\ sub # at /\ sub \notin roots /\ Node(k, sub).val = sub
  BY HeapFields, ForestFacts DEF Node
<1>a. /\ \A d \in Dbs : \A n \in SubNodes(h.store[d]) :
           n.val \in Dbs /\ n.val \notin h.unused /\ n.val \notin roots
      /\ \A d, e \in Dbs :
           \A m \in SubNodes(h.store[d]), n \in SubNodes(h.store[e]) :
             m.val = n.val => d = e /\ m = n
  BY ForestFacts
\* Every node is an old one, or the new one in the database of the install.
<1>b. ASSUME NEW d \in Dbs, NEW n \in SubNodes(g.store[d])
      PROVE  /\ d # sub
             /\ n \in SubNodes(h.store[d]) \/ (d = at /\ n = Node(k, sub))
             /\ n.val = sub => d = at /\ n = Node(k, sub)
  BY <1>0, <1>a
<1>1. \A d \in Dbs : WellFormedStorage(g.store[d])
  BY HeapFields DEF StorageType
<1>2. \A d \in g.unused : g.store[d] = empty /\ d \notin roots
  BY ForestFacts
<1>3. \A d \in Dbs : \A n \in SubNodes(g.store[d]) : n.val \notin g.unused \cup roots
  BY <1>0, <1>a, <1>b
<1>4. ASSUME NEW d \in Dbs, NEW e \in Dbs,
             NEW m \in SubNodes(g.store[d]), NEW n \in SubNodes(g.store[e]),
             m.val = n.val
      PROVE  d = e /\ m = n
  BY <1>0, <1>a, <1>b, <1>4
<1>5. ASSUME NEW C \in SUBSET Dbs, C # {}
      PROVE  \E x \in C : \A d \in C : \A n \in SubNodes(g.store[d]) : n.val # x
  <2>1. CASE C \ {sub} = {}
    <3>1. C = {sub}
      BY <1>5, <2>1
    <3> QED
      BY <3>1
  <2>2. CASE C \ {sub} # {}
    <3>1. PICK x \in C \ {sub} :
            \A d \in C \ {sub} : \A n \in SubNodes(h.store[d]) : n.val # x
      <4> DEFINE D == C \ {sub}
      <4>1. D \in SUBSET Dbs /\ D # {}
        BY <2>2
      <4> HIDE DEF D
      <4>2. \E x \in D : \A d \in D : \A n \in SubNodes(h.store[d]) : n.val # x
        BY <4>1, ForestFacts
      <4> QED
        BY <4>2 DEF D
    <3>2. ASSUME NEW d \in C, NEW n \in SubNodes(g.store[d]) PROVE n.val # x
      BY <1>0, <1>b, <3>1
    <3> QED
      BY <3>1, <3>2
  <2> QED
    BY <2>1, <2>2
<1> QED
  BY <1>1, <1>2, <1>3, <1>4, <1>5 DEF ForestOf

\* One storage is replaced by one without new sub-databases, and does not come
\* to life that way.
LEMMA ForestStored ==
  ASSUME NEW h \in HeapType, NEW roots, ForestOf(h, roots), NEW d \in Dbs,
         NEW s \in StorageType, SubNodes(s) \subseteq SubNodes(h.store[d]),
         d \in h.unused => s = empty
  PROVE  ForestOf([h EXCEPT !.store[d] = s], roots)
<1> DEFINE g == [h EXCEPT !.store[d] = s]
<1>1. g \in HeapType
  BY StoreType
<1>2. /\ g.unused = h.unused
      /\ \A e \in Dbs : g.store[e] = IF e = d THEN s ELSE h.store[e]
  BY DEF HeapType
<1>3. \A e \in h.unused : e \in Dbs /\ h.store[e] = empty
  BY ForestFacts
<1> HIDE DEF g
<1>4. ForestOf(g, roots)
  BY <1>1, <1>2, <1>3, ForestKept
<1> QED
  BY <1>4 DEF g

\* The Iterator methods leave an empty storage as it is.
LEMMA ForestIterated ==
  ASSUME NEW h \in HeapType, NEW roots, ForestOf(h, roots), NEW d \in Dbs
  PROVE  /\ ForestOf([h EXCEPT !.store[d] = next(@)], roots)
         /\ ForestOf([h EXCEPT !.store[d] = reset(@)], roots)
<1>1. h.store[d] \in StorageType
  BY HeapFields
<1>2. next(h.store[d]) \in StorageType /\ reset(h.store[d]) \in StorageType
  BY <1>1, nextType, resetType
<1>3. next(empty) = empty /\ reset(empty) = empty
  BY DEF next, reset, valid, empty
<1>4. d \in h.unused => h.store[d] = empty
  BY ForestFacts
<1> QED
  BY <1>1, <1>2, <1>3, <1>4, SubNodesIterated, ForestStored

----------------------------------------------------------------------------
(* Walks and deletions.                                                    *)

\* A walk leaves the pointer of an empty storage where it is.
LEMMA WalkForest ==
  ASSUME NEW h \in HeapType, NEW roots, ForestOf(h, roots), NEW targets, NEW d \in Dbs
  PROVE  /\ ForestOf(Walk(h, targets, d), roots)
         /\ Walk(h, targets, d).unused = h.unused
<1> DEFINE g == Walk(h, targets, d)
           walked == Walked(h, targets)[d]
<1>1. g \in HeapType
  BY WalkType
<1>2. /\ g.unused = h.unused
      /\ \A x \in Dbs : g.store[x] = IF x \in walked
                                       THEN [h.store[x] EXCEPT !.ptr = StopAt(h, targets, x)]
                                       ELSE h.store[x]
  BY DEF Walk, HeapType
<1> HIDE DEF g, walked
<1>3. ASSUME NEW x \in Dbs PROVE SubNodes(g.store[x]) \subseteq SubNodes(h.store[x])
  <2>1. h.store[x] \in StorageType
    BY HeapFields
  <2>2. SubNodes([h.store[x] EXCEPT !.ptr = StopAt(h, targets, x)]) = SubNodes(h.store[x])
    BY <2>1, SubNodesMoved
  <2> QED
    BY <1>2, <2>2
<1>4. ASSUME NEW x \in h.unused PROVE g.store[x] = empty
  <2>1. x \in Dbs /\ h.store[x] = empty
    BY ForestFacts
  <2>2. StopAt(h, targets, x) \in 1..(Len(h.store[x].nodes) + 1)
    BY <2>1, StopAtType
  <2>3. StopAt(h, targets, x) = 1
    BY <2>1, <2>2 DEF empty
  <2>4. [empty EXCEPT !.ptr = 1] = empty
    BY DEF empty
  <2> QED
    BY <1>2, <2>1, <2>3, <2>4
<1>5. ForestOf(g, roots)
  BY <1>1, <1>2, <1>3, <1>4, ForestKept
<1> QED
  BY <1>2, <1>5 DEF g

LEMMA DeleteForest ==
  ASSUME NEW h \in HeapType, NEW roots, ForestOf(h, roots), NEW d \in Dbs, NEW p
  PROVE  /\ ForestOf(Delete(h, d, p), roots)
         /\ Delete(h, d, p).unused = h.unused
<1> DEFINE w == Walk(h, {p}, d)
           g == Delete(h, d, p)
           found(x) == /\ x \in Walked(h, {p})[d]
                       /\ valid(w.store[x]) /\ current(w.store[x]) = p
<1>1. w \in HeapType /\ ForestOf(w, roots) /\ w.unused = h.unused /\ g \in HeapType
  BY WalkType, WalkForest, DeleteType
<1>2. g = [w EXCEPT !.store = [x \in Dbs |-> IF found(x) THEN unsetAt(w.store[x], w.store[x].ptr)
                                                         ELSE w.store[x]]]
  BY DEF Delete
<1> HIDE DEF w, g
<1>3. /\ g.unused = w.unused
      /\ \A x \in Dbs : g.store[x] = IF found(x) THEN unsetAt(w.store[x], w.store[x].ptr)
                                                  ELSE w.store[x]
  BY <1>1, <1>2 DEF HeapType
<1>4. ASSUME NEW x \in Dbs PROVE SubNodes(g.store[x]) \subseteq SubNodes(w.store[x])
  <2>1. w.store[x] \in StorageType
    BY <1>1, HeapFields
  <2>2. found(x) => SubNodes(unsetAt(w.store[x], w.store[x].ptr)) \subseteq SubNodes(w.store[x])
    BY <2>1, SubNodesUnsetAt DEF valid
  <2> QED
    BY <1>3, <2>2
<1>5. ASSUME NEW x \in w.unused PROVE g.store[x] = empty
  <2>1. x \in Dbs /\ w.store[x] = empty
    BY <1>1, ForestFacts
  <2>2. ~valid(w.store[x])
    BY <2>1 DEF valid, empty
  <2> QED
    BY <1>3, <2>1, <2>2
<1>6. ForestOf(g, roots)
  BY <1>1, <1>3, <1>4, <1>5, ForestKept
<1> QED
  BY <1>1, <1>3, <1>6 DEF g

----------------------------------------------------------------------------
(* Installs.  The database of every pass has been created: the first is    *)
(* the one install() was called on, the others are in a node of it.        *)

InstallForest(c, roots, free) ==
  /\ c \in CallType
  /\ ForestOf(c.heap, roots)
  /\ c.at \notin c.heap.unused
  /\ c.heap.unused \subseteq free

LEMMA InstallNodeForest ==
  ASSUME NEW c, NEW roots, NEW free, InstallForest(c, roots, free), NEW p \in Procs,
         ~Taken(c, p)
  PROVE  InstallForest(InstallNode(c, p), roots, free)
<1> DEFINE h == c.heap
           s == h.store[c.at]
           t == offsetSet(s, h.prio[p], p)
           g == [h EXCEPT !.store[c.at] = t]
<1>1. c \in CallType /\ h \in HeapType /\ c.at \in Dbs /\ s \in StorageType
      /\ h.prio[p] \in Int
  BY CallFields, HeapFields DEF InstallForest
<1>2. t \in StorageType /\ SubNodes(t) \subseteq SubNodes(s)
  BY <1>1, offsetSetType, SubNodesSet DEF Taken
<1>3. InstallNode(c, p) = [c EXCEPT !.done = TRUE, !.heap = g]
  BY <1>1 DEF InstallNode, CallType
<1> HIDE DEF t
<1>4. ForestOf(g, roots)
  BY <1>1, <1>2, ForestStored DEF InstallForest
<1>5. g.unused = h.unused
  BY <1>1 DEF HeapType
<1> HIDE DEF g
<1>6. InstallNode(c, p).heap = g /\ InstallNode(c, p).at = c.at
  BY <1>1, <1>3 DEF CallType
<1> QED
  BY <1>1, <1>4, <1>5, <1>6, InstallNodeType DEF InstallForest

LEMMA InstallInSubDatabaseForest ==
  ASSUME NEW c, NEW roots, NEW free, InstallForest(c, roots, free), NEW p \in Procs,
         NEW sub \in Dbs, sub \notin c.heap.unused
  PROVE  InstallForest(InstallInSubDatabase(c, sub, p), roots, free)
<1> DEFINE h == c.heap
           i == InstallInSubDatabase(c, sub, p)
           ending == end(h.store[sub])
           last == current(ending)
<1>1. c \in CallType /\ h \in HeapType /\ c.at \in Dbs /\ h.store[sub] \in StorageType
      /\ ForestOf(h, roots) /\ c.at \notin h.unused /\ h.unused \subseteq free
  BY CallFields, HeapFields DEF InstallForest
<1>2. i \in CallType /\ i.heap \in HeapType
  BY <1>1, InstallInSubDatabaseType, CallFields
<1>3. CASE valid(ending) /\ last \in Procs
  <2> DEFINE g == [h EXCEPT !.store[sub] = ending, !.prio[p] = h.prio[last] + 1]
  <2>1. i = [c EXCEPT !.at = sub, !.heap = g]
    BY <1>3 DEF InstallInSubDatabase, CallType
  <2>2. /\ g.unused = h.unused
        /\ \A d \in Dbs : g.store[d] = IF d = sub THEN ending ELSE h.store[d]
    BY <1>1 DEF HeapType
  <2> HIDE DEF g
  <2>3. i.heap = g /\ i.at = sub
    BY <1>1, <2>1 DEF CallType
  <2>4. SubNodes(ending) = SubNodes(h.store[sub])
    BY <1>1, SubNodesIterated
  <2> HIDE DEF ending, i, h
  <2>5. \A d \in Dbs : SubNodes(g.store[d]) \subseteq SubNodes(h.store[d])
    BY <2>2, <2>4
  <2>6. \A d \in g.unused : g.store[d] = empty
    BY <1>1, <2>2, ForestFacts DEF h
  <2>7. ForestOf(g, roots)
    BY <1>1, <1>2, <2>2, <2>3, <2>5, <2>6, ForestKept
  <2> QED
    BY <1>1, <1>2, <2>2, <2>3, <2>7 DEF InstallForest, h, i
<1>4. CASE ~(valid(ending) /\ last \in Procs)
  <2> DEFINE g == [h EXCEPT !.fatal = TRUE]
  <2>1. i = [c EXCEPT !.done = TRUE, !.heap = g]
    BY <1>4 DEF InstallInSubDatabase, CallType
  <2>2. g.unused = h.unused /\ g.store = h.store
    BY <1>1 DEF HeapType
  <2> HIDE DEF g
  <2>3. i.heap = g /\ i.at = c.at
    BY <1>1, <2>1 DEF CallType
  <2>4. ForestOf(g, roots)
    BY <1>1, <2>2 DEF ForestOf
  <2> QED
    BY <1>1, <1>2, <2>2, <2>3, <2>4 DEF InstallForest
<1> QED
  BY <1>3, <1>4

LEMMA CreateSubDatabaseForest ==
  ASSUME NEW c, NEW roots, NEW free, InstallForest(c, roots, free), NEW p \in Procs,
         NEW q \in Procs, c.heap.unused # {}
  PROVE  InstallForest(CreateSubDatabase(c, q, p), roots, free)
<1> DEFINE h     == c.heap
           i     == CreateSubDatabase(c, q, p)
           key   == h.prio[p]
           sub   == CHOOSE d \in h.unused : TRUE
           prio  == [h.prio EXCEPT ![q] = XPSPL_SUBDATABASE_DEFAULT_PRIORITY]
           moved == offsetSet(empty, prio[q], q)
           keyed == offsetSet(offsetUnset(h.store[c.at], key), key, sub)
           store == [h.store EXCEPT ![sub] = moved, ![c.at] = keyed]
           unused == h.unused \ {sub}
           g     == [h EXCEPT !.prio = prio, !.unused = unused, !.store = store]
<1>1. c \in CallType /\ h \in HeapType /\ c.at \in Dbs /\ h.store[c.at] \in StorageType
      /\ ForestOf(h, roots) /\ c.at \notin h.unused /\ h.unused \subseteq free
  BY CallFields DEF InstallForest
<1>2. i \in CallType /\ i.heap \in HeapType
  BY <1>1, CreateSubDatabaseType, CallFields
<1>3. i = [c EXCEPT !.heap = g]
  BY DEF CreateSubDatabase
<1>4. i.heap = g /\ i.at = c.at
  BY <1>1, <1>3 DEF CallType
<1>5. g.unused = unused /\ g.store = store
  BY <1>1 DEF HeapType
<1> HIDE DEF g, i
<1>6. sub \in h.unused /\ sub \in Dbs /\ sub # c.at
  BY <1>1, HeapFields
<1> HIDE DEF sub
<1>7. prio[q] \in Int /\ key \in Int
  BY <1>1, HeapFields DEF XPSPL_SUBDATABASE_DEFAULT_PRIORITY
<1> HIDE DEF prio, key
<1>8. SubNodes(moved) = {}
  <2>1. ~offsetExists(empty, prio[q])
    BY DEF offsetExists, keys, empty
  <2>2. SubNodes(moved) \subseteq SubNodes(empty)
    BY <1>7, <2>1, emptyType, SubNodesSet
  <2> QED
    BY <2>2, SubNodesEmpty
<1>9. SubNodes(keyed) \subseteq SubNodes(h.store[c.at]) \cup {Node(key, sub)}
  <2> DEFINE s == offsetUnset(h.store[c.at], key)
  <2>1. s \in StorageType /\ SubNodes(s) \subseteq SubNodes(h.store[c.at])
        /\ ~offsetExists(s, key)
    BY <1>1, offsetUnsetType, SubNodesUnset
  <2> HIDE DEF s
  <2>2. SubNodes(offsetSet(s, key, sub)) \subseteq SubNodes(s) \cup {Node(key, sub)}
    BY <1>6, <1>7, <2>1, SubNodesSet
  <2> QED
    BY <2>1, <2>2 DEF s
<1> HIDE DEF moved, keyed
<1>10. \A d \in Dbs : store[d] = IF d = c.at THEN keyed ELSE IF d = sub THEN moved ELSE h.store[d]
  BY <1>1, HeapFields
<1> HIDE DEF store, h
<1>11. ForestOf(g, roots)
  BY <1>1, <1>2, <1>4, <1>5, <1>6, <1>7, <1>8, <1>9, <1>10, ForestGrown
<1> QED
  BY <1>1, <1>2, <1>4, <1>5, <1>11 DEF InstallForest, i

LEMMA InstallStepForest ==
  ASSUME NEW c, NEW roots, NEW free, InstallForest(c, roots, free), NEW p \in Procs
  PROVE  InstallForest(InstallStep(c, p), roots, free)
<1>1. c \in CallType /\ c.heap \in HeapType /\ c.at \in Dbs
      /\ c.heap.store[c.at] \in StorageType
  BY CallFields DEF InstallForest
<1>2. CASE c.done
  BY <1>2 DEF InstallStep
<1>3. CASE ~c.done /\ ~Taken(c, p)
  BY <1>3, InstallNodeForest DEF InstallStep
<1>4. CASE ~c.done /\ Taken(c, p)
  <2>1. Found(c, p) \in Procs \cup Dbs
    BY <1>1, <1>4, FoundType
  <2>2. CASE Found(c, p) \in Dbs
    <3>1. \E n \in SubNodes(c.heap.store[c.at]) : n.val = Found(c, p)
      BY <1>1, <1>4, <2>2, SubNodesFound DEF Taken, Found
    <3>2. Found(c, p) \notin c.heap.unused
      BY <1>1, <3>1, ForestFacts DEF InstallForest
    <3> QED
      BY <1>4, <2>2, <3>2, InstallInSubDatabaseForest DEF InstallStep
  <2>3. CASE Found(c, p) \notin Dbs
    <3>1. c.heap.unused # {} => InstallForest(CreateSubDatabase(c, Found(c, p), p), roots, free)
      BY <2>1, <2>3, CreateSubDatabaseForest
    <3> QED
      BY <1>4, <2>3, <3>1 DEF InstallStep
  <2> QED
    BY <2>2, <2>3
<1> QED
  BY <1>2, <1>3, <1>4

\* An install on a database that has been created keeps the trees.
LEMMA InstalledForest ==
  ASSUME NEW h \in HeapType, NEW roots, ForestOf(h, roots), NEW d \in Dbs,
         d \notin h.unused, NEW p \in Procs
  PROVE  /\ ForestOf(Install(h, d, p).heap, roots)
         /\ Install(h, d, p).heap \in HeapType
         /\ Install(h, d, p).heap.unused \subseteq h.unused
<1>1. InstallForest(Call(h, d), roots, h.unused)
  BY DEF InstallForest, Call, CallType
<1>2. ASSUME NEW c, InstallForest(c, roots, h.unused)
      PROVE  InstallForest(TwoSteps(c, p), roots, h.unused)
  <2>1. InstallForest(InstallStep(c, p), roots, h.unused)
    BY <1>2, InstallStepForest
  <2> QED
    BY <2>1, InstallStepForest DEF TwoSteps
<1>3. InstallForest(Install(h, d, p), roots, h.unused)
  BY <1>1, <1>2 DEF Install
<1> QED
  BY <1>3, InstallType, CallFields DEF InstallForest

----------------------------------------------------------------------------
(* The processor.                                                          *)

\* The databases that emissions and merges in progress install on have been
\* created, though their signals may have been flushed or deleted since.
Working == \A n \in DOMAIN frames :
             frames[n].op # "exec" => frames[n].db \notin heap.unused

ForestInv == TypeInv /\ Forest /\ Working

LEMMA RegisteredsType ==
  ASSUME TypeOK
  PROVE  /\ Registereds \subseteq Dbs
         /\ \A w \in Places, s \in Sigs : Find(w, s) # NoDb => Find(w, s) \in Registereds
<1>1. \A w \in Places, i \in Idx : databases[w][i] \in Dbs \cup {NoDb}
  BY DEF TypeOK
<1>2. Registereds \subseteq Dbs
  BY <1>1 DEF Registereds
<1>3. \A w \in Places, s \in Sigs : Find(w, s) # NoDb => Find(w, s) \in Registereds
  BY IndexType DEF Find, Registereds
<1> QED
  BY <1>2, <1>3

\* A registered database has been created.
LEMMA FoundCreated ==
  ASSUME ForestInv, NEW w \in Places, NEW s \in Sigs, Find(w, s) # NoDb
  PROVE  Find(w, s) \in Dbs /\ Find(w, s) \notin heap.unused
<1>1. TypeOK /\ heap \in HeapType /\ ForestOf(heap, Registereds)
  BY DEF ForestInv, TypeInv, TypeOK, Forest
<1>2. Find(w, s) \in Registereds /\ Registereds \subseteq Dbs
  BY <1>1, RegisteredsType
<1> QED
  BY <1>1, <1>2, ForestFacts

\* Each frame is a loop that installs nothing, works for a database that has
\* been created, or was there before.
LEMMA WorkingKept ==
  ASSUME ForestInv, heap'.unused \subseteq heap.unused,
         \A n \in DOMAIN frames' :
           \/ frames'[n].op = "exec"
           \/ frames'[n].db \notin heap.unused
           \/ \E m \in DOMAIN frames : /\ frames'[n].op = frames[m].op
                                       /\ frames'[n].db = frames[m].db
  PROVE  Working'
BY DEF ForestInv, Working

\* The frames stay what they are.
LEMMA WorkingSame ==
  ASSUME ForestInv, TypeInv', heap'.unused \subseteq heap.unused,
         Len(frames') = Len(frames),
         \A n \in 1..Len(frames) :
           frames'[n].op = frames[n].op /\ frames'[n].db = frames[n].db
  PROVE  Working'
<1>1. frames \in Seq(FrameType) /\ frames' \in Seq(FrameType)
  BY DEF ForestInv, TypeInv, TypeOK
<1>2. DOMAIN frames = 1..Len(frames) /\ DOMAIN frames' = 1..Len(frames)
  BY <1>1, LenProperties
<1> QED
  BY <1>2, WorkingKept

\* The frames above the k-th are dropped.
LEMMA WorkingCut ==
  ASSUME ForestInv, heap'.unused \subseteq heap.unused, NEW k \in 0..Len(frames),
         frames' = SubSeq(frames, 1, k)
  PROVE  Working'
<1>1. frames \in Seq(FrameType)
  BY DEF ForestInv, TypeInv, TypeOK
<1>2. /\ frames' \in Seq(FrameType) /\ Len(frames') = k
      /\ \A n \in 1..k : frames'[n] = frames[n]
  BY <1>1, PrefixType
<1>3. Len(frames) \in Nat /\ DOMAIN frames = 1..Len(frames) /\ DOMAIN frames' = 1..k
  BY <1>1, <1>2, LenProperties
<1>4. \A n \in DOMAIN frames' : n \in DOMAIN frames /\ frames'[n] = frames[n]
  BY <1>2, <1>3
<1> QED
  BY <1>4, WorkingKept

\* A loop, an emission or a merge is called.
LEMMA WorkingPushed ==
  ASSUME ForestInv, heap'.unused \subseteq heap.unused,
         NEW s \in Seq(FrameType), NEW g \in FrameType, Len(s) = Len(frames),
         \A n \in 1..Len(frames) : s[n].op = frames[n].op /\ s[n].db = frames[n].db,
         g.op = "exec" \/ g.db \notin heap.unused,
         frames' = Append(s, g)
  PROVE  Working'
<1>1. frames \in Seq(FrameType)
  BY DEF ForestInv, TypeInv, TypeOK
<1>2. /\ frames' \in Seq(FrameType) /\ Len(frames') = Len(frames) + 1
      /\ frames'[Len(frames) + 1] = g
      /\ \A n \in 1..Len(frames) : frames'[n] = s[n]
  BY PushType
<1>3. /\ Len(frames) \in Nat /\ DOMAIN frames = 1..Len(frames)
      /\ DOMAIN frames' = 1..(Len(frames) + 1)
  BY <1>1, <1>2, LenProperties
<1>4. \A n \in DOMAIN frames' : n \in DOMAIN frames \/ n = Len(frames) + 1
  BY <1>3
<1> QED
  BY <1>2, <1>3, <1>4, WorkingKept

\* The registry stays, and the heap keeps its trees.
LEMMA ForestFrame ==
  ASSUME UNCHANGED databases, ForestOf(heap', Registereds)
  PROVE  Forest'
BY DEF Forest, Registereds

LEMMA ExecuteForest ==
  ASSUME ForestInv, TypeInv', frames # <<>>, NEW d \in Dbs, NEW pc \in Pcs, Execute(d, pc)
  PROVE  Forest' /\ Working'
<1>1. /\ heap \in HeapType /\ frames \in Seq(FrameType) /\ Top.sig \in Sigs
      /\ ForestOf(heap, Registereds)
  BY TopType, FrameFields DEF ForestInv, TypeInv, TypeOK, Forest
<1>2. heap' = [heap EXCEPT !.store[d] = reset(@)] /\ UNCHANGED databases
  BY DEF Execute, Rewind
<1>3. ForestOf(heap', Registereds) /\ heap'.unused = heap.unused
  BY <1>1, <1>2, ForestIterated DEF HeapType
<1> DEFINE g == ExecFrame(Top.sig, d)
<1>4. g \in FrameType /\ g.op = "exec" /\ frames' = Append(At(pc), g)
  BY <1>1, NewFrameType, EmptySeq DEF ExecFrame, Execute
<1> HIDE DEF g
<1>5. Working'
  BY <1>1, <1>3, <1>4, AtSame, WorkingPushed
<1> QED
  BY <1>2, <1>3, <1>5, ForestFrame

LEMMA InterruptForest ==
  ASSUME ForestInv, TypeInv', frames # <<>>, NEW w \in Places, NEW pc \in Pcs,
         Interrupt(w, pc)
  PROVE  Forest' /\ Working'
<1>1. frames \in Seq(FrameType) /\ Top.sig \in Sigs /\ TypeOK
  BY TopType, FrameFields DEF ForestInv, TypeInv, TypeOK
<1>2. CASE Find(w, Top.sig) # NoDb
  <2>1. Find(w, Top.sig) \in Dbs /\ Execute(Find(w, Top.sig), pc)
    BY <1>1, <1>2, FindType DEF Interrupt
  <2> QED
    BY <2>1, ExecuteForest
<1>3. CASE Find(w, Top.sig) = NoDb
  <2>1. frames' = At(pc) /\ UNCHANGED <<heap, databases>>
    BY <1>3 DEF Interrupt
  <2>2. Working'
    BY <1>1, <2>1, AtSame, WorkingSame
  <2> QED
    BY <2>1, <2>2 DEF ForestInv, Forest, Registereds
<1> QED
  BY <1>2, <1>3

LEMMA MergeProcessForest ==
  ASSUME ForestInv, TypeInv', MergeProcess
  PROVE  Forest' /\ Working'
<1>1. TypeOK /\ On("merge", "fetch") /\ UNCHANGED <<frames, databases>>
      /\ ForestOf(heap, Registereds)
  BY DEF MergeProcess, ForestInv, TypeInv, Forest
<1>2. /\ frames # <<>> /\ Top.op = "merge" /\ Top.db \in Dbs /\ Top.loop \in Dbs
      /\ Top.key \in Int \cup {NoKey}
      /\ heap \in HeapType /\ frames \in Seq(FrameType)
  BY <1>1, OnType
<1>3. Top.db \notin heap.unused
  <2>1. Len(frames) \in DOMAIN frames /\ Top = frames[Len(frames)]
    BY <1>2, TopType, LenProperties
  <2> QED
    BY <1>2, <2>1 DEF ForestInv, Working
<1> DEFINE h == IF Top.key = NoKey THEN heap ELSE Construct(heap, Fetched, 1, Top.key)
<1>4. Fetched \in Procs
  BY DEF MergeProcess
<1>5. h \in HeapType
  BY <1>2, <1>4, ConstructType
<1>6. h.unused = heap.unused /\ h.store = heap.store
  BY <1>2 DEF Construct, HeapType
<1>7. Merged = Install(h, Top.db, Fetched)
  BY DEF Merged
<1> HIDE DEF h
<1>8. ForestOf(h, Registereds)
  BY <1>1, <1>6 DEF ForestOf
<1>9. /\ Merged.heap \in HeapType /\ ForestOf(Merged.heap, Registereds)
      /\ Merged.heap.unused \subseteq heap.unused
  BY <1>2, <1>3, <1>4, <1>5, <1>6, <1>7, <1>8, InstalledForest
<1>10. heap' = [Merged.heap EXCEPT !.store[Top.loop] = next(@)]
  BY DEF MergeProcess
<1>11. ForestOf(heap', Registereds) /\ heap'.unused = Merged.heap.unused
  BY <1>2, <1>9, <1>10, ForestIterated DEF HeapType
<1>12. Working'
  BY <1>1, <1>9, <1>11, WorkingSame
<1> QED
  BY <1>1, <1>11, <1>12, ForestFrame

LEMMA MergeForest ==
  ASSUME ForestInv, TypeInv', MergeProcess \/ MergeSubDatabase \/ MergeFatal \/ MergeEnd
  PROVE  Forest' /\ Working'
<1>1. TypeOK /\ On("merge", "fetch") /\ UNCHANGED databases /\ ForestOf(heap, Registereds)
  BY DEF MergeProcess, MergeSubDatabase, MergeFatal, MergeEnd, ForestInv, TypeInv, Forest
<1>2. /\ frames # <<>> /\ Top.op = "merge" /\ Top.sig \in Sigs /\ Top.db \in Dbs
      /\ Top.loop \in Dbs /\ heap \in HeapType /\ frames \in Seq(FrameType)
  BY <1>1, OnType
<1>3. Top.db \notin heap.unused
  <2>1. Len(frames) \in DOMAIN frames /\ Top = frames[Len(frames)]
    BY <1>2, TopType, LenProperties
  <2> QED
    BY <1>2, <2>1 DEF ForestInv, Working
<1>4. CASE MergeSubDatabase
  <2> DEFINE s == heap.store[Top.loop]
             g == MergeFrame(Top.sig, Top.db, Fetched, s.nodes[s.ptr].key)
  <2>1. s.nodes[s.ptr].key \in Int /\ Fetched \in Dbs
    BY <1>2, <1>4, HeapFields, currentType DEF MergeSubDatabase
  <2>2. g \in FrameType /\ g.db = Top.db
    BY <1>2, <2>1, NewFrameType, EmptySeq DEF MergeFrame
  <2>3. frames' = Append(At("next"), g)
    BY <1>4 DEF MergeSubDatabase
  <2> HIDE DEF g
  <2>4. heap' = [heap EXCEPT !.store[Fetched] = reset(@)]
    BY <1>4 DEF MergeSubDatabase, Rewind
  <2>5. ForestOf(heap', Registereds) /\ heap'.unused = heap.unused
    BY <1>1, <1>2, <2>1, <2>4, ForestIterated DEF HeapType
  <2>6. Working'
    BY <1>2, <1>3, <2>2, <2>3, <2>5, AtSame, WorkingPushed DEF Pcs
  <2> QED
    BY <1>1, <2>5, <2>6, ForestFrame
<1>5. CASE MergeFatal
  <2>1. heap' = [heap EXCEPT !.fatal = TRUE] /\ UNCHANGED frames
    BY <1>5 DEF MergeFatal
  <2>2. heap'.unused = heap.unused /\ heap'.store = heap.store
    BY <1>2, <2>1 DEF HeapType
  <2>3. ForestOf(heap', Registereds)
    BY <1>1, <2>2 DEF ForestOf
  <2>4. Working'
    BY <2>1, <2>2, WorkingSame
  <2> QED
    BY <1>1, <2>3, <2>4, ForestFrame
<1>6. CASE MergeEnd
  <2>1. frames' = SubSeq(frames, 1, Len(frames) - 1) /\ UNCHANGED heap
    BY <1>6 DEF MergeEnd, Popped
  <2>2. Len(frames) - 1 \in 0..Len(frames)
    BY <1>2, TopType
  <2>3. Working'
    BY <2>1, <2>2, WorkingCut
  <2> QED
    BY <1>1, <2>1, <2>3, ForestFrame
<1> QED
  BY <1>4, <1>5, <1>6, MergeProcessForest

LEMMA EmitForest ==
  ASSUME ForestInv, TypeInv',
         Accept \/ Reject \/ EmitBefore \/ EmitMain \/ EmitAfter \/ EmitEnd
  PROVE  Forest' /\ Working'
<1> USE DEF Places, Pcs
<1>1. TypeOK /\ (\E pc : On("emit", pc)) /\ ForestOf(heap, Registereds)
  BY DEF Accept, Reject, EmitBefore, EmitMain, EmitAfter, EmitEnd, ForestInv, TypeInv, Forest
<1>2. /\ frames # <<>> /\ Top.op = "emit" /\ Top.sig \in Sigs /\ Top.db \in Dbs
      /\ Top.pending \in Seq(Dbs) /\ heap \in HeapType /\ frames \in Seq(FrameType)
  BY <1>1, OnType
<1>3. CASE Accept
  <2> DEFINE d == Head(Top.pending)
             g == MergeFrame(Top.sig, Top.db, d, NoKey)
  <2>1. /\ Top.pending # <<>> /\ frames' = Append(NextDatabase, g)
        /\ UNCHANGED databases /\ heap' = [heap EXCEPT !.store[d] = reset(@)]
    BY <1>3 DEF Accept, Rewind
  <2>2. d \in Dbs
    BY <1>2, <2>1, HeadTailProperties
  <2>3. g \in FrameType /\ g.db = Top.db
    BY <1>2, <2>2, NewFrameType, EmptySeq DEF MergeFrame
  <2> HIDE DEF d, g
  <2>4. Top.db \notin heap.unused
    <3>1. Len(frames) \in DOMAIN frames /\ Top = frames[Len(frames)]
      BY <1>2, TopType, LenProperties
    <3> QED
      BY <1>2, <3>1 DEF ForestInv, Working
  <2>5. ForestOf(heap', Registereds) /\ heap'.unused = heap.unused
    BY <1>1, <1>2, <2>1, <2>2, ForestIterated DEF HeapType
  <2>6. Working'
    BY <1>2, <2>1, <2>3, <2>4, <2>5, NextDatabaseSame, WorkingPushed
  <2> QED
    BY <2>1, <2>5, <2>6, ForestFrame
<1>4. CASE Reject
  <2>1. Top.pending # <<>> /\ frames' = NextDatabase /\ UNCHANGED <<heap, databases>>
    BY <1>4 DEF Reject
  <2>2. Working'
    BY <1>2, <2>1, NextDatabaseSame, WorkingSame
  <2> QED
    BY <1>1, <2>1, <2>2, ForestFrame
<1>5. CASE EmitBefore
  BY <1>2, <1>5, InterruptForest DEF EmitBefore
<1>6. CASE EmitMain
  BY <1>2, <1>6, ExecuteForest DEF EmitMain
<1>7. CASE EmitAfter
  BY <1>2, <1>7, InterruptForest DEF EmitAfter
<1>8. CASE EmitEnd
  <2>1. frames' = SubSeq(frames, 1, Len(frames) - 1) /\ UNCHANGED <<heap, databases>>
    BY <1>8 DEF EmitEnd, Popped
  <2>2. Len(frames) - 1 \in 0..Len(frames)
    BY <1>2, TopType
  <2>3. Working'
    BY <2>1, <2>2, WorkingCut
  <2> QED
    BY <1>1, <2>1, <2>3, ForestFrame
<1> QED
  BY <1>3, <1>4, <1>5, <1>6, <1>7, <1>8

LEMMA ExecForest ==
  ASSUME ForestInv, TypeInv',
         \/ ExecEnd \/ ExecSubDatabase \/ ExecProcess \/ Advance
         \/ \E result \in Returns : Return(result)
  PROVE  Forest' /\ Working'
<1> USE DEF Pcs
<1>1. TypeOK /\ (\E op, pc : On(op, pc)) /\ ForestOf(heap, Registereds)
  BY DEF ExecEnd, ExecSubDatabase, ExecProcess, Advance, Return, ForestInv, TypeInv, Forest
<1>2. /\ frames # <<>> /\ Top \in FrameType /\ Top.db \in Dbs /\ Top.loop \in Dbs
      /\ heap \in HeapType /\ frames \in Seq(FrameType)
  BY <1>1, OnType
<1>3. CASE ExecEnd
  <2>1. frames' = SubSeq(frames, 1, Len(frames) - 1) /\ UNCHANGED <<heap, databases>>
    BY <1>3 DEF ExecEnd, Popped
  <2>2. Len(frames) - 1 \in 0..Len(frames)
    BY <1>2, TopType
  <2>3. Working'
    BY <2>1, <2>2, WorkingCut
  <2> QED
    BY <1>1, <2>1, <2>3, ForestFrame
<1>4. CASE ExecSubDatabase
  BY <1>2, <1>4, ExecuteForest DEF ExecSubDatabase
<1>5. CASE ExecProcess
  <2>1. /\ frames' = WithProc("running", Fetched) /\ Fetched \in Procs
        /\ heap' = [heap EXCEPT !.exhaust[Fetched] = decrement_exhaust(@)]
        /\ UNCHANGED databases
    BY <1>5 DEF ExecProcess, WithProc
  <2>2. heap'.unused = heap.unused /\ heap'.store = heap.store
    BY <1>2, <2>1 DEF HeapType
  <2>3. ForestOf(heap', Registereds)
    BY <1>1, <2>2 DEF ForestOf
  <2>4. /\ Len(frames') = Len(frames)
        /\ \A n \in 1..Len(frames) :
             frames'[n].op = frames[n].op /\ frames'[n].db = frames[n].db
    BY <1>2, <2>1, ProcSame
  <2>5. Working'
    BY <2>2, <2>4, WorkingSame
  <2> QED
    BY <2>1, <2>3, <2>5, ForestFrame
<1>6. CASE Advance
  <2>1. /\ frames' = At("fetch") /\ UNCHANGED databases
        /\ heap' = [heap EXCEPT !.store[Top.loop] = next(@)]
    BY <1>6 DEF Advance
  <2>2. ForestOf(heap', Registereds) /\ heap'.unused = heap.unused
    BY <1>1, <1>2, <2>1, ForestIterated DEF HeapType
  <2>3. Working'
    BY <1>2, <2>1, <2>2, AtSame, WorkingSame
  <2> QED
    BY <2>1, <2>2, <2>3, ForestFrame
<1>7. ASSUME NEW result \in Returns, Return(result)
      PROVE  Forest' /\ Working'
  <2> DEFINE p == Top.proc
             h == IF is_exhausted(heap.exhaust[p]) THEN Delete(heap, Top.db, p) ELSE heap
  <2>1. h \in HeapType /\ ForestOf(h, Registereds) /\ h.unused = heap.unused
    BY <1>1, <1>2, DeleteType, DeleteForest
  <2>2. /\ heap' = [h EXCEPT !.store[Top.loop] = next(@)]
        /\ frames' = WithProc("fetch", NoProc) /\ UNCHANGED databases
    BY <1>7 DEF Return, WithProc
  <2> HIDE DEF h
  <2>3. ForestOf(heap', Registereds) /\ heap'.unused = heap.unused
    BY <1>2, <2>1, <2>2, ForestIterated DEF HeapType
  <2>4. /\ Len(frames') = Len(frames)
        /\ \A n \in 1..Len(frames) :
             frames'[n].op = frames[n].op /\ frames'[n].db = frames[n].db
    BY <1>2, <2>2, ProcSame
  <2>5. Working'
    BY <2>3, <2>4, WorkingSame
  <2> QED
    BY <2>2, <2>3, <2>5, ForestFrame
<1> QED
  BY <1>3, <1>4, <1>5, <1>6, <1>7

----------------------------------------------------------------------------
(* The calls of user code.                                                 *)

\* What a call installs process p with, on heap g and database d: the databases
\* are as they were, but that d may be created and registered, and the process
\* may be constructed.
Installs(g, d, w, s, p) ==
  /\ g \in HeapType /\ d \in Dbs /\ d \notin g.unused
  /\ g.store = heap.store
  /\ \/ g.unused = heap.unused /\ d = Find(w, s)
     \/ g.unused = heap.unused \ {d} /\ d \in heap.unused /\ Find(w, s) = NoDb
  /\ \/ p \in made /\ Reinstall /\ g.prio = heap.prio /\ g.exhaust = heap.exhaust
     \/ /\ p \notin made
        /\ \E e \in Exhausts, k \in Priorities :
             /\ g.prio = [heap.prio EXCEPT ![p] = k]
             /\ g.exhaust = [heap.exhaust EXCEPT ![p] = set_exhaust(e)]
  /\ Install(g, d, p).done
  /\ heap' = Install(g, d, p).heap
  /\ databases' = [databases EXCEPT ![w][Index[s]] = d]
  /\ made' = made \cup {p}
  /\ UNCHANGED frames
  /\ Registereds' \subseteq Registereds \cup {d}
  /\ d \in Registereds'
  /\ ForestOf(g, Registereds')

LEMMA InstallOnFacts ==
  ASSUME ForestInv, NEW w \in Places, NEW s \in Sigs, NEW p \in Procs,
         InstallOn(w, s, p)
  PROVE  \E g, d : Installs(g, d, w, s, p)
<1>0. TypeOK /\ heap \in HeapType /\ ForestOf(heap, Registereds)
  BY DEF ForestInv, TypeInv, TypeOK, Forest
<1>1. PICK h \in Offered(p) :
        LET r == Registered(h, w, s)
            c == Install(r.heap, r.db, p)
        IN  /\ HasRoom(w, s) /\ c.done
            /\ heap' = c.heap
            /\ made' = made \cup {p}
            /\ databases' = [databases EXCEPT ![w][Index[s]] = r.db]
            /\ Registering(w, s)
            /\ UNCHANGED <<halted, parent, signal, history, frames>>
  BY Zenon DEF InstallOn
<1> DEFINE r == Registered(h, w, s)
           constructed(e, k) ==
             /\ h.prio = [heap.prio EXCEPT ![p] = k]
             /\ h.exhaust = [heap.exhaust EXCEPT ![p] = set_exhaust(e)]
<1>2. /\ h \in HeapType /\ h.unused = heap.unused /\ h.store = heap.store
      /\ \/ p \in made /\ Reinstall /\ h.prio = heap.prio /\ h.exhaust = heap.exhaust
         \/ p \notin made /\ \E e \in Exhausts, k \in Priorities : constructed(e, k)
  <2>1. CASE p \in made
    <3>1. h = heap /\ Reinstall
      BY <2>1 DEF Offered
    <3> QED
      BY <1>0, <2>1, <3>1
  <2>2. CASE p \notin made
    <3>1. PICK e \in Exhausts, k \in Priorities : h = Construct(heap, p, e, k)
      BY <2>2 DEF Offered
    <3>2. e \in Int \cup {Never} /\ k \in Int
      BY RatesType
    <3>3. h \in HeapType /\ h.unused = heap.unused /\ h.store = heap.store
      BY <1>0, <3>1, <3>2, ConstructType DEF Construct, HeapType
    <3>4. constructed(e, k)
      BY <1>0, <3>1 DEF Construct, HeapType
    <3> QED
      BY <2>2, <3>3, <3>4
  <2> QED
    BY <2>1, <2>2
<1>3. /\ heap' = Install(r.heap, r.db, p).heap /\ UNCHANGED frames
      /\ Install(r.heap, r.db, p).done /\ made' = made \cup {p}
      /\ databases' = [databases EXCEPT ![w][Index[s]] = r.db]
      /\ HasRoom(w, s)
  BY <1>1
\* The database is the registered one, or one that is created.
<1>4. /\ r.heap \in HeapType /\ r.heap.store = heap.store
      /\ r.heap.prio = h.prio /\ r.heap.exhaust = h.exhaust
      /\ r.db \in Dbs /\ r.db \notin r.heap.unused
      /\ \/ r.heap.unused = heap.unused /\ r.db \in Registereds /\ r.db = Find(w, s)
         \/ /\ r.heap.unused = heap.unused \ {r.db} /\ r.db \in heap.unused
            /\ Find(w, s) = NoDb
  <2>1. CASE Find(w, s) # NoDb
    <3>1. r = [heap |-> h, db |-> Find(w, s)]
      BY <2>1 DEF Registered
    <3> QED
      BY <1>0, <1>2, <2>1, <3>1, FoundCreated, RegisteredsType
  <2>2. CASE Find(w, s) = NoDb
    <3> DEFINE d == CHOOSE x \in h.unused : TRUE
    <3>1. d \in h.unused /\ d \in Dbs
      BY <1>2, <1>3, <2>2, HeapFields DEF HasRoom
    <3>2. r = [heap |-> [h EXCEPT !.unused = @ \ {d}], db |-> d]
      BY <2>2 DEF Registered
    <3> HIDE DEF d, r, constructed
    <3>3. r.db = d /\ r.heap \in HeapType
      BY <1>2, <3>1, <3>2, unusedType
    <3>4. /\ r.heap.store = h.store /\ r.heap.unused = h.unused \ {d}
          /\ r.heap.prio = h.prio /\ r.heap.exhaust = h.exhaust
      BY <1>2, <3>2 DEF HeapType
    <3> QED
      BY <1>2, <2>2, <3>1, <3>3, <3>4
  <2> QED
    BY <2>1, <2>2
<1> HIDE DEF r
<1>5. Registereds' \subseteq Registereds \cup {r.db} /\ r.db \in Registereds'
  <2>1. Index[s] \in Idx /\ databases \in [Places -> [Idx -> Dbs \cup {NoDb}]]
    BY <1>0, FindType DEF TypeOK
  <2>2. /\ \A v \in Places, i \in Idx :
             databases'[v][i] = r.db \/ databases'[v][i] = databases[v][i]
        /\ databases'[w][Index[s]] = r.db /\ r.db # NoDb
    BY <1>3, <1>4, <2>1, NothingType
  <2> QED
    BY <2>1, <2>2 DEF Registereds
<1> DEFINE roots == Registereds'
<1>6. ForestOf(r.heap, roots)
  <2>1. roots \subseteq Registereds \cup (heap.unused \ r.heap.unused)
    BY <1>4, <1>5
  <2> HIDE DEF roots
  <2>2. \A d \in r.heap.unused : r.heap.store[d] = empty
    BY <1>0, <1>4, ForestFacts
  <2> QED
    BY <1>0, <1>4, <2>1, <2>2, ForestKept
<1> HIDE DEF roots, constructed
<1>7. \/ p \in made /\ Reinstall /\ r.heap.prio = heap.prio /\ r.heap.exhaust = heap.exhaust
      \/ /\ p \notin made
         /\ \E e \in Exhausts, k \in Priorities :
              /\ r.heap.prio = [heap.prio EXCEPT ![p] = k]
              /\ r.heap.exhaust = [heap.exhaust EXCEPT ![p] = set_exhaust(e)]
  BY <1>2, <1>4 DEF constructed
<1> QED
  BY <1>3, <1>4, <1>5, <1>6, <1>7 DEF Installs, roots

LEMMA InstallOnForest ==
  ASSUME ForestInv, TypeInv', NEW w \in Places, NEW s \in Sigs, NEW p \in Procs,
         InstallOn(w, s, p)
  PROVE  Forest' /\ Working'
<1>1. PICK g, d : Installs(g, d, w, s, p)
  BY InstallOnFacts
<1> DEFINE roots == Registereds'
<1>2. /\ ForestOf(g, roots) /\ g \in HeapType /\ d \in Dbs /\ d \notin g.unused
      /\ heap' = Install(g, d, p).heap /\ UNCHANGED frames
      /\ g.unused \subseteq heap.unused
  BY <1>1 DEF Installs
<1> HIDE DEF roots
<1>3. ForestOf(heap', roots) /\ heap'.unused \subseteq g.unused
  BY <1>2, InstalledForest
<1>4. Working'
  BY <1>2, <1>3, WorkingSame
<1> QED
  BY <1>3, <1>4 DEF Forest, roots

\* Calls that walk a database, or delete a process from it.
LEMMA DatabasesForest ==
  ASSUME ForestInv, TypeInv', NEW s \in Sigs,
         \/ \E p \in Procs : DeleteProcess(s, p)
         \/ HasSignalExhausted(s) \/ EmitNothing(s)
  PROVE  Forest' /\ Working'
<1> DEFINE d == Find("index", s)
<1>1. /\ heap \in HeapType /\ ForestOf(heap, Registereds) /\ d \in Dbs \cup {NoDb}
  BY FindType DEF ForestInv, TypeInv, TypeOK, Forest, Places
<1>2. UNCHANGED <<databases, frames>>
  BY DEF DeleteProcess, HasSignalExhausted, EmitNothing
<1>3. \/ heap' = heap
      \/ d # NoDb /\ \E p : heap' = Delete(heap, d, p)
      \/ d # NoDb /\ heap' = AfterExhausted(heap, d)
  BY DEF DeleteProcess, HasSignalExhausted, EmitNothing
<1> HIDE DEF d
<1>4. ForestOf(heap', Registereds) /\ heap'.unused = heap.unused
  BY <1>1, <1>3, DeleteForest, WalkForest DEF AfterExhausted
<1>5. Working'
  BY <1>2, <1>4, WorkingSame
<1> QED
  BY <1>2, <1>4, <1>5, ForestFrame

\* Calls that take signals out of the registry, or leave it as it is.
LEMMA RegistryForest ==
  ASSUME ForestInv, TypeInv', UNCHANGED frames,
         heap' = heap \/ heap' = Descended,
         Registereds' \subseteq Registereds
  PROVE  Forest' /\ Working'
<1>1. heap \in HeapType /\ ForestOf(heap, Registereds)
  BY DEF ForestInv, TypeInv, TypeOK, Forest
<1>2. heap'.unused = heap.unused /\ heap'.store = heap.store
  BY <1>1 DEF HeapType, Descended
<1> DEFINE roots == Registereds'
<1>3. ForestOf(heap', roots)
  BY <1>1, <1>2 DEF ForestOf
<1>4. Working'
  BY <1>2, WorkingSame
<1> QED
  BY <1>3, <1>4 DEF Forest

LEMMA EmitCallForest ==
  ASSUME ForestInv, TypeInv', NEW s \in Sigs, Emit(s)
  PROVE  Forest' /\ Working'
<1> DEFINE d == Find("index", s)
           g == EmitFrame(s, d, Evaluated)
<1>1. /\ heap \in HeapType /\ ForestOf(heap, Registereds) /\ frames \in Seq(FrameType)
      /\ frames' \in Seq(FrameType)
  BY DEF ForestInv, TypeInv, TypeOK, Forest
<1>2. d \in Dbs /\ d \notin heap.unused
  BY FoundCreated DEF Emit, Places
<1>3. /\ heap' = AfterExhausted(heap, d) /\ UNCHANGED databases
      /\ frames' = Append(frames, g)
  BY DEF Emit, Push
<1>4. g.db = d
  BY DEF EmitFrame
<1> HIDE DEF g, d
<1>5. g \in FrameType
  <2>1. Len(frames) + 1 \in 1..Len(frames') /\ frames'[Len(frames) + 1] = g
    BY <1>1, <1>3, LenProperties, AppendProperties
  <2> QED
    BY <1>1, <2>1, ElementOfSeq
<1>6. ForestOf(heap', Registereds) /\ heap'.unused = heap.unused
  BY <1>1, <1>2, <1>3, WalkForest DEF AfterExhausted
<1>7. Working'
  BY <1>1, <1>2, <1>3, <1>4, <1>5, <1>6, WorkingPushed
<1> QED
  BY <1>3, <1>6, <1>7, ForestFrame

LEMMA ThrowForest ==
  ASSUME ForestInv, TypeInv', Throw
  PROVE  Forest' /\ Working'
<1>1. frames \in Seq(FrameType) /\ ForestOf(heap, Registereds)
  BY DEF ForestInv, TypeInv, TypeOK, Forest
<1>2. PICK k \in 0..Len(frames) : frames' = SubSeq(frames, 1, k)
  BY <1>1, LenProperties DEF Throw
<1>3. UNCHANGED <<heap, databases>>
  BY DEF Throw
<1>4. Working'
  BY <1>2, <1>3, WorkingCut
<1> QED
  BY <1>1, <1>3, <1>4, ForestFrame

LEMMA UserForest ==
  ASSUME ForestInv, TypeInv', User
  PROVE  Forest' /\ Working'
<1>1. ASSUME NEW s \in Sigs, NEW p \in Procs, Signal(s, p) \/ Before(s, p) \/ After(s, p)
      PROVE  Forest' /\ Working'
  <2>1. \E w \in Places : InstallOn(w, s, p)
    BY <1>1 DEF Signal, Before, After, Places
  <2> QED
    BY <2>1, InstallOnForest
<1>2. ASSUME NEW s \in Sigs, NEW erase \in BOOLEAN, DeleteSignal(s, erase)
      PROVE  Forest' /\ Working'
  <2>1. databases \in [Places -> [Idx -> Dbs \cup {NoDb}]] /\ Index[s] \in Idx
    BY FindType, IndexType DEF ForestInv, TypeInv, TypeOK
  <2>2. /\ databases' = [databases EXCEPT !["index"][Index[s]] = NoDb]
        /\ UNCHANGED frames /\ (heap' = heap \/ heap' = Descended)
    BY <1>2 DEF DeleteSignal
  <2>3. \A v \in Places, i \in Idx :
          databases'[v][i] = NoDb \/ databases'[v][i] = databases[v][i]
    BY <2>1, <2>2
  <2>4. Registereds' \subseteq Registereds
    BY <2>3 DEF Registereds
  <2> QED
    BY <2>2, <2>4, RegistryForest
<1>3. CASE Flush
  <2>1. /\ databases' = [w \in Places |-> [i \in Idx |-> NoDb]]
        /\ UNCHANGED <<heap, frames>>
    BY <1>3 DEF Flush
  <2>2. Registereds' \subseteq Registereds
    BY <2>1 DEF Registereds
  <2> QED
    BY <2>1, <2>2, RegistryForest
<1>4. ASSUME NEW s \in Sigs, EraseHistory(s) \/ Halt(s) \/ NewSignal(s)
      PROVE  Forest' /\ Working'
  <2>1. UNCHANGED <<frames, databases>> /\ (heap' = heap \/ heap' = Descended)
    BY <1>4 DEF EraseHistory, Halt, NewSignal
  <2>2. Registereds' \subseteq Registereds
    BY <2>1 DEF Registereds
  <2> QED
    BY <2>1, <2>2, RegistryForest
<1>5. ASSUME NEW flag \in BOOLEAN, SetSignalHistory(flag)
      PROVE  Forest' /\ Working'
  <2>1. UNCHANGED <<frames, databases, heap>>
    BY <1>5 DEF SetSignalHistory
  <2>2. Registereds' \subseteq Registereds
    BY <2>1 DEF Registereds
  <2> QED
    BY <2>1, <2>2, RegistryForest
<1> QED
  BY <1>1, <1>2, <1>3, <1>4, <1>5, DatabasesForest, EmitCallForest, ThrowForest DEF User

LEMMA InitForest == Init => ForestInv
<1> SUFFICES ASSUME Init PROVE ForestInv
  OBVIOUS
<1>1. TypeInv
  BY InitType
<1>2. heap \in HeapType /\ \A d \in Dbs : heap.store[d] = empty
  BY <1>1 DEF Init, TypeInv, TypeOK
<1>3. Registereds = {}
  BY DEF Init, Registereds
<1>4. Forest
  BY <1>2, <1>3, Initially DEF Forest
<1>5. Working
  <2>1. DOMAIN frames = {}
    BY DEF Init
  <2> QED
    BY <2>1 DEF Working
<1> QED
  BY <1>1, <1>4, <1>5 DEF ForestInv

LEMMA ForestNext == ForestInv /\ [Next]_vars => ForestInv'
<1> SUFFICES ASSUME ForestInv, [Next]_vars, TypeInv' PROVE Forest' /\ Working'
  BY NextType DEF ForestInv
<1>1. CASE UNCHANGED vars
  BY <1>1 DEF vars, ForestInv, Forest, Registereds, Working
<1> QED
  BY <1>1, MergeForest, EmitForest, ExecForest, UserForest DEF Next, Step, Terminated

\* The process databases are trees, rooted at the databases of the registered
\* signals, whatever processes install, delete, merge and flush while loops
\* hold the databases: keys are unique and pointers in range, no database is in
\* two places, and a walk never comes back to a database that it is in.
THEOREM DatabasesAreTrees == Spec => []Forest
<1>1. ForestInv => Forest
  BY DEF ForestInv
<1> QED
  BY <1>1, InitForest, ForestNext, PTL DEF Spec
=============================================================================

--------------------------- MODULE SequenceLemmas ---------------------------
(***************************************************************************)
(* Facts about sequences that the proofs of the project's modules share.   *)
(***************************************************************************)
EXTENDS SequencesExt, SequenceTheorems, WellFoundedInduction, TLAPS

LEMMA HeadTailType ==
  ASSUME NEW S, NEW s \in Seq(S), s # <<>>
  PROVE  Head(s) \in S /\ Tail(s) \in Seq(S)
BY HeadTailProperties

LEMMA SeqMonotone ==
  ASSUME NEW S, NEW T, S \subseteq T, NEW s \in Seq(S)
  PROVE  s \in Seq(T)
<1>1. s \in [1..Len(s) -> S] /\ Len(s) \in Nat
  BY LenProperties
<1>2. s \in [1..Len(s) -> T]
  BY <1>1
<1> QED
  BY <1>1, <1>2, SeqDef

\* Removing a node of a sequence leaves a sequence.
LEMMA RemoveAtType ==
  ASSUME NEW S, NEW s \in Seq(S), NEW i \in DOMAIN s
  PROVE  RemoveAt(s, i) \in Seq(S)
BY DEF RemoveAt

LEMMA PrefixType ==
  ASSUME NEW S, NEW s \in Seq(S), NEW k \in 0..Len(s)
  PROVE  /\ SubSeq(s, 1, k) \in Seq(S)
         /\ Len(SubSeq(s, 1, k)) = k
         /\ \A n \in 1..k : SubSeq(s, 1, k)[n] = s[n]
<1>1. Len(s) \in Nat /\ k \in Nat
  BY LenProperties
<1> QED
  BY <1>1

\* The members after i move down one place.
LEMMA RemoveAtElements ==
  ASSUME NEW S, NEW s \in Seq(S), NEW i \in DOMAIN s
  PROVE  /\ Len(s) \in Nat /\ i \in 1..Len(s) /\ DOMAIN s = 1..Len(s)
         /\ Len(RemoveAt(s, i)) = Len(s) - 1
         /\ DOMAIN RemoveAt(s, i) = 1..(Len(s) - 1)
         /\ \A n \in 1..(Len(s) - 1) :
              RemoveAt(s, i)[n] = IF n < i THEN s[n] ELSE s[n + 1]
<1> DEFINE r == RemoveAt(s, i)
<1>1. Len(s) \in Nat /\ i \in 1..Len(s) /\ DOMAIN s = 1..Len(s)
  BY LenProperties
<1> DEFINE a == SubSeq(s, 1, i - 1)
           b == SubSeq(s, i + 1, Len(s))
<1>2. /\ a \in Seq(S) /\ Len(a) = i - 1
      /\ \A n \in 1..(i - 1) : a[n] = s[n]
  BY <1>1
<1>3. /\ b \in Seq(S) /\ Len(b) = Len(s) - i
      /\ \A n \in 1..(Len(s) - i) : b[n] = s[n + i]
  BY <1>1
<1> HIDE DEF a, b
<1>4. /\ a \o b \in Seq(S) /\ Len(a \o b) = Len(s) - 1
      /\ \A n \in 1..(Len(s) - 1) :
           (a \o b)[n] = IF n < i THEN s[n] ELSE s[n + 1]
  <2>0. a \in Seq(S) /\ b \in Seq(S)
    BY <1>2, <1>3
  <2>1. /\ a \o b \in Seq(S) /\ Len(a \o b) = Len(a) + Len(b)
        /\ \A n \in 1..(Len(a) + Len(b)) :
             (a \o b)[n] = IF n <= Len(a) THEN a[n] ELSE b[n - Len(a)]
    BY <2>0, ConcatProperties
  <2>2. Len(a) + Len(b) = Len(s) - 1
    BY <1>1, <1>2, <1>3
  <2>3. ASSUME NEW n \in 1..(Len(s) - 1)
        PROVE  (a \o b)[n] = IF n < i THEN s[n] ELSE s[n + 1]
    <3>1. n \in 1..(Len(a) + Len(b)) /\ n \in Nat
      BY <1>1, <2>2
    <3>2. (a \o b)[n] = IF n <= Len(a) THEN a[n] ELSE b[n - Len(a)]
      BY <2>1, <3>1
    <3>3. CASE n < i
      BY <1>1, <1>2, <3>1, <3>2, <3>3
    <3>4. CASE ~(n < i)
      <4>1. n - (i - 1) \in 1..(Len(s) - i) /\ (n - (i - 1)) + i = n + 1
        BY <1>1, <3>1, <3>4
      <4>2. b[n - (i - 1)] = s[n + 1]
        BY <1>3, <4>1
      <4> QED
        BY <1>1, <1>2, <3>1, <3>2, <3>4, <4>2
    <3> QED
      BY <3>3, <3>4
  <2> QED
    BY <2>1, <2>2, <2>3
<1>5. r = a \o b
  BY DEF RemoveAt, a, b
<1> HIDE DEF r
<1>6. DOMAIN r = 1..(Len(s) - 1)
  BY <1>4, <1>5, LenProperties
<1> QED
  BY <1>1, <1>4, <1>5, <1>6 DEF r

\* Removing a member other than the one at i keeps it, and keeps it unique.
LEMMA RemoveAtMembers ==
  ASSUME NEW S, NEW s \in Seq(S), NEW i \in DOMAIN s,
         \A m, n \in DOMAIN s : s[m] = s[n] => m = n
  PROVE  /\ \A m, n \in DOMAIN RemoveAt(s, i) :
              RemoveAt(s, i)[m] = RemoveAt(s, i)[n] => m = n
         /\ \A n \in DOMAIN RemoveAt(s, i) :
              \E m \in DOMAIN s : m # i /\ RemoveAt(s, i)[n] = s[m]
         /\ \A m \in DOMAIN s : m # i =>
              \E n \in DOMAIN RemoveAt(s, i) : RemoveAt(s, i)[n] = s[m]
<1> DEFINE r == RemoveAt(s, i)
<1>1. /\ Len(s) \in Nat /\ i \in 1..Len(s) /\ DOMAIN s = 1..Len(s)
      /\ DOMAIN r = 1..(Len(s) - 1)
      /\ \A n \in 1..(Len(s) - 1) : r[n] = IF n < i THEN s[n] ELSE s[n + 1]
  BY RemoveAtElements
<1> HIDE DEF r
<1>2. \A m, n \in DOMAIN r : r[m] = r[n] => m = n
  BY <1>1
<1>3. \A n \in DOMAIN r : \E m \in DOMAIN s : m # i /\ r[n] = s[m]
  BY <1>1
<1>4. ASSUME NEW m \in DOMAIN s, m # i
      PROVE  \E n \in DOMAIN r : r[n] = s[m]
  <2>1. CASE m < i
    BY <1>1, <2>1
  <2>2. CASE m > i
    <3>1. m - 1 \in DOMAIN r /\ r[m - 1] = s[m]
      BY <1>1, <2>2
    <3> QED
      BY <3>1
  <2> QED
    BY <1>1, <1>4, <2>1, <2>2
<1> QED
  BY <1>2, <1>3, <1>4 DEF r

\* A queue that takes what it does not hold stays without repetition.
LEMMA QueueAppend ==
  ASSUME NEW S, NEW q \in Seq(S), IsInjective(q), NEW s \in S, s \notin Range(q)
  PROVE  IsInjective(Append(q, s)) /\ Range(Append(q, s)) = Range(q) \cup {s}
<1>1. /\ Len(q) \in Nat /\ DOMAIN q = 1..Len(q)
      /\ DOMAIN Append(q, s) = 1..(Len(q) + 1)
      /\ \A i \in 1..Len(q) : Append(q, s)[i] = q[i]
      /\ Append(q, s)[Len(q) + 1] = s
  BY LenProperties, AppendProperties
<1>2. IsInjective(Append(q, s))
  BY <1>1 DEF IsInjective, Range
<1>3. ASSUME NEW i \in DOMAIN Append(q, s)
      PROVE  Append(q, s)[i] \in Range(q) \cup {s}
  BY <1>1 DEF Range
<1>4. Range(q) \cup {s} \subseteq Range(Append(q, s))
  <2>1. ASSUME NEW i \in DOMAIN q PROVE q[i] \in Range(Append(q, s))
    <3>1. i \in DOMAIN Append(q, s) /\ Append(q, s)[i] = q[i]
      BY <1>1
    <3> QED
      BY <3>1 DEF Range
  <2>2. s \in Range(Append(q, s))
    <3>1. Len(q) + 1 \in DOMAIN Append(q, s)
      BY <1>1
    <3> QED
      BY <1>1, <3>1 DEF Range
  <2> QED
    BY <2>1, <2>2 DEF Range
<1> QED
  BY <1>2, <1>3, <1>4 DEF Range

\* The rest of a queue without repetition has none, and not its head.
LEMMA QueueTail ==
  ASSUME NEW S, NEW q \in Seq(S), q # <<>>, IsInjective(q)
  PROVE  /\ IsInjective(Tail(q)) /\ Range(Tail(q)) \subseteq Range(q)
         /\ Head(q) \in Range(q) /\ Head(q) \notin Range(Tail(q))
<1>1. /\ Len(q) \in Nat /\ DOMAIN q = 1..Len(q) /\ 1 \in DOMAIN q /\ Head(q) = q[1]
      /\ DOMAIN Tail(q) = 1..(Len(q) - 1)
      /\ \A i \in 1..(Len(q) - 1) : Tail(q)[i] = q[i + 1]
  BY LenProperties, EmptySeq, HeadTailProperties
<1>2. \A i \in DOMAIN Tail(q) : i + 1 \in DOMAIN q /\ Tail(q)[i] = q[i + 1] /\ i + 1 # 1
  BY <1>1
<1>3. IsInjective(Tail(q))
  <2> SUFFICES ASSUME NEW i \in DOMAIN Tail(q), NEW j \in DOMAIN Tail(q), Tail(q)[i] = Tail(q)[j]
               PROVE  i = j
    BY DEF IsInjective
  <2>1. i + 1 = j + 1
    BY <1>2 DEF IsInjective
  <2> QED
    BY <1>1, <2>1
<1>4. Range(Tail(q)) \subseteq Range(q) /\ Head(q) \in Range(q)
  BY <1>1, <1>2 DEF Range
<1>5. Head(q) \notin Range(Tail(q))
  BY <1>1, <1>2 DEF Range, IsInjective
<1> QED
  BY <1>3, <1>4, <1>5

\* A queue without one of its elements.
LEMMA QueueRemove ==
  ASSUME NEW E, NEW q \in Seq(E), IsInjective(q), NEW i \in DOMAIN q
  PROVE  /\ RemoveAt(q, i) \in Seq(E) /\ IsInjective(RemoveAt(q, i))
         /\ Range(RemoveAt(q, i)) = Range(q) \ {q[i]}
<1> DEFINE r == RemoveAt(q, i)
<1>1. /\ Len(q) \in Nat /\ i \in 1..Len(q) /\ DOMAIN q = 1..Len(q)
      /\ DOMAIN r = 1..(Len(q) - 1)
      /\ \A n \in 1..(Len(q) - 1) : r[n] = IF n < i THEN q[n] ELSE q[n + 1]
  BY RemoveAtElements
<1>2. \A m, n \in DOMAIN q : q[m] = q[n] => m = n
  BY DEF IsInjective
<1>3. IsInjective(r)
  BY <1>2, RemoveAtMembers DEF IsInjective
<1>4. \A n \in DOMAIN r : r[n] \in Range(q) \ {q[i]}
  <2> TAKE n \in DOMAIN r
  <2>1. PICK m \in DOMAIN q : m # i /\ r[n] = q[m]
    BY <1>2, RemoveAtMembers
  <2> QED BY <2>1, <1>2 DEF Range
<1>5. ASSUME NEW m \in DOMAIN q, m # i
      PROVE  q[m] \in Range(r)
  <2>1. CASE m < i
    <3>1. m \in DOMAIN r /\ r[m] = q[m]
      BY <1>1, <2>1
    <3> QED BY <3>1 DEF Range
  <2>2. CASE m > i
    <3>1. m - 1 \in DOMAIN r /\ r[m - 1] = q[m]
      BY <1>1, <2>2
    <3> QED BY <3>1 DEF Range
  <2> QED BY <1>1, <1>5, <2>1, <2>2
<1>6. r \in Seq(E)
  BY RemoveAtType
<1>7. Range(r) \subseteq Range(q) \ {q[i]}
  BY <1>4 DEF Range
<1>8. Range(q) \ {q[i]} \subseteq Range(r)
  BY <1>5 DEF Range
<1> HIDE DEF r
<1>9. Range(r) = Range(q) \ {q[i]}
  BY <1>7, <1>8
<1> QED BY <1>3, <1>6, <1>9 DEF r

----------------------------------------------------------------------------
\* Induction, for a set of numbers.
LEMMA LeastNumber ==
  ASSUME NEW T \in SUBSET Nat, T # {}
  PROVE  \E x \in T : \A y \in T : x <= y
<1> DEFINE less == {ss \in Nat \X Nat : ss[1] < ss[2]}
<1>1. IsWellFoundedOn(less, Nat)
  BY NatLessThanWellFounded DEF OpToRel
<1>2. PICK x \in T : \A y \in T : <<y, x>> \notin less
  <2> HIDE DEF less
  <2> QED
    BY <1>1, WFMin
<1>3. ASSUME NEW y \in T, y < x PROVE <<y, x>> \in less
  <2>1. <<y, x>> \in Nat \X Nat
    OBVIOUS
  <2> QED
    BY <1>3, <2>1
<1>4. \A y \in T : x \in Nat /\ y \in Nat /\ ~(y < x)
  BY <1>2, <1>3
<1>5. \A y \in T : x <= y
  BY <1>4
<1> QED
  BY <1>5

LEMMA NumberInduction ==
  ASSUME NEW S \in SUBSET Nat, 0 \in S, \A n \in S : n + 1 \in S
  PROVE  \A n \in Nat : n \in S
<1> SUFFICES ASSUME Nat \ S # {} PROVE FALSE
  OBVIOUS
<1>1. PICK x \in Nat \ S : \A y \in Nat \ S : x <= y
  BY LeastNumber
<1>2. x - 1 \in Nat /\ x - 1 < x /\ (x - 1) + 1 = x
  BY <1>1
<1>3. x - 1 \in S
  BY <1>1, <1>2
<1> QED
  BY <1>1, <1>2, <1>3

----------------------------------------------------------------------------
(* FlattenSeq of the community modules.                                    *)

\* Concatenation, with a name that the provers do not take apart.
Joined(s, t) == s \o t

LEMMA JoinedType ==
  ASSUME NEW T
  PROVE  \A s, t \in Seq(T) : Joined(s, t) \in Seq(T)
BY ConcatProperties DEF Joined

LEMMA JoinedEmpty ==
  ASSUME NEW T
  PROVE  <<>> \in Seq(T) /\ \A s \in Seq(T) : Joined(<<>>, s) = s /\ Joined(s, <<>>) = s
BY ConcatEmptySeq, EmptySeq DEF Joined

LEMMA JoinedFollow ==
  ASSUME NEW T
  PROVE  \A s, t, r \in Seq(T) : Joined(Joined(s, t), r) = Joined(s, Joined(t, r))
BY ConcatAssociative DEF Joined

LEMMA JoinedHead ==
  ASSUME NEW T, NEW x \in T, NEW s \in Seq(T)
  PROVE  /\ Joined(<<x>>, s) # <<>>
         /\ Head(Joined(<<x>>, s)) = x /\ Tail(Joined(<<x>>, s)) = s
BY DEF Joined

\* What its recursive function says of the pieces u, up to the n-th.
Flattens(f, u, n) == \A i \in 1..n : f[i] = IF i = 1 THEN u[i] ELSE Joined(f[i - 1], u[i])

LEMMA FlattensSome ==
  ASSUME NEW T, NEW n \in Nat, NEW u \in [1..n -> Seq(T)]
  PROVE  \E f \in [1..n -> Seq(T)] : Flattens(f, u, n)
<1> DEFINE S == {k \in Nat : k <= n => \E f \in [1..k -> Seq(T)] : Flattens(f, u, k)}
<1>1. 0 \in S
  <2> DEFINE f == [i \in 1..0 |-> <<>>]
  <2>1. f \in [1..0 -> Seq(T)] /\ Flattens(f, u, 0)
    BY DEF Flattens
  <2> QED
    BY <2>1
<1>2. ASSUME NEW k \in S PROVE k + 1 \in S
  <2> SUFFICES ASSUME k + 1 <= n
               PROVE  \E f \in [1..(k + 1) -> Seq(T)] : Flattens(f, u, k + 1)
    OBVIOUS
  <2>1. k \in Nat /\ k <= n /\ k + 1 \in 1..n
    OBVIOUS
  <2>2. PICK f \in [1..k -> Seq(T)] : Flattens(f, u, k)
    BY <2>1
  <2> DEFINE x == IF k + 1 = 1 THEN u[k + 1] ELSE Joined(f[k], u[k + 1])
             g == [i \in 1..(k + 1) |-> IF i = k + 1 THEN x ELSE f[i]]
  <2>3. x \in Seq(T)
    <3>1. u[k + 1] \in Seq(T)
      BY <2>1
    <3>2. k # 0 => f[k] \in Seq(T)
      BY <2>1, <2>2
    <3>3. k # 0 => Joined(f[k], u[k + 1]) \in Seq(T)
      BY <3>1, <3>2, JoinedType
    <3>4. k + 1 # 1 => k # 0
      OBVIOUS
    <3> QED
      BY <3>1, <3>3, <3>4
  <2>4. \A i \in 1..(k + 1) : i # k + 1 => i \in 1..k /\ (i # 1 => i - 1 \in 1..k)
    BY <2>1
  <2>5. g \in [1..(k + 1) -> Seq(T)]
    <3> HIDE DEF x
    <3> QED
      BY <2>2, <2>3, <2>4
  <2>6. ASSUME NEW i \in 1..(k + 1)
        PROVE  g[i] = IF i = 1 THEN u[i] ELSE Joined(g[i - 1], u[i])
    <3>1. CASE i = k + 1
      <4>1. g[i] = x
        BY <3>1
      <4>2. i # 1 => i - 1 \in 1..(k + 1) /\ i - 1 # k + 1 /\ i - 1 = k
        BY <2>1, <3>1
      <4>3. i # 1 => g[i - 1] = f[k]
        BY <4>2
      <4> QED
        BY <3>1, <4>1, <4>3
    <3>2. CASE i # k + 1
      <4>1. i \in 1..k /\ g[i] = f[i]
        BY <2>4, <3>2
      <4>2. i # 1 => i - 1 \in 1..(k + 1) /\ i - 1 # k + 1
        BY <2>1, <4>1
      <4>3. i # 1 => g[i - 1] = f[i - 1]
        BY <4>2
      <4> QED
        BY <2>2, <4>1, <4>3 DEF Flattens
    <3> QED
      BY <3>1, <3>2
  <2> HIDE DEF g
  <2>7. Flattens(g, u, k + 1)
    BY <2>6 DEF Flattens
  <2> QED
    BY <2>5, <2>7
<1>3. n \in S
  <2> HIDE DEF S
  <2>1. S \in SUBSET Nat
    BY DEF S
  <2> QED
    BY <1>1, <1>2, <2>1, NumberInduction
<1> QED
  BY <1>3

LEMMA FlattensOne ==
  ASSUME NEW u, NEW n \in Nat, NEW f, NEW g, Flattens(f, u, n), Flattens(g, u, n)
  PROVE  \A i \in 1..n : f[i] = g[i]
<1> DEFINE S == {k \in Nat : k \in 1..n => f[k] = g[k]}
<1>1. 0 \in S
  OBVIOUS
<1>2. ASSUME NEW k \in S PROVE k + 1 \in S
  <2> SUFFICES ASSUME k + 1 \in 1..n PROVE f[k + 1] = g[k + 1]
    OBVIOUS
  <2>1. k \in Nat /\ (k + 1) - 1 = k /\ (k + 1 # 1 => k \in 1..n)
    OBVIOUS
  <2>2. k + 1 # 1 => f[k] = g[k]
    BY <2>1
  <2>3. f[k + 1] = IF k + 1 = 1 THEN u[k + 1] ELSE Joined(f[k], u[k + 1])
    BY <2>1 DEF Flattens
  <2>4. g[k + 1] = IF k + 1 = 1 THEN u[k + 1] ELSE Joined(g[k], u[k + 1])
    BY <2>1 DEF Flattens
  <2> QED
    BY <2>2, <2>3, <2>4
<1>3. \A k \in Nat : k \in S
  <2> HIDE DEF S
  <2>1. S \in SUBSET Nat
    BY DEF S
  <2> QED
    BY <1>1, <1>2, <2>1, NumberInduction
<1> QED
  BY <1>3

LEMMA FlattenIs ==
  ASSUME NEW T, NEW n \in Nat, n # 0, NEW u \in [1..n -> Seq(T)],
         NEW f \in [1..n -> Seq(T)], Flattens(f, u, n)
  PROVE  FlattenSeq(u) = f[n]
<1>1. Len(u) = n /\ u \in Seq(Seq(T))
  BY IsASeq, LenProperties
<1> DEFINE flat == CHOOSE g : g = [i \in 1..n |-> IF i = 1 THEN u[i] ELSE Joined(g[i - 1], u[i])]
<1>2. FlattenSeq(u) = flat[n]
  BY <1>1 DEF FlattenSeq, Joined
<1>3. f = [i \in 1..n |-> IF i = 1 THEN u[i] ELSE Joined(f[i - 1], u[i])]
  BY DEF Flattens
<1>4. flat = [i \in 1..n |-> IF i = 1 THEN u[i] ELSE Joined(flat[i - 1], u[i])]
  BY <1>3
<1> HIDE DEF flat
<1>5. Flattens(flat, u, n)
  BY <1>4 DEF Flattens
<1>6. n \in 1..n
  OBVIOUS
<1> QED
  BY <1>2, <1>5, <1>6, FlattensOne

LEMMA FlattenNone == FlattenSeq(<<>>) = <<>>
BY EmptySeq DEF FlattenSeq

LEMMA FlattenType ==
  ASSUME NEW T, NEW n \in Nat, NEW u \in [1..n -> Seq(T)]
  PROVE  FlattenSeq(u) \in Seq(T)
<1>1. CASE n = 0
  <2>1. u \in Seq(Seq(T)) /\ Len(u) = 0
    BY <1>1, IsASeq, LenProperties
  <2>2. u = <<>>
    BY <2>1, EmptySeq
  <2> QED
    BY <2>2, FlattenNone, EmptySeq
<1>2. CASE n # 0
  <2>1. PICK f \in [1..n -> Seq(T)] : Flattens(f, u, n)
    BY FlattensSome
  <2>2. FlattenSeq(u) = f[n]
    BY <1>2, <2>1, FlattenIs
  <2> QED
    BY <1>2, <2>2
<1> QED
  BY <1>1, <1>2

\* The n pieces v are the m pieces u but the first.
Rest(T, v, n, u, m) ==
  /\ n \in Nat /\ m \in Nat /\ m = n + 1
  /\ v \in [1..n -> Seq(T)] /\ u \in [1..m -> Seq(T)]
  /\ \A i \in 1..n : v[i] = u[i + 1]

\* The first piece comes first, and then what the others give.
LEMMA FlattenCons ==
  ASSUME NEW T, NEW v, NEW n, NEW u, NEW m, Rest(T, v, n, u, m)
  PROVE  FlattenSeq(u) = Joined(u[1], FlattenSeq(v))
<1>0. /\ n \in Nat /\ m \in Nat /\ m = n + 1
      /\ v \in [1..n -> Seq(T)] /\ u \in [1..m -> Seq(T)]
      /\ \A i \in 1..n : v[i] = u[i + 1]
  BY DEF Rest
<1> USE <1>0
<1>1. PICK f \in [1..m -> Seq(T)] : Flattens(f, u, m)
  BY FlattensSome
<1>2. FlattenSeq(u) = f[m]
  <2>1. m # 0
    OBVIOUS
  <2> QED
    BY <1>1, <2>1, FlattenIs
<1>3. f[1] = u[1] /\ 1 \in 1..m /\ u[1] \in Seq(T)
  BY <1>1 DEF Flattens
<1>4. CASE n = 0
  <2>1. v \in Seq(Seq(T)) /\ Len(v) = 0
    BY <1>4, IsASeq, LenProperties
  <2>2. v = <<>>
    BY <2>1, EmptySeq
  <2>3. f[m] = u[1]
    BY <1>3, <1>4
  <2>4. Joined(u[1], <<>>) = u[1]
    BY <1>3, JoinedEmpty
  <2> QED
    BY <1>2, <2>2, <2>3, <2>4, FlattenNone
<1>5. CASE n # 0
  <2>1. PICK g \in [1..n -> Seq(T)] : Flattens(g, v, n)
    BY FlattensSome
  <2>2. FlattenSeq(v) = g[n]
    BY <1>5, <2>1, FlattenIs
  <2> DEFINE Follows(k) == f[k + 1] = Joined(u[1], g[k])
             S == {k \in Nat : k \in 1..n => Follows(k)}
  <2>3. 0 \in S
    OBVIOUS
  <2>4. ASSUME NEW k \in Nat, k \in 1..n => Follows(k), k + 1 \in 1..n
        PROVE  Follows(k + 1)
    <3>1. PICK j \in 1..n : j = k + 1
      BY <2>4
    <3>2. j + 1 \in 1..m /\ j + 1 # 1 /\ (j + 1) - 1 = j /\ j - 1 = k
      BY <3>1
    <3>3. f[j + 1] = Joined(f[j], u[j + 1]) /\ u[j + 1] = v[j]
      BY <1>1, <3>2 DEF Flattens
    <3>4. g[j] = IF j = 1 THEN v[j] ELSE Joined(g[k], v[j])
      BY <2>1, <3>2 DEF Flattens
    <3>5. f[j] = IF j = 1 THEN u[1] ELSE Joined(u[1], g[k])
      <4>1. j # 1 => k \in 1..n
        BY <3>1
      <4> QED
        BY <1>3, <2>4, <3>1, <4>1
    <3>6. v[j] \in Seq(T) /\ (j # 1 => g[k] \in Seq(T))
      <4>1. j # 1 => k \in 1..n
        BY <3>1
      <4> QED
        BY <4>1
    <3>7. f[j + 1] = Joined(u[1], g[j])
      <4> HIDE DEF Follows
      <4>1. CASE j = 1
        BY <3>3, <3>4, <3>5, <4>1, Zenon
      <4>2. CASE j # 1
        <5>1. Joined(Joined(u[1], g[k]), v[j]) = Joined(u[1], Joined(g[k], v[j]))
          <6>1. g[k] \in Seq(T) /\ v[j] \in Seq(T) /\ u[1] \in Seq(T)
            BY <1>3, <3>6, <4>2
          <6>2. \A r, s, t \in Seq(T) : Joined(Joined(r, s), t) = Joined(r, Joined(s, t))
            BY JoinedFollow
          <6> QED
            BY <6>1, <6>2, Zenon
        <5> QED
          BY <3>3, <3>4, <3>5, <4>2, <5>1, Zenon
      <4> QED
        BY <4>1, <4>2
    <3> QED
      BY <3>1, <3>7, Zenon
  <2>5. n \in S
    <3> HIDE DEF Follows
    <3>1. S \in SUBSET Nat /\ 0 \in S
      BY <2>3
    <3>2. ASSUME NEW k \in S PROVE k + 1 \in S
      <4>1. k \in Nat /\ (k \in 1..n => Follows(k))
        OBVIOUS
      <4>2. k + 1 \in 1..n => Follows(k + 1)
        BY <2>4, <4>1
      <4>3. k + 1 \in Nat
        BY <4>1
      <4> QED
        BY <4>2, <4>3
    <3> HIDE DEF S
    <3> QED
      BY <3>1, <3>2, NumberInduction
  <2>6. f[m] = Joined(u[1], g[n])
    <3>1. n \in 1..n
      BY <1>5
    <3>2. Follows(n)
      <4> HIDE DEF Follows
      <4> QED
        BY <2>5, <3>1
    <3> QED
      BY <3>2, Zenon
  <2> QED
    BY <1>2, <2>2, <2>6
<1> QED
  BY <1>4, <1>5

\* Pieces without repetition that have nothing in common give a sequence
\* without repetition of what is in any of them.
Pieces(u, n) ==
  /\ \A i \in 1..n : IsInjective(u[i])
  /\ \A i, j \in 1..n : i # j => Range(u[i]) \cap Range(u[j]) = {}

LEMMA JoinedInjective ==
  ASSUME NEW T, NEW s \in Seq(T), NEW t \in Seq(T), IsInjective(s), IsInjective(t),
         Range(s) \cap Range(t) = {}
  PROVE  Joined(s, t) \in Seq(T) /\ IsInjective(Joined(s, t)) /\ Range(Joined(s, t)) = Range(s) \cup Range(t)
<1> DEFINE r == Joined(s, t)
<1>1. /\ r \in Seq(T) /\ Len(r) = Len(s) + Len(t) /\ Len(s) \in Nat /\ Len(t) \in Nat
      /\ \A i \in 1..(Len(s) + Len(t)) : r[i] = IF i <= Len(s) THEN s[i] ELSE t[i - Len(s)]
  BY ConcatProperties, LenProperties DEF Joined
<1>2. /\ DOMAIN r = 1..(Len(s) + Len(t)) /\ DOMAIN s = 1..Len(s) /\ DOMAIN t = 1..Len(t)
  BY <1>1, LenProperties
<1> HIDE DEF r
<1>3. ASSUME NEW i \in DOMAIN r
      PROVE  \/ i \in DOMAIN s /\ r[i] = s[i] /\ r[i] \in Range(s)
             \/ i - Len(s) \in DOMAIN t /\ r[i] = t[i - Len(s)] /\ r[i] \in Range(t)
  BY <1>1, <1>2 DEF Range
<1>4. ASSUME NEW i \in DOMAIN r, NEW j \in DOMAIN r, r[i] = r[j] PROVE i = j
  <2>1. CASE i \in DOMAIN s /\ j \in DOMAIN s /\ s[i] = s[j]
    BY <2>1 DEF IsInjective
  <2>2. CASE i - Len(s) \in DOMAIN t /\ j - Len(s) \in DOMAIN t /\ t[i - Len(s)] = t[j - Len(s)]
    <3>1. i - Len(s) = j - Len(s)
      BY <2>2 DEF IsInjective
    <3> QED
      BY <1>1, <1>2, <3>1
  <2> QED
    BY <1>3, <1>4, <2>1, <2>2
<1>5. Range(s) \subseteq Range(r)
  <2>1. \A i \in DOMAIN s : i \in DOMAIN r /\ r[i] = s[i]
    BY <1>1, <1>2
  <2> QED
    BY <2>1 DEF Range
<1>6. Range(t) \subseteq Range(r)
  <2>1. \A i \in DOMAIN t : i + Len(s) \in DOMAIN r /\ r[i + Len(s)] = t[i]
    BY <1>1, <1>2
  <2> QED
    BY <2>1 DEF Range
<1>7. Range(r) \subseteq Range(s) \cup Range(t)
  BY <1>3 DEF Range
<1> QED
  BY <1>1, <1>4, <1>5, <1>6, <1>7 DEF IsInjective, r

Gathers(u, n) == /\ IsInjective(FlattenSeq(u))
                 /\ Range(FlattenSeq(u)) = UNION {Range(u[i]) : i \in 1..n}

LEMMA FlattenGathers ==
  ASSUME NEW T, NEW k \in Nat, \A v \in [1..k -> Seq(T)] : Pieces(v, k) => Gathers(v, k),
         NEW m \in Nat, m = k + 1, NEW u \in [1..m -> Seq(T)], Pieces(u, m)
  PROVE  Gathers(u, m)
<1> DEFINE v == [i \in 1..k |-> u[i + 1]]
<1>1. \A i \in 1..k : i + 1 \in 1..m /\ v[i] = u[i + 1] /\ i + 1 # 1
  OBVIOUS
<1>2. v \in [1..k -> Seq(T)]
  BY <1>1
<1> HIDE DEF v
<1>3. Pieces(v, k)
  <2>1. \A i \in 1..k : IsInjective(v[i])
    BY <1>1 DEF Pieces
  <2>2. ASSUME NEW i \in 1..k, NEW j \in 1..k, i # j PROVE Range(v[i]) \cap Range(v[j]) = {}
    <3>1. i + 1 \in 1..m /\ j + 1 \in 1..m /\ i + 1 # j + 1
      BY <1>1, <2>2
    <3> QED
      BY <1>1, <3>1 DEF Pieces
  <2> QED
    BY <2>1, <2>2 DEF Pieces
<1>4. Gathers(v, k)
  BY <1>2, <1>3
<1>5. FlattenSeq(u) = Joined(u[1], FlattenSeq(v)) /\ FlattenSeq(v) \in Seq(T)
  <2>1. k \in Nat /\ m \in Nat /\ m = k + 1 /\ u \in [1..m -> Seq(T)]
    OBVIOUS
  <2>2. Rest(T, v, k, u, m)
    BY <1>1, <1>2, <2>1 DEF Rest
  <2>3. FlattenSeq(u) = Joined(u[1], FlattenSeq(v))
    BY <2>2, FlattenCons
  <2>4. FlattenSeq(v) \in Seq(T)
    BY <1>2, <2>1, FlattenType
  <2> QED
    BY <2>3, <2>4
<1>6. 1 \in 1..m /\ u[1] \in Seq(T) /\ IsInjective(u[1])
  BY DEF Pieces
<1>7. Range(u[1]) \cap Range(FlattenSeq(v)) = {}
  <2>1. \A i \in 1..k : Range(u[1]) \cap Range(v[i]) = {}
    BY <1>1, <1>6 DEF Pieces
  <2> QED
    BY <1>4, <2>1 DEF Gathers
<1>8. /\ IsInjective(FlattenSeq(u))
      /\ Range(FlattenSeq(u)) = Range(u[1]) \cup Range(FlattenSeq(v))
  BY <1>4, <1>5, <1>6, <1>7, JoinedInjective DEF Gathers
<1>9. Range(u[1]) \cup UNION {Range(v[i]) : i \in 1..k} = UNION {Range(u[i]) : i \in 1..m}
  <2>1. \A i \in 1..m : i # 1 => i - 1 \in 1..k /\ v[i - 1] = u[i]
    <3> TAKE i \in 1..m
    <3>1. i # 1 => i - 1 \in 1..k /\ (i - 1) + 1 = i
      OBVIOUS
    <3> QED
      BY <1>1, <3>1
  <2> DEFINE C(i) == Range(u[i])
             D(i) == Range(v[i])
  <2>2. \A i \in 1..k : D(i) = C(i + 1) /\ i + 1 \in 1..m
    BY <1>1
  <2>3. \A i \in 1..m : i # 1 => i - 1 \in 1..k /\ D(i - 1) = C(i)
    BY <2>1
  <2> HIDE DEF C, D
  <2>4. C(1) \cup UNION {D(i) : i \in 1..k} = UNION {C(i) : i \in 1..m}
    BY <1>6, <2>2, <2>3
  <2> QED
    BY <2>4 DEF C, D
<1> QED
  BY <1>4, <1>8, <1>9 DEF Gathers

LEMMA FlattenInjective ==
  ASSUME NEW T, NEW n \in Nat, NEW w \in [1..n -> Seq(T)], Pieces(w, n)
  PROVE  Gathers(w, n)
<1> DEFINE S == {k \in Nat : \A u \in [1..k -> Seq(T)] : Pieces(u, k) => Gathers(u, k)}
<1>1. 0 \in S
  <2> SUFFICES ASSUME NEW u \in [1..0 -> Seq(T)] PROVE Gathers(u, 0)
    OBVIOUS
  <2>1. u \in Seq(Seq(T)) /\ Len(u) = 0
    BY IsASeq, LenProperties
  <2>2. u = <<>> /\ DOMAIN u = {}
    BY <2>1, EmptySeq
  <2>3. FlattenSeq(u) = u
    BY <2>2, FlattenNone
  <2> QED
    BY <2>2, <2>3 DEF Gathers, IsInjective, Range
<1>2. ASSUME NEW k \in Nat, \A u \in [1..k -> Seq(T)] : Pieces(u, k) => Gathers(u, k),
             NEW m \in Nat, m = k + 1
      PROVE  \A u \in [1..m -> Seq(T)] : Pieces(u, m) => Gathers(u, m)
  BY <1>2, FlattenGathers
<1>3. n \in S
  <2>1. S \in SUBSET Nat /\ 0 \in S
    BY <1>1
  <2>2. ASSUME NEW k \in S PROVE k + 1 \in S
    <3>1. PICK m \in Nat : m = k + 1
      OBVIOUS
    <3>2. k \in Nat /\ \A u \in [1..k -> Seq(T)] : Pieces(u, k) => Gathers(u, k)
      OBVIOUS
    <3>3. \A u \in [1..m -> Seq(T)] : Pieces(u, m) => Gathers(u, m)
      BY <1>2, <3>1, <3>2
    <3>4. m \in S
      BY <3>3
    <3> QED
      BY <3>1, <3>4
  <2> HIDE DEF S
  <2> QED
    BY <2>1, <2>2, NumberInduction
<1> QED
  BY <1>3
=============================================================================

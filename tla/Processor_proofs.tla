-------------------------- MODULE Processor_proofs --------------------------
(***************************************************************************)
(* What holds of the processor for every set of signals, processes and     *)
(* databases, and for every bound.                                         *)
(***************************************************************************)
EXTENDS Processor, Processes_proofs, FiniteSetTheorems

----------------------------------------------------------------------------
(* The call stack.                                                         *)

Pcs == {"start", "main", "after", "done", "fetch", "running", "next"}

LEMMA FrameFields ==
  ASSUME NEW f \in FrameType
  PROVE  /\ f.op \in {"emit", "exec", "merge"} /\ f.pc \in Pcs
         /\ f.sig \in Sigs /\ f.db \in Dbs /\ f.loop \in Dbs
         /\ f.proc \in Procs \cup {NoProc} /\ f.pending \in Seq(Dbs)
         /\ f.key \in Int \cup {NoKey}
BY DEF FrameType, Pcs

LEMMA TopType ==
  ASSUME frames \in Seq(FrameType), frames # <<>>
  PROVE  /\ Len(frames) \in Nat \ {0} /\ Len(frames) \in 1..Len(frames)
         /\ Top = frames[Len(frames)] /\ Top \in FrameType
<1>1. Len(frames) \in Nat \ {0}
  BY EmptySeq
<1> QED
  BY <1>1, ElementOfSeq DEF Top

LEMMA AtType ==
  ASSUME frames \in Seq(FrameType), frames # <<>>, NEW pc \in Pcs
  PROVE  /\ At(pc) \in Seq(FrameType)
         /\ Len(At(pc)) = Len(frames)
         /\ At(pc)[Len(frames)] = [Top EXCEPT !.pc = pc]
         /\ \A n \in 1..Len(frames) : n # Len(frames) => At(pc)[n] = frames[n]
<1>1. [Top EXCEPT !.pc = pc] \in FrameType
  BY TopType DEF FrameType, Pcs
<1>2. At(pc) = [frames EXCEPT ![Len(frames)] = [Top EXCEPT !.pc = pc]]
  BY DEF At, Top
<1> QED
  BY <1>1, <1>2, TopType, ExceptSeq

LEMMA PoppedType ==
  ASSUME frames \in Seq(FrameType), frames # <<>>
  PROVE  /\ Popped \in Seq(FrameType)
         /\ Len(Popped) = Len(frames) - 1
         /\ \A n \in 1..(Len(frames) - 1) : Popped[n] = frames[n]
<1>1. Len(frames) - 1 \in 0..Len(frames)
  BY TopType
<1> QED
  BY <1>1, PrefixType DEF Popped

LEMMA PushType ==
  ASSUME NEW s \in Seq(FrameType), NEW f \in FrameType
  PROVE  /\ Append(s, f) \in Seq(FrameType)
         /\ Len(Append(s, f)) = Len(s) + 1
         /\ Append(s, f)[Len(s) + 1] = f
         /\ \A n \in 1..Len(s) : Append(s, f)[n] = s[n]
BY AppendProperties

LEMMA NewFrameType ==
  ASSUME NEW s \in Sigs, NEW d \in Dbs, NEW e \in Dbs,
         NEW k \in Int \cup {NoKey}, NEW pending \in Seq(Dbs)
  PROVE  /\ EmitFrame(s, d, pending) \in FrameType
         /\ ExecFrame(s, d) \in FrameType
         /\ MergeFrame(s, d, e, k) \in FrameType
<1>1. <<>> \in Seq(Dbs)
  BY EmptySeq
<1>2. EmitFrame(s, d, pending) \in FrameType
  BY DEF EmitFrame, FrameType
<1>3. ExecFrame(s, d) \in FrameType
  BY <1>1 DEF ExecFrame, FrameType
<1>4. MergeFrame(s, d, e, k) \in FrameType
  BY <1>1 DEF MergeFrame, FrameType
<1> QED
  BY <1>2, <1>3, <1>4

\* The innermost frame keeps what it is, where it goes on at pc ...
LEMMA AtSame ==
  ASSUME frames \in Seq(FrameType), frames # <<>>, NEW pc \in Pcs
  PROVE  /\ At(pc) \in Seq(FrameType) /\ Len(At(pc)) = Len(frames)
         /\ \A n \in 1..Len(frames) :
              /\ At(pc)[n].op = frames[n].op /\ At(pc)[n].sig = frames[n].sig
              /\ At(pc)[n].db = frames[n].db
<1>1. LET f == [Top EXCEPT !.pc = pc]
      IN  f.op = Top.op /\ f.sig = Top.sig /\ f.db = Top.db
  BY TopType DEF FrameType
<1> QED
  BY <1>1, AtType, TopType

\* ... takes up a process or drops it ...
WithProc(pc, p) == [At(pc) EXCEPT ![Len(frames)].proc = p]

LEMMA ProcSame ==
  ASSUME frames \in Seq(FrameType), frames # <<>>, NEW pc \in Pcs,
         NEW p \in Procs \cup {NoProc}
  PROVE  /\ Len(WithProc(pc, p)) = Len(frames)
         /\ \A n \in 1..Len(frames) :
              /\ WithProc(pc, p)[n].op = frames[n].op
              /\ WithProc(pc, p)[n].sig = frames[n].sig
              /\ WithProc(pc, p)[n].db = frames[n].db
<1> DEFINE s == WithProc(pc, p)
           f == [[Top EXCEPT !.pc = pc] EXCEPT !.proc = p]
<1>1. f \in FrameType /\ f.op = Top.op /\ f.sig = Top.sig /\ f.db = Top.db
  BY TopType DEF FrameType, Pcs
<1>2. s = [At(pc) EXCEPT ![Len(frames)] = f]
  BY AtType DEF WithProc
<1>3. /\ Len(s) = Len(frames) /\ s[Len(frames)] = f
      /\ \A n \in 1..Len(frames) : n # Len(frames) => s[n] = frames[n]
  <2>1. /\ At(pc) \in Seq(FrameType) /\ Len(At(pc)) = Len(frames) /\ Len(frames) \in 1..Len(frames)
        /\ \A n \in 1..Len(frames) : n # Len(frames) => At(pc)[n] = frames[n]
    BY AtType, TopType
  <2> HIDE DEF f, s
  <2>2. /\ Len(s) = Len(At(pc)) /\ s[Len(frames)] = f
        /\ \A n \in 1..Len(At(pc)) : n # Len(frames) => s[n] = At(pc)[n]
    BY <1>1, <1>2, <2>1, ExceptSeq
  <2> QED
    BY <2>1, <2>2
<1> HIDE DEF f, s
<1>4. \A n \in 1..Len(frames) : /\ s[n].op = frames[n].op /\ s[n].sig = frames[n].sig
                                 /\ s[n].db = frames[n].db
  BY <1>1, <1>3, TopType
<1> QED
  BY <1>3, <1>4 DEF s

\* ... or has one complex signal less to ask.
LEMMA NextDatabaseSame ==
  ASSUME frames \in Seq(FrameType), frames # <<>>, Top.pending # <<>>
  PROVE  /\ NextDatabase \in Seq(FrameType) /\ Len(NextDatabase) = Len(frames)
         /\ \A n \in 1..Len(frames) :
              /\ NextDatabase[n].op = frames[n].op /\ NextDatabase[n].sig = frames[n].sig
              /\ NextDatabase[n].db = frames[n].db
<1> DEFINE f == [Top EXCEPT !.pending = Tail(@)]
<1>1. Top \in FrameType /\ Tail(Top.pending) \in Seq(Dbs)
  BY TopType, FrameFields, HeadTailProperties
<1>2. f \in FrameType /\ f.op = Top.op /\ f.sig = Top.sig /\ f.db = Top.db
  BY <1>1 DEF FrameType
<1>3. NextDatabase = [frames EXCEPT ![Len(frames)] = f]
  BY DEF NextDatabase, Top
<1> HIDE DEF f
<1>4. /\ NextDatabase \in Seq(FrameType) /\ Len(NextDatabase) = Len(frames)
      /\ NextDatabase[Len(frames)] = f
      /\ \A n \in 1..Len(frames) : n # Len(frames) => NextDatabase[n] = frames[n]
  BY <1>2, <1>3, TopType, ExceptSeq
<1> QED
  BY <1>2, <1>4, TopType

----------------------------------------------------------------------------
(* Type correctness.  It needs that complex signals in the registry have a *)
(* database, since an emission takes theirs to merge.  The code keeps the  *)
(* two in one entry of the Signals database; the model has two variables,  *)
(* and what joins them is half of the inductive invariant.                 *)

ComplexesRegistered ==
  /\ \A m, n \in DOMAIN complexes : complexes[m] = complexes[n] => m = n
  /\ \A n \in DOMAIN complexes : databases["index"][complexes[n]] # NoDb
  /\ \A s \in Complex : Find("index", s) # NoDb =>
       \E n \in DOMAIN complexes : complexes[n] = Index[s]

TypeInv == TypeOK /\ ComplexesRegistered

LEMMA PointerType ==
  ASSUME NEW h \in HeapType, NEW d \in Dbs
  PROVE  /\ [h EXCEPT !.store[d] = next(@)] \in HeapType
         /\ [h EXCEPT !.store[d] = reset(@)] \in HeapType
<1>1. next(h.store[d]) \in StorageType /\ reset(h.store[d]) \in StorageType
  BY HeapFields, nextType, resetType
<1> QED
  BY <1>1, StoreType

LEMMA CallingType ==
  ASSUME TypeOK, NEW f, Calling(f)
  PROVE  calls' \in 0..MaxCalls
BY BoundsType DEF TypeOK, Calling

LEMMA OnType ==
  ASSUME TypeOK, NEW op, NEW pc, On(op, pc)
  PROVE  /\ frames # <<>> /\ Top \in FrameType /\ Top.op = op /\ Top.pc = pc
         /\ Top.sig \in Sigs /\ Top.db \in Dbs /\ Top.loop \in Dbs
         /\ Top.pending \in Seq(Dbs) /\ Top.key \in Int \cup {NoKey}
         /\ heap \in HeapType /\ frames \in Seq(FrameType)
BY TopType, FrameFields DEF TypeOK, On

LEMMA FetchedType ==
  ASSUME heap \in HeapType, Top.loop \in Dbs, valid(heap.store[Top.loop])
  PROVE  Fetched \in Procs \cup Dbs
BY HeapFields, currentType DEF Fetched

\* Where only the heap and the call stack change, their types are enough.
LEMMA TypeFrame ==
  ASSUME TypeInv, heap' \in HeapType, frames' \in Seq(FrameType), calls' \in 0..MaxCalls,
         UNCHANGED <<made, databases, complexes, halted, parent, signal, history>>
  PROVE  TypeInv'
BY DEF TypeInv, TypeOK, ComplexesRegistered, Find

LEMMA InitType == Init => TypeInv
<1> SUFFICES ASSUME Init PROVE TypeInv
  OBVIOUS
<1>1. heap \in HeapType
  BY emptyType DEF Init, HeapType
<1>2. <<>> \in Seq(Idx) /\ <<>> \in Seq(Sigs) /\ <<>> \in Seq(FrameType)
      /\ <<>> \in Seq((Sigs \cup {NoSig}) \X {Microtime})
  OBVIOUS
<1>3. TypeOK
  BY <1>1, <1>2, BoundsType DEF Init, TypeOK
<1>4. ComplexesRegistered
  BY IndexType, ComplexType DEF Init, ComplexesRegistered, Find, Idx, Places
<1> QED
  BY <1>3, <1>4 DEF TypeInv

----------------------------------------------------------------------------
(* The loops of the processor.                                             *)

LEMMA MergeTypes ==
  ASSUME TypeInv,
         MergeProcess \/ MergeSubDatabase \/ MergeFatal \/ MergeEnd
  PROVE  TypeInv'
<1>0. TypeOK
  BY DEF TypeInv
<1>1. On("merge", "fetch")
  BY DEF MergeProcess, MergeSubDatabase, MergeFatal, MergeEnd
<1>2. /\ frames # <<>> /\ Top \in FrameType
      /\ Top.sig \in Sigs /\ Top.db \in Dbs /\ Top.loop \in Dbs
      /\ Top.key \in Int \cup {NoKey}
      /\ heap \in HeapType /\ frames \in Seq(FrameType) /\ calls \in 0..MaxCalls
  BY <1>0, <1>1, OnType DEF TypeOK
<1>3. CASE MergeProcess
  <2>1. Merged \in CallType
    <3> DEFINE h == IF Top.key = NoKey THEN heap ELSE Construct(heap, Fetched, 1, Top.key)
    <3>1. Fetched \in Procs
      BY <1>3 DEF MergeProcess
    <3>2. h \in HeapType
      BY <1>2, <3>1, ConstructType
    <3> HIDE DEF h
    <3>3. Install(h, Top.db, Fetched) \in CallType
      BY <1>2, <3>1, <3>2, InstallType
    <3> QED
      BY <3>3 DEF Merged, h
  <2>2. heap' \in HeapType
    BY <1>2, <1>3, <2>1, CallFields, PointerType DEF MergeProcess
  <2> QED
    BY <1>2, <1>3, <2>2, TypeFrame DEF MergeProcess
<1>4. CASE MergeSubDatabase
  <2>1. heap' \in HeapType /\ Fetched \in Dbs
    BY <1>2, <1>4, PointerType DEF MergeSubDatabase, Rewind
  <2> DEFINE s   == heap.store[Top.loop]
             key == s.nodes[s.ptr].key
  <2>2. key \in Int
    BY <1>2, <1>4, HeapFields, currentType DEF MergeSubDatabase
  <2>3. MergeFrame(Top.sig, Top.db, Fetched, key) \in FrameType
    BY <1>2, <2>1, <2>2, NewFrameType, EmptySeq
  <2>4. At("next") \in Seq(FrameType)
    BY <1>2, AtType DEF Pcs
  <2>5. frames' = Append(At("next"), MergeFrame(Top.sig, Top.db, Fetched, key))
    BY <1>4 DEF MergeSubDatabase
  <2>6. frames' \in Seq(FrameType)
    BY <2>3, <2>4, <2>5, PushType
  <2> QED
    BY <1>2, <1>4, <2>1, <2>6, TypeFrame DEF MergeSubDatabase
<1>5. CASE MergeFatal
  <2>1. heap' \in HeapType
    BY <1>2, <1>5, fatalType DEF MergeFatal
  <2> QED
    BY <1>2, <1>5, <2>1, TypeFrame DEF MergeFatal
<1>6. CASE MergeEnd
  <2>1. frames' \in Seq(FrameType)
    BY <1>2, <1>6, PoppedType DEF MergeEnd
  <2> QED
    BY <1>2, <1>6, <2>1, TypeFrame DEF MergeEnd
<1> QED
  BY <1>3, <1>4, <1>5, <1>6

LEMMA ExecuteType ==
  ASSUME TypeInv, frames # <<>>, NEW d \in Dbs, NEW pc \in Pcs, Execute(d, pc)
  PROVE  TypeInv'
<1>1. /\ heap \in HeapType /\ frames \in Seq(FrameType) /\ calls \in 0..MaxCalls
      /\ Top \in FrameType
  BY TopType DEF TypeInv, TypeOK
<1>2. heap' \in HeapType
  BY <1>1, PointerType DEF Execute, Rewind
<1>3. ExecFrame(Top.sig, d) \in FrameType
  BY <1>1, FrameFields, NewFrameType, EmptySeq
<1>4. At(pc) \in Seq(FrameType)
  BY <1>1, AtType
<1>5. frames' \in Seq(FrameType)
  BY <1>3, <1>4, PushType DEF Execute
<1> QED
  BY <1>1, <1>2, <1>5, TypeFrame DEF Execute

LEMMA FindType ==
  ASSUME TypeOK, NEW w \in Places, NEW s \in Sigs
  PROVE  Find(w, s) \in Dbs \cup {NoDb} /\ Index[s] \in Idx
BY IndexType DEF TypeOK, Find

LEMMA InterruptType ==
  ASSUME TypeInv, frames # <<>>, NEW w \in Places, NEW pc \in Pcs, Interrupt(w, pc)
  PROVE  TypeInv'
<1>1. /\ heap \in HeapType /\ frames \in Seq(FrameType) /\ calls \in 0..MaxCalls
      /\ Top.sig \in Sigs
  BY TopType, FrameFields DEF TypeInv, TypeOK
<1>2. CASE Find(w, Top.sig) # NoDb
  <2>1. Find(w, Top.sig) \in Dbs /\ Execute(Find(w, Top.sig), pc)
    BY <1>1, <1>2, FindType DEF TypeInv, Interrupt
  <2> QED
    BY <2>1, ExecuteType
<1>3. CASE Find(w, Top.sig) = NoDb
  <2>1. frames' = At(pc) /\ At(pc) \in Seq(FrameType)
    BY <1>1, <1>3, AtType DEF Interrupt
  <2> QED
    BY <1>1, <1>3, <2>1, TypeFrame DEF Interrupt
<1> QED
  BY <1>2, <1>3

LEMMA EmitTypes ==
  ASSUME TypeInv,
         Accept \/ Reject \/ EmitBefore \/ EmitMain \/ EmitAfter \/ EmitEnd
  PROVE  TypeInv'
<1> USE DEF Places, Pcs
<1>0. TypeOK
  BY DEF TypeInv
<1>1. \E pc : On("emit", pc)
  BY DEF Accept, Reject, EmitBefore, EmitMain, EmitAfter, EmitEnd
<1>2. /\ frames # <<>> /\ Top \in FrameType
      /\ Top.sig \in Sigs /\ Top.db \in Dbs /\ Top.loop \in Dbs
      /\ Top.pending \in Seq(Dbs)
      /\ heap \in HeapType /\ frames \in Seq(FrameType) /\ calls \in 0..MaxCalls
  BY <1>0, <1>1, OnType DEF TypeOK
<1>3. ASSUME Top.pending # <<>>
      PROVE  Head(Top.pending) \in Dbs /\ NextDatabase \in Seq(FrameType)
  <2>1. Head(Top.pending) \in Dbs /\ Tail(Top.pending) \in Seq(Dbs)
    BY <1>2, <1>3, HeadTailProperties
  <2>2. [Top EXCEPT !.pending = Tail(@)] \in FrameType
    BY <1>2, <2>1 DEF FrameType
  <2>3. NextDatabase = [frames EXCEPT ![Len(frames)] = [Top EXCEPT !.pending = Tail(@)]]
    BY DEF NextDatabase, Top
  <2> QED
    BY <1>2, <2>1, <2>2, <2>3, TopType, ExceptSeq
<1>4. CASE Accept
  <2>1. heap' \in HeapType
    BY <1>2, <1>3, <1>4, PointerType DEF Accept, Rewind
  <2>2. MergeFrame(Top.sig, Top.db, Head(Top.pending), NoKey) \in FrameType
    BY <1>2, <1>3, <1>4, NewFrameType, EmptySeq DEF Accept
  <2>3. frames' \in Seq(FrameType)
    BY <1>3, <1>4, <2>2, PushType DEF Accept
  <2> QED
    BY <1>2, <1>4, <2>1, <2>3, TypeFrame DEF Accept
<1>5. CASE Reject
  BY <1>2, <1>3, <1>5, TypeFrame DEF Reject
<1>6. CASE EmitBefore
  BY <1>2, <1>6, InterruptType DEF EmitBefore
<1>7. CASE EmitMain
  BY <1>2, <1>7, ExecuteType DEF EmitMain
<1>8. CASE EmitAfter
  BY <1>2, <1>8, InterruptType DEF EmitAfter
<1>9. CASE EmitEnd
  <2>1. frames' \in Seq(FrameType)
    BY <1>2, <1>9, PoppedType DEF EmitEnd
  <2>2. signal' \in Seq(Sigs)
    BY <1>0, <1>9 DEF EmitEnd, TypeOK
  <2> QED
    BY <1>0, <1>9, <2>1, <2>2 DEF EmitEnd, TypeInv, TypeOK, ComplexesRegistered, Find
<1> QED
  BY <1>4, <1>5, <1>6, <1>7, <1>8, <1>9

\* The innermost frame takes up process p, or drops it.
LEMMA ProcType ==
  ASSUME frames \in Seq(FrameType), frames # <<>>, NEW pc \in Pcs,
         NEW p \in Procs \cup {NoProc}
  PROVE  [At(pc) EXCEPT ![Len(frames)].proc = p] \in Seq(FrameType)
<1> DEFINE f == [[Top EXCEPT !.pc = pc] EXCEPT !.proc = p]
<1>1. f \in FrameType
  BY TopType DEF FrameType, Pcs
<1>2. [At(pc) EXCEPT ![Len(frames)].proc = p] = [At(pc) EXCEPT ![Len(frames)] = f]
  BY AtType
<1> QED
  BY <1>1, <1>2, AtType, TopType, ExceptSeq

LEMMA ExecTypes ==
  ASSUME TypeInv,
         \/ ExecEnd \/ ExecSubDatabase \/ ExecProcess \/ Advance
         \/ \E result \in Returns : Return(result)
  PROVE  TypeInv'
<1> USE DEF Pcs
<1>0. TypeOK
  BY DEF TypeInv
<1>1. \E op, pc : On(op, pc)
  BY DEF ExecEnd, ExecSubDatabase, ExecProcess, Advance, Return
<1>2. /\ frames # <<>> /\ Top \in FrameType
      /\ Top.sig \in Sigs /\ Top.db \in Dbs /\ Top.loop \in Dbs
      /\ heap \in HeapType /\ frames \in Seq(FrameType) /\ calls \in 0..MaxCalls
  BY <1>0, <1>1, OnType DEF TypeOK
<1>3. CASE ExecEnd
  BY <1>2, <1>3, PoppedType, TypeFrame DEF ExecEnd
<1>4. CASE ExecSubDatabase
  BY <1>2, <1>4, ExecuteType DEF ExecSubDatabase
<1>5. CASE ExecProcess
  <2>1. heap' \in HeapType /\ Fetched \in Procs
    BY <1>2, <1>5, decrementType DEF ExecProcess
  <2>2. frames' \in Seq(FrameType)
    BY <1>2, <1>5, <2>1, ProcType DEF ExecProcess
  <2> QED
    BY <1>2, <1>5, <2>1, <2>2, TypeFrame DEF ExecProcess
<1>6. CASE Advance
  BY <1>2, <1>6, PointerType, AtType, TypeFrame DEF Advance
<1>7. ASSUME NEW result \in Returns, Return(result)
      PROVE  TypeInv'
  <2> DEFINE p == Top.proc
             h == IF is_exhausted(heap.exhaust[p]) THEN Delete(heap, Top.db, p) ELSE heap
  <2>1. h \in HeapType
    BY <1>2, DeleteType
  <2>2. heap' = [h EXCEPT !.store[Top.loop] = next(@)]
    BY <1>7 DEF Return
  <2> HIDE DEF h
  <2>3. heap' \in HeapType
    BY <1>2, <2>1, <2>2, PointerType
  <2>4. frames' \in Seq(FrameType)
    BY <1>2, <1>7, ProcType DEF Return
  <2>5. halted' \subseteq Sigs
    BY <1>0, <1>2, <1>7 DEF Return, TypeOK
  <2> QED
    BY <1>0, <1>7, <2>3, <2>4, <2>5
    DEF Return, TypeInv, TypeOK, ComplexesRegistered, Find
<1> QED
  BY <1>3, <1>4, <1>5, <1>6, <1>7

LEMMA StepType == ASSUME TypeInv, Step PROVE TypeInv'
BY MergeTypes, EmitTypes, ExecTypes DEF Step

----------------------------------------------------------------------------
(* The calls of user code.                                                 *)

LEMMA InstallOnType ==
  ASSUME TypeInv, NEW w \in Places, NEW s \in Sigs, NEW p \in Procs,
         InstallOn(w, s, p), calls' \in 0..MaxCalls
  PROVE  TypeInv'
<1>0. TypeOK /\ heap \in HeapType /\ frames \in Seq(FrameType)
  BY DEF TypeInv, TypeOK
<1>1. PICK h \in Offered(p) :
        LET r == Registered(h, w, s)
            c == Install(r.heap, r.db, p)
        IN  /\ HasRoom(w, s) /\ c.done
            /\ heap' = c.heap
            /\ made' = made \cup {p}
            /\ databases' = [databases EXCEPT ![w][Index[s]] = r.db]
            /\ Registering(w, s)
            /\ UNCHANGED <<halted, parent, signal, history, frames>>
  BY Zenon DEF InstallOn
<1> DEFINE r == Registered(h, w, s)
<1>2. h \in HeapType /\ h.unused = heap.unused
  <2>1. CASE p \in made
    <3>1. h = heap
      BY <2>1 DEF Offered
    <3> QED
      BY <1>0, <3>1
  <2>2. CASE p \notin made
    <3>1. PICK e \in Exhausts, k \in Priorities : h = Construct(heap, p, e, k)
      BY <2>2 DEF Offered
    <3>2. e \in Int \cup {Never} /\ k \in Int
      BY RatesType
    <3>3. h \in HeapType
      BY <1>0, <3>1, <3>2, ConstructType
    <3>4. h.unused = heap.unused
      BY <1>0, <3>1 DEF Construct, HeapType
    <3> QED
      BY <3>3, <3>4
  <2> QED
    BY <2>1, <2>2
<1>3. Find(w, s) \in Dbs \cup {NoDb} /\ Index[s] \in Idx
  BY <1>0, FindType
<1>4. r.heap \in HeapType /\ r.db \in Dbs
  <2>1. CASE Find(w, s) # NoDb
    BY <1>2, <1>3, <2>1 DEF Registered
  <2>2. CASE Find(w, s) = NoDb
    <3> DEFINE d == CHOOSE x \in h.unused : TRUE
    <3>1. d \in h.unused
      BY <1>1, <1>2, <2>2 DEF HasRoom
    <3>2. d \in Dbs
      BY <1>2, <3>1, HeapFields
    <3>3. r = [heap |-> [h EXCEPT !.unused = @ \ {d}], db |-> d]
      BY <2>2 DEF Registered
    <3> HIDE DEF d, r
    <3> QED
      BY <1>2, <3>1, <3>2, <3>3, unusedType
  <2> QED
    BY <2>1, <2>2
<1>5. /\ heap' = Install(r.heap, r.db, p).heap
      /\ made' = made \cup {p}
      /\ databases' = [databases EXCEPT ![w][Index[s]] = r.db]
      /\ Registering(w, s)
      /\ UNCHANGED <<halted, parent, signal, history, frames>>
  BY <1>1
<1> HIDE DEF r
<1>6. heap' \in HeapType
  BY <1>4, <1>5, InstallType, CallFields
<1>7. databases' \in [Places -> [Idx -> Dbs \cup {NoDb}]]
  BY <1>0, <1>3, <1>4, <1>5 DEF TypeOK
<1>8. complexes' \in Seq(Idx)
  BY <1>0, <1>3, <1>5, AppendProperties DEF TypeOK, Registering
<1>9. TypeOK'
  BY <1>0, <1>5, <1>6, <1>7, <1>8 DEF TypeOK
<1>10. databases'["index"] =
         IF w = "index" THEN [databases["index"] EXCEPT ![Index[s]] = r.db]
                        ELSE databases["index"]
  BY <1>0, <1>5 DEF TypeOK, Places
<1>11. r.db # NoDb
  BY <1>4, NothingType
<1>12. databases["index"] \in [Idx -> Dbs \cup {NoDb}] /\ complexes \in Seq(Idx)
  BY <1>0 DEF TypeOK, Places
<1>13. ComplexesRegistered'
  <2>1. CASE w = "index" /\ s \in Complex /\ Find(w, s) = NoDb
    <3>1. complexes' = Append(complexes, Index[s])
      BY <1>5, <2>1 DEF Registering
    <3>2. \A n \in DOMAIN complexes : complexes[n] # Index[s]
      BY <2>1 DEF TypeInv, ComplexesRegistered, Find
    <3>3. /\ Len(complexes) \in Nat /\ DOMAIN complexes = 1..Len(complexes)
          /\ DOMAIN complexes' = 1..(Len(complexes) + 1)
          /\ complexes'[Len(complexes) + 1] = Index[s]
          /\ \A n \in 1..Len(complexes) : complexes'[n] = complexes[n]
      BY <1>3, <1>12, <3>1, AppendProperties, LenProperties
    <3>4. \A t \in Complex : t # s => databases'["index"][Index[t]] = databases["index"][Index[t]]
      BY <1>3, <1>10, <1>12, <2>1, ComplexType
    <3>5. \A n \in 1..Len(complexes) : complexes[n] \in Idx
      BY <1>12, ElementOfSeq
    <3>6. \A m, n \in DOMAIN complexes' : complexes'[m] = complexes'[n] => m = n
      BY <3>2, <3>3 DEF TypeInv, ComplexesRegistered
    <3>7. \A n \in DOMAIN complexes' : databases'["index"][complexes'[n]] # NoDb
      BY <1>3, <1>10, <1>11, <1>12, <2>1, <3>3, <3>5 DEF TypeInv, ComplexesRegistered
    <3>8. \A t \in Complex : databases'["index"][Index[t]] # NoDb =>
            \E n \in DOMAIN complexes' : complexes'[n] = Index[t]
      BY <3>3, <3>4 DEF TypeInv, ComplexesRegistered, Find
    <3> QED
      BY <3>6, <3>7, <3>8 DEF ComplexesRegistered, Find
  <2>2. CASE ~(w = "index" /\ s \in Complex /\ Find(w, s) = NoDb)
    <3>1. complexes' = complexes
      BY <1>5, <2>2 DEF Registering
    <3>2. \A n \in DOMAIN complexes : complexes[n] \in Idx
      BY <1>12, ElementOfSeq, LenProperties
    <3>3. \A n \in DOMAIN complexes : databases'["index"][complexes[n]] # NoDb
      BY <1>3, <1>10, <1>11, <1>12, <3>2 DEF TypeInv, ComplexesRegistered
    <3>4. \A t \in Complex : databases'["index"][Index[t]] # NoDb => Find("index", t) # NoDb
      <4>1. SUFFICES ASSUME NEW t \in Complex, databases'["index"][Index[t]] # NoDb
                     PROVE  databases["index"][Index[t]] # NoDb
        BY DEF Find
      <4>2. CASE w = "index" /\ Index[t] = Index[s]
        BY <2>2, <4>2, ComplexType DEF Find
      <4>3. CASE ~(w = "index" /\ Index[t] = Index[s])
        BY <1>3, <1>10, <1>12, <4>1, <4>3
      <4> QED
        BY <4>2, <4>3
    <3> QED
      BY <3>1, <3>3, <3>4 DEF TypeInv, ComplexesRegistered, Find
  <2> QED
    BY <2>1, <2>2
<1> QED
  BY <1>9, <1>13 DEF TypeInv

LEMMA DatabaseTypes ==
  ASSUME TypeInv, NEW s \in Sigs,
         \/ \E p \in Procs : DeleteProcess(s, p)
         \/ HasSignalExhausted(s) \/ EmitNothing(s)
  PROVE  TypeInv'
<1>1. /\ TypeOK /\ heap \in HeapType /\ frames \in Seq(FrameType)
      /\ Find("index", s) \in Dbs \cup {NoDb}
  BY FindType DEF TypeInv, TypeOK, Places
<1>2. heap' \in HeapType
  BY <1>1, DeleteType, AfterExhaustedType
  DEF DeleteProcess, HasSignalExhausted, EmitNothing
<1>3. calls' \in 0..MaxCalls
  BY <1>1, CallingType DEF DeleteProcess, HasSignalExhausted, EmitNothing
<1>4. UNCHANGED <<made, databases, complexes, halted, parent, signal, history, frames>>
  BY DEF DeleteProcess, HasSignalExhausted, EmitNothing
<1> QED
  BY <1>1, <1>2, <1>3, <1>4, TypeFrame

LEMMA SignalObjectTypes ==
  ASSUME TypeInv, NEW s \in Sigs, NewSignal(s) \/ Halt(s)
  PROVE  TypeInv'
<1>0. TypeOK
  BY DEF TypeInv
<1>1. calls' \in 0..MaxCalls
  BY <1>0, CallingType DEF NewSignal, Halt, TypeOK
<1> QED
  BY <1>0, <1>1 DEF NewSignal, Halt, TypeInv, TypeOK, ComplexesRegistered, Find

LEMMA DescendedType == ASSUME TypeOK PROVE Descended \in HeapType
<1>1. (heap.fatal \/ \E n \in DOMAIN history.log : Endless(history.log[n][1])) \in BOOLEAN
  BY DEF TypeOK, HeapType
<1> QED
  BY <1>1 DEF TypeOK, HeapType, Descended

LEMMA EraseType ==
  ASSUME TypeOK, NEW s \in Sigs
  PROVE  [history EXCEPT !.log = EraseSignalHistory(s, @)]
           \in [on : BOOLEAN, log : Seq((Sigs \cup {NoSig}) \X {Microtime})]
<1> DEFINE Records == (Sigs \cup {NoSig}) \X {Microtime}
           log  == history.log
           kept == EraseSignalHistory(s, log)
<1>1. log \in Seq(Records) /\ history.on \in BOOLEAN
  BY DEF TypeOK
<1>2. Len(log) \in Nat /\ DOMAIN log = 1..Len(log)
  BY <1>1, LenProperties
<1>3. \A n \in 1..Len(log) : log[n] \in Records
  BY <1>1, ElementOfSeq
<1>4. <<NoSig, Microtime>> \in Records
  OBVIOUS
<1>5. [history EXCEPT !.log = EraseSignalHistory(s, @)] = [history EXCEPT !.log = kept]
  BY DEF log
<1> HIDE DEF log, Records
<1>6. kept \in [1..Len(log) -> Records]
  BY <1>2, <1>3, <1>4 DEF EraseSignalHistory
<1>7. kept \in Seq(Records)
  BY <1>2, <1>6
<1> HIDE DEF kept
<1> QED
  BY <1>1, <1>5, <1>7 DEF TypeOK, Records

LEMMA EraseHistoryType ==
  ASSUME TypeInv, NEW s \in Sigs, EraseHistory(s)
  PROVE  TypeInv'
<1>0. TypeOK /\ calls' \in 0..MaxCalls
  BY CallingType DEF TypeInv, EraseHistory
<1>1. /\ heap' \in HeapType
      /\ history' \in [on : BOOLEAN, log : Seq((Sigs \cup {NoSig}) \X {Microtime})]
  BY <1>0, DescendedType, EraseType DEF EraseHistory
<1> QED
  BY <1>0, <1>1 DEF EraseHistory, TypeInv, TypeOK, ComplexesRegistered, Find

LEMMA DeleteSignalType ==
  ASSUME TypeInv, NEW s \in Sigs, NEW erase \in BOOLEAN, DeleteSignal(s, erase)
  PROVE  TypeInv'
<1>0. TypeOK /\ Index[s] \in Idx /\ calls' \in 0..MaxCalls
  BY FindType, CallingType, IndexType DEF TypeInv, DeleteSignal
<1>1. complexes \in Seq(Idx) /\ databases["index"] \in [Idx -> Dbs \cup {NoDb}]
  BY <1>0 DEF TypeOK, Places
<1>2. databases' \in [Places -> [Idx -> Dbs \cup {NoDb}]]
  BY <1>0 DEF DeleteSignal, TypeOK
<1>3. databases'["index"] = [databases["index"] EXCEPT ![Index[s]] = NoDb]
  BY <1>0 DEF DeleteSignal, TypeOK, Places
<1>4. /\ heap' \in HeapType
      /\ history' \in [on : BOOLEAN, log : Seq((Sigs \cup {NoSig}) \X {Microtime})]
  <2>1. heap \in HeapType
        /\ history \in [on : BOOLEAN, log : Seq((Sigs \cup {NoSig}) \X {Microtime})]
    BY <1>0 DEF TypeOK
  <2> QED
    BY <1>0, <2>1, DescendedType, EraseType DEF DeleteSignal
<1>5. \A m, n \in DOMAIN complexes : complexes[m] = complexes[n] => m = n
  BY DEF TypeInv, ComplexesRegistered
<1>6. \A n \in DOMAIN complexes : complexes[n] \in Idx
  BY <1>1, ElementOfSeq, LenProperties
\* The rest of the registry, whichever index was removed from it.
<1>7. ASSUME complexes' \in Seq(Idx),
             \A m, n \in DOMAIN complexes' : complexes'[m] = complexes'[n] => m = n,
             \A n \in DOMAIN complexes' :
               complexes'[n] # Index[s] /\ \E m \in DOMAIN complexes : complexes'[n] = complexes[m],
             \A m \in DOMAIN complexes : complexes[m] # Index[s] =>
               \E n \in DOMAIN complexes' : complexes'[n] = complexes[m]
      PROVE  TypeInv'
  <2>1. TypeOK'
    BY <1>0, <1>2, <1>4, <1>7 DEF DeleteSignal, TypeOK
  <2>2. \A n \in DOMAIN complexes' : databases'["index"][complexes'[n]] # NoDb
    BY <1>0, <1>1, <1>3, <1>6, <1>7 DEF TypeInv, ComplexesRegistered
  <2>3. ASSUME NEW t \in Complex, databases'["index"][Index[t]] # NoDb
        PROVE  \E n \in DOMAIN complexes' : complexes'[n] = Index[t]
    <3>1. Index[t] # Index[s] /\ databases["index"][Index[t]] # NoDb
      BY <1>0, <1>1, <1>3, <2>3, IndexType, ComplexType
    <3>2. PICK m \in DOMAIN complexes : complexes[m] = Index[t]
      BY <3>1 DEF TypeInv, ComplexesRegistered, Find
    <3> QED
      BY <1>7, <3>1, <3>2
  <2> QED
    BY <1>7, <2>1, <2>2, <2>3 DEF TypeInv, ComplexesRegistered, Find
<1>8. CASE \E n \in DOMAIN complexes : complexes[n] = Index[s]
  <2> DEFINE k == CHOOSE n \in DOMAIN complexes : complexes[n] = Index[s]
  <2>1. k \in DOMAIN complexes /\ complexes[k] = Index[s]
    BY <1>8
  <2>2. complexes' = RemoveAt(complexes, k)
    BY <1>8 DEF DeleteSignal
  <2> HIDE DEF k
  <2>3. complexes' \in Seq(Idx)
    BY <1>1, <2>1, <2>2, RemoveAtType
  <2>4. /\ \A m, n \in DOMAIN complexes' : complexes'[m] = complexes'[n] => m = n
        /\ \A n \in DOMAIN complexes' :
              \E m \in DOMAIN complexes : m # k /\ complexes'[n] = complexes[m]
        /\ \A m \in DOMAIN complexes : m # k =>
              \E n \in DOMAIN complexes' : complexes'[n] = complexes[m]
    BY <1>1, <1>5, <2>1, <2>2, RemoveAtMembers
  <2> QED
    BY <1>5, <1>7, <2>1, <2>3, <2>4
<1>9. CASE ~\E n \in DOMAIN complexes : complexes[n] = Index[s]
  <2>1. complexes' = complexes
    BY <1>9 DEF DeleteSignal
  <2> QED
    BY <1>1, <1>5, <1>7, <1>9, <2>1
<1> QED
  BY <1>8, <1>9

LEMMA FlushType == ASSUME TypeInv, Flush PROVE TypeInv'
<1>0. TypeOK /\ calls' \in 0..MaxCalls
  BY CallingType DEF TypeInv, Flush
<1>1. databases' \in [Places -> [Idx -> Dbs \cup {NoDb}]]
  BY DEF Flush
<1>2. complexes' = <<>> /\ complexes' \in Seq(Idx)
  BY EmptySeq DEF Flush
<1>3. history' \in [on : BOOLEAN, log : Seq((Sigs \cup {NoSig}) \X {Microtime})]
  BY <1>0, EmptySeq DEF Flush, TypeOK
<1>4. TypeOK'
  BY <1>0, <1>1, <1>2, <1>3 DEF Flush, TypeOK
<1>5. ComplexesRegistered'
  BY <1>2, IndexType, ComplexType DEF Flush, ComplexesRegistered, Find, Idx, Places
<1> QED
  BY <1>4, <1>5 DEF TypeInv

LEMMA SetSignalHistoryType ==
  ASSUME TypeInv, NEW flag \in BOOLEAN, SetSignalHistory(flag)
  PROVE  TypeInv'
<1>0. TypeOK /\ calls' \in 0..MaxCalls
  BY CallingType DEF TypeInv, SetSignalHistory
<1>1. history' \in [on : BOOLEAN, log : Seq((Sigs \cup {NoSig}) \X {Microtime})]
  BY <1>0, EmptySeq DEF SetSignalHistory, TypeOK
<1> QED
  BY <1>0, <1>1 DEF SetSignalHistory, TypeInv, TypeOK, ComplexesRegistered, Find

LEMMA ThrowType == ASSUME TypeInv, Throw PROVE TypeInv'
<1>0. /\ TypeOK /\ calls' \in 0..MaxCalls /\ heap \in HeapType
      /\ frames \in Seq(FrameType)
  BY CallingType DEF TypeInv, Throw, TypeOK
<1>1. PICK k \in 0..Len(frames) : frames' = SubSeq(frames, 1, k)
  BY <1>0, LenProperties DEF Throw
<1>2. frames' \in Seq(FrameType)
  BY <1>0, <1>1, PrefixType
<1> QED
  BY <1>0, <1>2, TypeFrame DEF Throw

LEMMA EmitType == ASSUME TypeInv, NEW s \in Sigs, Emit(s) PROVE TypeInv'
<1>0. TypeOK /\ calls' \in 0..MaxCalls
  BY CallingType DEF TypeInv, Emit
<1> DEFINE d == Find("index", s)
<1>1. d \in Dbs
  BY <1>0, FindType DEF Emit, Places
<1>2. heap' \in HeapType
  BY <1>0, <1>1, AfterExhaustedType DEF Emit, TypeOK
<1>3. Evaluated \in Seq(Dbs)
  <2>1. Len(complexes) \in Nat /\ DOMAIN complexes = 1..Len(complexes)
    BY <1>0, LenProperties DEF TypeOK
  <2>2. ASSUME NEW n \in 1..Len(complexes)
        PROVE  databases["index"][complexes[n]] \in Dbs
    <3>1. complexes[n] \in Idx
      BY <1>0, ElementOfSeq DEF TypeOK
    <3>2. databases["index"][complexes[n]] # NoDb
      BY <2>1 DEF TypeInv, ComplexesRegistered
    <3> QED
      BY <1>0, <3>1, <3>2 DEF TypeOK, Places
  <2>3. Evaluated \in [1..Len(complexes) -> Dbs]
    BY <2>1, <2>2 DEF Evaluated
  <2> QED
    BY <2>1, <2>3
<1>4. frames' \in Seq(FrameType)
  <2>1. EmitFrame(s, d, Evaluated) \in FrameType
    BY <1>1, <1>3 DEF EmitFrame, FrameType
  <2>2. frames' = Append(frames, EmitFrame(s, d, Evaluated))
    BY DEF Emit, Push
  <2> QED
    BY <1>0, <2>1, <2>2, PushType DEF TypeOK
<1>5. history' \in [on : BOOLEAN, log : Seq((Sigs \cup {NoSig}) \X {Microtime})]
  <2>1. <<s, Microtime>> \in (Sigs \cup {NoSig}) \X {Microtime}
    OBVIOUS
  <2>2. Append(history.log, <<s, Microtime>>) \in Seq((Sigs \cup {NoSig}) \X {Microtime})
    BY <1>0, <2>1, AppendProperties DEF TypeOK
  <2> QED
    BY <1>0, <2>2 DEF Emit, TypeOK
<1>6. parent' \in [Sigs -> Sigs \cup {NoSig}]
  <2>1. CASE Len(signal) > 1
    <3>1. current_signal(1) = signal[2] /\ signal[2] \in Sigs
      BY <1>0, <2>1, LenProperties, ElementOfSeq DEF TypeOK, current_signal
    <3> QED
      BY <1>0, <2>1, <3>1 DEF Emit, TypeOK
  <2>2. CASE ~(Len(signal) > 1)
    BY <1>0, <2>2 DEF Emit, TypeOK
  <2> QED
    BY <2>1, <2>2
<1>7. signal' \in Seq(Sigs)
  BY <1>0, AppendProperties DEF Emit, TypeOK
<1> QED
  BY <1>0, <1>2, <1>4, <1>5, <1>6, <1>7
  DEF Emit, TypeInv, TypeOK, ComplexesRegistered, Find

LEMMA UserType == ASSUME TypeInv, User PROVE TypeInv'
<1>0. TypeOK
  BY DEF TypeInv
<1>1. ASSUME NEW s \in Sigs, NEW p \in Procs, Signal(s, p) \/ Before(s, p) \/ After(s, p)
      PROVE  TypeInv'
  <2>1. calls' \in 0..MaxCalls
    BY <1>0, <1>1, CallingType DEF Signal, Before, After
  <2>2. \E w \in Places : InstallOn(w, s, p)
    BY <1>1 DEF Signal, Before, After, Places
  <2> QED
    BY <2>1, <2>2, InstallOnType
<1>2. ASSUME NEW s \in Sigs, NEW p \in Procs, DeleteProcess(s, p)
      PROVE  TypeInv'
  BY <1>2, DatabaseTypes
<1>3. ASSUME NEW s \in Sigs, HasSignalExhausted(s) \/ EmitNothing(s)
      PROVE  TypeInv'
  BY <1>3, DatabaseTypes
<1> QED
  BY <1>1, <1>2, <1>3, SignalObjectTypes, DeleteSignalType, EraseHistoryType, FlushType,
     SetSignalHistoryType, ThrowType, EmitType DEF User

LEMMA NextType == TypeInv /\ [Next]_vars => TypeInv'
<1> SUFFICES ASSUME TypeInv, [Next]_vars PROVE TypeInv'
  OBVIOUS
<1>1. CASE UNCHANGED vars
  BY <1>1 DEF vars, TypeInv, TypeOK, ComplexesRegistered, Find
<1>2. CASE Next
  BY <1>1, <1>2, StepType, UserType DEF Next, Terminated
<1> QED
  BY <1>1, <1>2

\* Whatever user code calls, and whenever processes call it, every variable of
\* the processor keeps its type: a frame never loops over something that is no
\* database, nor a node holds anything but a process or a database; keys stay
\* unique and pointers in range.
THEOREM TypeCorrect == Spec => []TypeOK
<1>1. TypeInv => TypeOK
  BY DEF TypeInv
<1> QED
  BY <1>1, InitType, NextType, PTL DEF Spec

----------------------------------------------------------------------------
(* The nesting of the call stack: an emit() is at the bottom of it or is   *)
(* called by a process that is running, and every other loop belongs to    *)
(* the emission or the loop below it, which waits for it and works for the *)
(* same signal.  PHP's calls and returns make it so; the proofs need it.   *)

\* Frame f waits for the frame g it has called: a process calls emit(), an
\* emission and a loop over a database call loops for the same signal.
Waits(f, g) ==
  \/ g.op = "emit" /\ f.op = "exec" /\ f.pc = "running"
  \/ g.op = "exec" /\ g.sig = f.sig /\ f.op = "emit" /\ f.pc \in {"main", "after", "done"}
  \/ g.op = "exec" /\ g.sig = f.sig /\ f.op = "exec" /\ f.pc = "next"
  \/ g.op = "merge" /\ g.sig = f.sig /\ f.op = "emit" /\ f.pc = "start"
  \/ g.op = "merge" /\ g.sig = f.sig /\ f.op = "merge" /\ f.pc = "next"

Nested(stack) ==
  /\ \A n \in DOMAIN stack : stack[n].pc = "running" <=> stack[n].proc # NoProc
  /\ stack # <<>> => stack[1].op = "emit"
  /\ \A n \in 1..(Len(stack) - 1) : Waits(stack[n], stack[n + 1])

WellNested == Nested(frames)

\* A frame is called by the innermost one.
LEMMA NestedPush ==
  ASSUME NEW s \in Seq(FrameType), Nested(s), NEW g \in FrameType,
         g.pc = "running" <=> g.proc # NoProc,
         s = <<>> => g.op = "emit",
         s # <<>> => Waits(s[Len(s)], g)
  PROVE  Nested(Append(s, g))
<1>1. Len(s) \in Nat /\ DOMAIN s = 1..Len(s) /\ (s = <<>> <=> Len(s) = 0)
  BY LenProperties, EmptySeq
<1> DEFINE t == Append(s, g)
<1>2. /\ t \in Seq(FrameType) /\ Len(t) = Len(s) + 1 /\ DOMAIN t = 1..(Len(s) + 1)
      /\ t[Len(s) + 1] = g /\ \A n \in 1..Len(s) : t[n] = s[n]
  BY PushType, LenProperties
<1> HIDE DEF t
<1>3. \A n \in DOMAIN t : t[n].pc = "running" <=> t[n].proc # NoProc
  BY <1>1, <1>2 DEF Nested
<1>4. t[1].op = "emit"
  BY <1>1, <1>2 DEF Nested
<1>5. ASSUME NEW n \in 1..Len(s) PROVE Waits(t[n], t[n + 1])
  <2>1. CASE n = Len(s)
    BY <1>1, <1>2, <2>1
  <2>2. CASE n # Len(s)
    <3>0. Len(s) \in Nat /\ n \in Nat /\ 1 <= n /\ n <= Len(s)
      BY LenProperties
    <3>1. n \in 1..(Len(s) - 1) /\ n + 1 \in 1..Len(s)
      BY <2>2, <3>0
    <3> QED
      BY <1>2, <3>1 DEF Nested
  <2> QED
    BY <2>1, <2>2
<1> QED
  BY <1>1, <1>2, <1>3, <1>4, <1>5 DEF Nested, t

\* The innermost frame goes on, to a frame of the same kind and signal.
LEMMA NestedAt ==
  ASSUME NEW s \in Seq(FrameType), s # <<>>, Nested(s), NEW f \in FrameType,
         f.op = s[Len(s)].op, f.sig = s[Len(s)].sig,
         f.pc = "running" <=> f.proc # NoProc
  PROVE  Nested([s EXCEPT ![Len(s)] = f])
<1> DEFINE m == Len(s)
           t == [s EXCEPT ![m] = f]
<1>1. m \in Nat /\ m >= 1 /\ m \in 1..m
  BY EmptySeq
<1>2. DOMAIN s = 1..m
  BY LenProperties
<1>3. t \in Seq(FrameType) /\ Len(t) = m
  BY <1>1, ExceptSeq
<1>4. DOMAIN t = 1..m
  BY <1>3, LenProperties
<1>5. t[m] = f /\ \A n \in 1..m : n # m => t[n] = s[n]
  BY <1>1, <1>2
<1>6. \A n \in 1..m : t[n].op = s[n].op /\ t[n].sig = s[n].sig
  BY <1>5
<1> HIDE DEF t, m
<1>7. \A n \in 1..m : t[n].pc = "running" <=> t[n].proc # NoProc
  BY <1>2, <1>5 DEF Nested
<1>8. t[1].op = "emit"
  BY <1>1, <1>6 DEF Nested
<1>9. ASSUME NEW n \in 1..(m - 1) PROVE Waits(t[n], t[n + 1])
  <2>1. n # m /\ n \in 1..m /\ n + 1 \in 1..m
    BY <1>1
  <2>2. Waits(s[n], s[n + 1])
    BY DEF Nested, m
  <2>3. t[n] = s[n] /\ t[n + 1].op = s[n + 1].op /\ t[n + 1].sig = s[n + 1].sig
    BY <1>5, <1>6, <2>1
  <2> QED
    BY <2>2, <2>3 DEF Waits
<1>10. Nested(t)
  BY <1>3, <1>4, <1>7, <1>8, <1>9 DEF Nested
<1> QED
  BY <1>10 DEF t, m

\* The innermost frames are left, by returning or by an exception.
LEMMA NestedPrefix ==
  ASSUME NEW s \in Seq(FrameType), Nested(s), NEW k \in 0..Len(s)
  PROVE  Nested(SubSeq(s, 1, k))
<1>1. Len(s) \in Nat /\ DOMAIN s = 1..Len(s) /\ (s = <<>> <=> Len(s) = 0)
  BY LenProperties, EmptySeq
<1> DEFINE t == SubSeq(s, 1, k)
<1>2. /\ t \in Seq(FrameType) /\ Len(t) = k /\ DOMAIN t = 1..k
      /\ \A n \in 1..k : t[n] = s[n]
  BY <1>1, PrefixType, LenProperties
<1>3. t = <<>> <=> k = 0
  BY <1>2, EmptySeq
<1> HIDE DEF t
<1>4. \A n \in DOMAIN t : t[n].pc = "running" <=> t[n].proc # NoProc
  BY <1>1, <1>2 DEF Nested
<1>5. t # <<>> => t[1].op = "emit"
  BY <1>1, <1>2, <1>3 DEF Nested
<1>6. \A n \in 1..(k - 1) : Waits(t[n], t[n + 1])
  BY <1>1, <1>2 DEF Nested
<1> QED
  BY <1>2, <1>4, <1>5, <1>6 DEF Nested, t

StackInv == TypeInv /\ WellNested

LEMMA NestedTop ==
  ASSUME StackInv, frames # <<>>
  PROVE  /\ frames \in Seq(FrameType) /\ Nested(frames) /\ Top \in FrameType
         /\ Top.pc = "running" <=> Top.proc # NoProc
<1>1. frames \in Seq(FrameType) /\ Nested(frames)
  BY DEF StackInv, WellNested, TypeInv, TypeOK
<1>2. Len(frames) \in DOMAIN frames
  BY <1>1, TopType, LenProperties
<1> QED
  BY <1>1, <1>2, TopType DEF Nested

\* The innermost frame, which is not running a process, goes on to pc ...
LEMMA AtNested ==
  ASSUME StackInv, frames # <<>>, Top.pc # "running",
         NEW pc \in Pcs, pc # "running"
  PROVE  Nested(At(pc))
<1> DEFINE f == [Top EXCEPT !.pc = pc]
<1>1. /\ f \in FrameType /\ f.op = Top.op /\ f.sig = Top.sig
      /\ f.pc = "running" <=> f.proc # NoProc
  BY NestedTop DEF FrameType, Pcs
<1>2. At(pc) = [frames EXCEPT ![Len(frames)] = f]
  BY DEF At, Top
<1> QED
  BY <1>1, <1>2, NestedTop, NestedAt DEF Top

\* ... and calls frame g from there.
LEMMA CallNested ==
  ASSUME StackInv, frames # <<>>, Top.pc # "running",
         NEW pc \in Pcs, pc # "running",
         NEW g \in FrameType, g.pc # "running", g.proc = NoProc,
         Waits([Top EXCEPT !.pc = pc], g)
  PROVE  Nested(Append(At(pc), g))
<1>1. /\ At(pc) \in Seq(FrameType) /\ Len(At(pc)) = Len(frames)
      /\ At(pc)[Len(frames)] = [Top EXCEPT !.pc = pc]
  BY NestedTop, AtType
<1>2. At(pc) # <<>>
  BY <1>1, NestedTop, TopType, EmptySeq
<1> QED
  BY <1>1, <1>2, AtNested, NestedPush

LEMMA ExecuteNested ==
  ASSUME StackInv, frames # <<>>, Top.pc # "running", NEW d \in Dbs,
         NEW pc \in Pcs, Execute(d, pc),
         \/ Top.op = "emit" /\ pc \in {"main", "after", "done"}
         \/ Top.op = "exec" /\ pc = "next"
  PROVE  WellNested'
<1> DEFINE f == [Top EXCEPT !.pc = pc]
           g == ExecFrame(Top.sig, d)
<1>1. Top \in FrameType /\ Top.sig \in Sigs
  BY NestedTop, FrameFields
<1>2. f.op = Top.op /\ f.sig = Top.sig /\ f.pc = pc
  BY <1>1 DEF FrameType
<1>3. g \in FrameType
  BY <1>1, NewFrameType, EmptySeq
<1>4. g.op = "exec" /\ g.sig = Top.sig /\ g.pc = "fetch" /\ g.proc = NoProc
  BY DEF ExecFrame
<1>5. Waits(f, g)
  BY <1>2, <1>4 DEF Waits
<1>6. frames' = Append(At(pc), g)
  BY DEF Execute
<1> HIDE DEF g
<1> QED
  BY <1>3, <1>4, <1>5, <1>6, CallNested DEF WellNested

LEMMA PoppedNested ==
  ASSUME StackInv, frames # <<>>, frames' = Popped
  PROVE  WellNested'
<1>1. Len(frames) - 1 \in 0..Len(frames)
  BY NestedTop, TopType
<1> QED
  BY <1>1, NestedTop, NestedPrefix DEF Popped, WellNested

LEMMA InterruptNested ==
  ASSUME StackInv, frames # <<>>, Top.op = "emit", Top.pc # "running",
         NEW w \in Places, NEW pc \in {"main", "done"}, Interrupt(w, pc)
  PROVE  WellNested'
<1>1. CASE Find(w, Top.sig) # NoDb
  <2>1. Find(w, Top.sig) \in Dbs
    BY <1>1, NestedTop, FrameFields, FindType DEF StackInv, TypeInv
  <2> QED
    BY <1>1, <2>1, ExecuteNested DEF Interrupt, Pcs
<1>2. CASE Find(w, Top.sig) = NoDb
  BY <1>2, AtNested DEF Interrupt, Pcs, WellNested
<1> QED
  BY <1>1, <1>2

LEMMA StepNested == ASSUME StackInv, Step PROVE WellNested'
<1> USE DEF Pcs
<1>1. /\ frames # <<>> /\ Top \in FrameType
      /\ Top.sig \in Sigs /\ Top.db \in Dbs /\ Top.loop \in Dbs
      /\ Top.key \in Int \cup {NoKey}
      /\ heap \in HeapType /\ frames \in Seq(FrameType)
  <2>1. \E op, pc : On(op, pc)
    BY DEF Step, Accept, Reject, MergeProcess, MergeSubDatabase, MergeFatal, MergeEnd,
           EmitBefore, EmitMain, EmitAfter, EmitEnd, ExecEnd, ExecSubDatabase,
           ExecProcess, Advance, Return
  <2> QED
    BY <2>1, OnType DEF StackInv, TypeInv
<1>2. CASE Accept
  <2> DEFINE f == [Top EXCEPT !.pending = Tail(@)]
             g == MergeFrame(Top.sig, Top.db, Head(Top.pending), NoKey)
  <2>1. Top.op = "emit" /\ Top.pc = "start" /\ Top.pending # <<>>
    BY <1>2 DEF Accept, On
  <2>2. /\ Head(Top.pending) \in Dbs /\ f \in FrameType
        /\ f.op = "emit" /\ f.pc = "start" /\ f.sig = Top.sig /\ f.proc = Top.proc
    <3>1. Head(Top.pending) \in Dbs /\ Tail(Top.pending) \in Seq(Dbs)
      BY <1>1, <2>1, FrameFields, HeadTailProperties
    <3> QED
      BY <1>1, <2>1, <3>1 DEF FrameType
  <2>3. g \in FrameType
    BY <1>1, <2>2, NewFrameType, EmptySeq
  <2>4. g.op = "merge" /\ g.sig = Top.sig /\ g.pc = "fetch" /\ g.proc = NoProc
    BY DEF MergeFrame
  <2>5. frames' = Append([frames EXCEPT ![Len(frames)] = f], g)
    BY <1>2 DEF Accept, NextDatabase, Top
  <2>6. Waits(f, g)
    BY <2>2, <2>4 DEF Waits
  <2>7. f.pc = "running" <=> f.proc # NoProc
    BY <1>1, <2>1, <2>2, NestedTop
  <2> HIDE DEF f, g
  <2> DEFINE t == [frames EXCEPT ![Len(frames)] = f]
  <2>8. Nested(t)
    BY <1>1, <2>1, <2>2, <2>7, NestedTop, NestedAt DEF Top
  <2>9. t \in Seq(FrameType) /\ t # <<>> /\ t[Len(t)] = f
    BY <1>1, <2>2, TopType, ExceptSeq, EmptySeq
  <2> HIDE DEF t
  <2>10. Nested(Append(t, g))
    BY <2>3, <2>4, <2>6, <2>8, <2>9, NestedPush
  <2> QED
    BY <2>5, <2>10 DEF WellNested, t
<1>3. CASE Reject
  <2> DEFINE f == [Top EXCEPT !.pending = Tail(@)]
  <2>1. Top.pending # <<>> /\ Tail(Top.pending) \in Seq(Dbs)
    BY <1>1, <1>3, FrameFields, HeadTailProperties DEF Reject
  <2>2. /\ f \in FrameType /\ f.op = Top.op /\ f.sig = Top.sig
        /\ f.pc = Top.pc /\ f.proc = Top.proc
    BY <1>1, <2>1 DEF FrameType
  <2>3. frames' = [frames EXCEPT ![Len(frames)] = f]
    BY <1>3 DEF Reject, NextDatabase, Top
  <2> HIDE DEF f
  <2> QED
    BY <1>1, <2>2, <2>3, NestedTop, NestedAt DEF WellNested, Top
<1>4. CASE MergeProcess \/ MergeFatal
  BY <1>4 DEF MergeProcess, MergeFatal, StackInv, WellNested
<1>5. CASE MergeSubDatabase
  <2> DEFINE f   == [Top EXCEPT !.pc = "next"]
             s   == heap.store[Top.loop]
             key == s.nodes[s.ptr].key
             g   == MergeFrame(Top.sig, Top.db, Fetched, key)
  <2>1. Top.op = "merge" /\ Top.pc = "fetch" /\ Fetched \in Dbs
    BY <1>5 DEF MergeSubDatabase, On
  <2>2. key \in Int
    BY <1>1, <1>5, HeapFields, currentType DEF MergeSubDatabase
  <2>3. g \in FrameType
    BY <1>1, <2>1, <2>2, NewFrameType, EmptySeq
  <2>4. g.op = "merge" /\ g.sig = Top.sig /\ g.pc = "fetch" /\ g.proc = NoProc
    BY DEF MergeFrame
  <2>5. f.op = "merge" /\ f.sig = Top.sig /\ f.pc = "next"
    BY <1>1, <2>1 DEF FrameType
  <2>6. Waits(f, g)
    BY <2>4, <2>5 DEF Waits
  <2>7. frames' = Append(At("next"), g)
    BY <1>5 DEF MergeSubDatabase
  <2> HIDE DEF g
  <2> QED
    BY <1>1, <2>1, <2>3, <2>4, <2>6, <2>7, CallNested DEF WellNested
<1>6. CASE MergeEnd \/ EmitEnd \/ ExecEnd
  BY <1>1, <1>6, PoppedNested DEF MergeEnd, EmitEnd, ExecEnd
<1>7. CASE EmitBefore \/ EmitAfter
  BY <1>1, <1>7, InterruptNested DEF EmitBefore, EmitAfter, On, Places
<1>8. CASE EmitMain
  BY <1>1, <1>8, ExecuteNested DEF EmitMain, On
<1>9. CASE ExecSubDatabase
  BY <1>1, <1>9, ExecuteNested DEF ExecSubDatabase, On
<1>10. CASE Advance
  BY <1>1, <1>10, AtNested DEF Advance, On, WellNested
<1>11. ASSUME NEW pc \in Pcs, NEW p \in Procs \cup {NoProc},
              frames' = [At(pc) EXCEPT ![Len(frames)].proc = p],
              pc = "running" <=> p # NoProc
       PROVE  WellNested'
  <2> DEFINE f == [[Top EXCEPT !.pc = pc] EXCEPT !.proc = p]
  <2>1. /\ f \in FrameType /\ f.op = Top.op /\ f.sig = Top.sig
        /\ f.pc = pc /\ f.proc = p
    BY <1>1 DEF FrameType
  <2>2. frames' = [frames EXCEPT ![Len(frames)] = f]
    BY <1>1, <1>11, TopType DEF At, Top
  <2> HIDE DEF f
  <2>3. frames \in Seq(FrameType) /\ Nested(frames) /\ frames # <<>>
    BY <1>1 DEF StackInv, WellNested
  <2>4. f.op = frames[Len(frames)].op /\ f.sig = frames[Len(frames)].sig
    BY <2>1 DEF Top
  <2>5. f.pc = "running" <=> f.proc # NoProc
    BY <1>11, <2>1
  <2>6. Nested([frames EXCEPT ![Len(frames)] = f])
    BY <2>1, <2>3, <2>4, <2>5, NestedAt
  <2> QED
    BY <2>2, <2>6 DEF WellNested
<1>12. CASE ExecProcess
  <2>1. Fetched \in Procs /\ Fetched # NoProc
    BY <1>12, NothingType DEF ExecProcess
  <2> QED
    BY <1>11, <1>12, <2>1 DEF ExecProcess
<1>13. CASE \E result \in Returns : Return(result)
  BY <1>11, <1>13 DEF Return
<1> QED
  BY <1>2, <1>3, <1>4, <1>5, <1>6, <1>7, <1>8, <1>9, <1>10, <1>12, <1>13 DEF Step

LEMMA UserNested == ASSUME StackInv, User PROVE WellNested'
<1>0. frames \in Seq(FrameType) /\ Nested(frames) /\ TypeOK
  BY DEF StackInv, WellNested, TypeInv, TypeOK
<1>1. ASSUME NEW s \in Sigs, Emit(s) PROVE WellNested'
  <2> DEFINE g == EmitFrame(s, Find("index", s), Evaluated)
  <2>1. TypeInv'
    BY <1>1, EmitType DEF StackInv
  <2>2. frames' = Append(frames, g)
    BY <1>1 DEF Emit, Push
  <2>3. g.op = "emit" /\ g.pc = "start" /\ g.proc = NoProc
    BY DEF EmitFrame
  <2> HIDE DEF g
  <2>4. g \in FrameType
    <3>1. frames' \in Seq(FrameType) /\ Len(frames) + 1 \in 1..Len(frames')
      BY <1>0, <2>1, <2>2, LenProperties, AppendProperties DEF TypeInv, TypeOK
    <3>2. frames'[Len(frames) + 1] = g
      BY <1>0, <2>2, AppendProperties
    <3> QED
      BY <3>1, <3>2, ElementOfSeq
  <2>5. frames # <<>> => Waits(frames[Len(frames)], g)
    BY <1>1, <2>3 DEF Emit, Calling, Idle, On, Top, Waits
  <2> QED
    BY <1>0, <2>2, <2>3, <2>4, <2>5, NestedPush DEF WellNested
<1>2. CASE Throw
  <2>1. PICK k \in 0..Len(frames) : frames' = SubSeq(frames, 1, k)
    BY <1>0, <1>2, LenProperties DEF Throw
  <2> QED
    BY <1>0, <2>1, NestedPrefix DEF WellNested
<1>3. CASE UNCHANGED frames
  BY <1>0, <1>3 DEF WellNested
<1> QED
  BY <1>1, <1>2, <1>3
  DEF User, Signal, Before, After, InstallOn, DeleteProcess, HasSignalExhausted,
      EmitNothing, Halt, NewSignal, EraseHistory, DeleteSignal, SetSignalHistory, Flush

LEMMA NestedNext == StackInv /\ [Next]_vars => StackInv'
<1> SUFFICES ASSUME StackInv, [Next]_vars PROVE WellNested'
  BY NextType DEF StackInv
<1>1. CASE UNCHANGED vars
  BY <1>1 DEF vars, StackInv, WellNested
<1> QED
  BY <1>1, StepNested, UserNested DEF Next, Terminated

LEMMA InitNested == Init => StackInv
<1>1. Init => Nested(frames)
  BY EmptySeq DEF Init, Nested
<1> QED
  BY <1>1, InitType DEF StackInv, WellNested

----------------------------------------------------------------------------
(* Processor::$_signal for every set of signals and processes, any depth   *)
(* of nested emissions, and any number of calls.  Most steps let it be,    *)
(* and the emissions in progress as well; emit() and its end do not, nor   *)
(* does an exception.                                                      *)

EmissionsStay ==
  /\ signal' = signal
  /\ Emissions(frames', Len(frames')) = Emissions(frames, Len(frames))
  /\ \A n \in Emissions(frames, Len(frames)) : frames'[n].sig = frames[n].sig

LEMMA EmissionsCounted ==
  ASSUME NEW s \in Seq(FrameType), NEW n \in 0..Len(s)
  PROVE  IsFiniteSet(Emissions(s, n)) /\ Cardinality(Emissions(s, n)) \in Nat
<1>1. n \in Nat
  BY LenProperties
<1>2. IsFiniteSet(1..n) /\ Emissions(s, n) \in SUBSET (1..n)
  BY <1>1, FS_Interval DEF Emissions
<1> QED
  BY <1>2, FS_Subset, FS_CardinalityType

\* The position of an emission is one of those that are counted.
LEMMA EmissionsPlace ==
  ASSUME NEW s \in Seq(FrameType), NEW n \in Emissions(s, Len(s))
  PROVE  Cardinality(Emissions(s, n)) \in 1..Cardinality(Emissions(s, Len(s)))
<1>1. Len(s) \in Nat /\ n \in 1..Len(s) /\ n \in 0..Len(s) /\ n \in Emissions(s, n)
  BY LenProperties DEF Emissions
<1>2. Emissions(s, n) \in SUBSET Emissions(s, Len(s))
  BY <1>1 DEF Emissions
<1>3. /\ IsFiniteSet(Emissions(s, n)) /\ Cardinality(Emissions(s, n)) \in Nat
      /\ IsFiniteSet(Emissions(s, Len(s))) /\ Cardinality(Emissions(s, Len(s))) \in Nat
  BY <1>1, EmissionsCounted
<1>4. Cardinality(Emissions(s, n)) # 0
  BY <1>1, <1>3, FS_EmptySet
<1>5. Cardinality(Emissions(s, n)) <= Cardinality(Emissions(s, Len(s)))
  BY <1>2, <1>3, FS_Subset
<1> QED
  BY <1>3, <1>4, <1>5

\* Stacks that agree on their first frames have the same emissions there.
LEMMA EmissionsSame ==
  ASSUME NEW s, NEW t, NEW k \in Nat,
         \A n \in 1..k : t[n].op = s[n].op
  PROVE  \A n \in 0..k : Emissions(t, n) = Emissions(s, n)
BY DEF Emissions

LEMMA StackedSame ==
  ASSUME frames \in Seq(FrameType), SignalStack, EmissionsStay
  PROVE  SignalStack'
<1>1. Len(frames) \in Nat
  BY LenProperties
<1>2. ASSUME NEW n \in Emissions(frames', Len(frames'))
      PROVE  signal'[Cardinality(Emissions(frames', n))] = frames'[n].sig
  <2>1. n \in Emissions(frames, Len(frames)) /\ n \in 1..Len(frames) /\ n \in 1..Len(frames')
    BY <1>2 DEF EmissionsStay, Emissions
  <2>2. Emissions(frames', n) = Emissions(frames, n)
    <3>1. /\ Emissions(frames', n) = Emissions(frames', Len(frames')) \cap (1..n)
          /\ Emissions(frames, n) = Emissions(frames, Len(frames)) \cap (1..n)
      BY <1>1, <2>1 DEF Emissions
    <3> QED
      BY <3>1 DEF EmissionsStay
  <2>3. signal[Cardinality(Emissions(frames, n))] = frames[n].sig
    BY <2>1 DEF SignalStack, Stacked
  <2> QED
    BY <2>1, <2>2, <2>3 DEF EmissionsStay
<1>3. Len(signal') = Cardinality(Emissions(frames', Len(frames')))
  BY DEF EmissionsStay, SignalStack, Stacked
<1> QED
  BY <1>2, <1>3 DEF SignalStack, Stacked

LEMMA EnteredSame == ASSUME SignalsHeld, EmissionsStay PROVE SignalsHeld'
BY DEF SignalsHeld, Entered, EmissionsStay

----------------------------------------------------------------------------
(* An emission is called, and comes to its end.                            *)

LEMMA StackedPush ==
  ASSUME NEW s \in Seq(FrameType), NEW signals \in Seq(Sigs), Stacked(signals, s),
         NEW f \in FrameType, f.op = "emit"
  PROVE  Stacked(Append(signals, f.sig), Append(s, f))
<1> DEFINE k == Len(s)
           t == Append(s, f)
           longer == Append(signals, f.sig)
           c == Cardinality(Emissions(s, k))
<1>1. /\ t \in Seq(FrameType) /\ k \in Nat /\ Len(t) = k + 1 /\ t[k + 1] = f
      /\ \A n \in 1..k : t[n] = s[n]
  BY PushType, LenProperties
<1>2. c \in Nat /\ Len(signals) = c /\ IsFiniteSet(Emissions(s, k))
  BY <1>1, EmissionsCounted DEF Stacked
<1>3. f.sig \in Sigs
  BY FrameFields
<1>4. Len(longer) = c + 1 /\ longer[c + 1] = f.sig /\ \A i \in 1..c : longer[i] = signals[i]
  BY <1>2, <1>3, AppendProperties
<1> HIDE DEF t, longer
<1>5. \A n \in 0..k : Emissions(t, n) = Emissions(s, n)
  BY <1>1, EmissionsSame
<1>6. Emissions(t, k + 1) = Emissions(s, k) \cup {k + 1} /\ k + 1 \notin Emissions(s, k)
  <2>1. Emissions(t, k + 1) = Emissions(t, k) \cup {k + 1}
    BY <1>1 DEF Emissions
  <2> QED
    BY <1>1, <1>5, <2>1 DEF Emissions
<1>7. Cardinality(Emissions(t, k + 1)) = c + 1
  BY <1>2, <1>6, FS_AddElement
<1>8. ASSUME NEW n \in Emissions(t, k + 1)
      PROVE  longer[Cardinality(Emissions(t, n))] = t[n].sig
  <2>1. CASE n = k + 1
    BY <1>1, <1>4, <1>7, <2>1
  <2>2. CASE n # k + 1
    <3>1. n \in Emissions(s, k) /\ n \in 1..k /\ n \in 0..k
      BY <1>1, <1>6, <1>8, <2>2 DEF Emissions
    <3>2. Cardinality(Emissions(s, n)) \in 1..c
      BY <3>1, EmissionsPlace
    <3>3. signals[Cardinality(Emissions(s, n))] = s[n].sig
      BY <3>1 DEF Stacked
    <3> QED
      BY <1>1, <1>4, <1>5, <3>1, <3>2, <3>3
  <2> QED
    BY <2>1, <2>2
<1> QED
  BY <1>1, <1>4, <1>7, <1>8 DEF Stacked, t, longer

LEMMA StackedPop ==
  ASSUME NEW s \in Seq(FrameType), NEW signals \in Seq(Sigs), Stacked(signals, s),
         s # <<>>, s[Len(s)].op = "emit"
  PROVE  Stacked(SubSeq(signals, 1, Len(signals) - 1), SubSeq(s, 1, Len(s) - 1))
<1> DEFINE k == Len(s) - 1
           t == SubSeq(s, 1, k)
           c == Cardinality(Emissions(s, k))
           shorter == SubSeq(signals, 1, Len(signals) - 1)
<1>1. Len(s) \in Nat /\ k \in Nat /\ k + 1 = Len(s) /\ k \in 0..Len(s)
  BY EmptySeq, LenProperties
<1>2. t \in Seq(FrameType) /\ Len(t) = k /\ \A n \in 1..k : t[n] = s[n]
  BY <1>1, PrefixType
<1>3. c \in Nat /\ IsFiniteSet(Emissions(s, k))
  BY <1>1, EmissionsCounted
<1>4. Emissions(s, k + 1) = Emissions(s, k) \cup {k + 1} /\ k + 1 \notin Emissions(s, k)
  BY <1>1 DEF Emissions
<1>5. Len(signals) = c + 1
  <2>1. Cardinality(Emissions(s, k + 1)) = c + 1
    BY <1>3, <1>4, FS_AddElement
  <2> QED
    BY <1>1, <2>1 DEF Stacked
<1>6. Len(shorter) = c /\ \A i \in 1..c : shorter[i] = signals[i]
  BY <1>3, <1>5, PrefixType
<1> HIDE DEF t, shorter
<1>7. \A n \in 0..k : Emissions(t, n) = Emissions(s, n)
  BY <1>1, <1>2, EmissionsSame
<1>8. ASSUME NEW n \in Emissions(t, k)
      PROVE  shorter[Cardinality(Emissions(t, n))] = t[n].sig
  <2>1. n \in 1..k /\ n \in 0..k /\ n \in Emissions(s, k) /\ n \in Emissions(s, k + 1)
    BY <1>1, <1>4, <1>7, <1>8 DEF Emissions
  <2>2. n \in Emissions(t, Len(t))
    BY <1>2, <1>8
  <2>3. Cardinality(Emissions(t, n)) \in 1..c
    BY <1>1, <1>2, <1>7, <2>2, EmissionsPlace
  <2>4. signals[Cardinality(Emissions(s, n))] = s[n].sig
    BY <1>1, <2>1 DEF Stacked
  <2> QED
    BY <1>2, <1>6, <1>7, <2>1, <2>3, <2>4
<1>9. Len(shorter) = Cardinality(Emissions(t, Len(t)))
  BY <1>1, <1>2, <1>6, <1>7
<1>10. Stacked(shorter, t)
  BY <1>2, <1>8, <1>9 DEF Stacked
<1> QED
  BY <1>10 DEF t, shorter

----------------------------------------------------------------------------
(* The steps of the processor.                                             *)

\* The first frames stay what they are, and the others are loops, that are left
\* or called.
LEMMA LoopsChange ==
  ASSUME frames \in Seq(FrameType), frames' \in Seq(FrameType), UNCHANGED signal,
         NEW k \in Nat, k <= Len(frames), k <= Len(frames'),
         \A n \in 1..k : frames'[n].op = frames[n].op /\ frames'[n].sig = frames[n].sig,
         \A n \in (k + 1)..Len(frames) : frames[n].op # "emit",
         \A n \in (k + 1)..Len(frames') : frames'[n].op # "emit"
  PROVE  EmissionsStay
<1>1. Len(frames) \in Nat /\ Len(frames') \in Nat
  BY LenProperties
<1>2. /\ Emissions(frames, Len(frames)) = Emissions(frames, k)
      /\ Emissions(frames', Len(frames')) = Emissions(frames', k)
      /\ Emissions(frames', k) = Emissions(frames, k)
  BY <1>1 DEF Emissions
<1>3. Emissions(frames, k) \subseteq 1..k
  BY DEF Emissions
<1> QED
  BY <1>2, <1>3 DEF EmissionsStay

LEMMA FramesKept ==
  ASSUME TypeOK, TypeOK', UNCHANGED signal, Len(frames') = Len(frames),
         \A n \in 1..Len(frames) :
           frames'[n].op = frames[n].op /\ frames'[n].sig = frames[n].sig
  PROVE  EmissionsStay
<1>1. frames \in Seq(FrameType) /\ frames' \in Seq(FrameType) /\ Len(frames) \in Nat
  BY LenProperties DEF TypeOK
<1>2. \A n \in (Len(frames) + 1)..Len(frames) : FALSE
  BY <1>1
<1> QED
  BY <1>1, <1>2, LoopsChange

LEMMA FramePopped ==
  ASSUME TypeOK, TypeOK', UNCHANGED signal, frames' = Popped,
         frames # <<>>, Top.op # "emit"
  PROVE  EmissionsStay
<1> DEFINE k == Len(frames) - 1
<1>1. frames \in Seq(FrameType) /\ frames' \in Seq(FrameType)
  BY DEF TypeOK
<1>2. k \in Nat /\ k <= Len(frames) /\ Top = frames[k + 1] /\ k + 1 = Len(frames)
  BY <1>1, TopType
<1>3. Len(frames') = k /\ \A n \in 1..k : frames'[n] = frames[n]
  BY <1>1, PoppedType
<1>4. /\ \A n \in (k + 1)..Len(frames) : frames[n].op # "emit"
      /\ \A n \in (k + 1)..Len(frames') : frames'[n].op # "emit"
  BY <1>2, <1>3
<1> HIDE DEF k
<1> QED
  BY <1>1, <1>2, <1>3, <1>4, LoopsChange

LEMMA LoopPushed ==
  ASSUME TypeOK, TypeOK', UNCHANGED signal,
         NEW s \in Seq(FrameType), NEW g \in FrameType,
         Len(s) = Len(frames),
         \A n \in 1..Len(frames) : s[n].op = frames[n].op /\ s[n].sig = frames[n].sig,
         g.op # "emit",
         frames' = Append(s, g)
  PROVE  EmissionsStay
<1>1. frames \in Seq(FrameType) /\ frames' \in Seq(FrameType) /\ Len(frames) \in Nat
  BY LenProperties DEF TypeOK
<1>2. /\ Len(frames') = Len(frames) + 1 /\ frames'[Len(frames) + 1] = g
      /\ \A n \in 1..Len(frames) : frames'[n] = s[n]
  BY PushType
<1>3. /\ \A n \in (Len(frames) + 1)..Len(frames) : frames[n].op # "emit"
      /\ \A n \in (Len(frames) + 1)..Len(frames') : frames'[n].op # "emit"
  BY <1>1, <1>2
<1> QED
  BY <1>1, <1>2, <1>3, LoopsChange

LEMMA ExecuteKeepsSignal ==
  ASSUME TypeInv, TypeInv', frames # <<>>, NEW pc \in Pcs, NEW d \in Dbs, Execute(d, pc)
  PROVE  EmissionsStay
<1> DEFINE g == ExecFrame(Top.sig, d)
<1>1. frames \in Seq(FrameType) /\ Top.sig \in Sigs
  BY TopType, FrameFields DEF TypeInv, TypeOK
<1>2. g \in FrameType /\ g.op # "emit"
  BY <1>1, NewFrameType, EmptySeq DEF ExecFrame
<1>3. frames' = Append(At(pc), g) /\ UNCHANGED signal
  BY DEF Execute
<1> HIDE DEF g
<1> QED
  BY <1>1, <1>2, <1>3, AtSame, LoopPushed DEF TypeInv

LEMMA InterruptKeepsSignal ==
  ASSUME TypeInv, TypeInv', frames # <<>>, NEW w \in Places, NEW pc \in Pcs,
         Interrupt(w, pc)
  PROVE  EmissionsStay
<1>1. frames \in Seq(FrameType) /\ Top.sig \in Sigs /\ TypeOK
  BY TopType, FrameFields DEF TypeInv, TypeOK
<1>2. CASE Find(w, Top.sig) # NoDb
  <2>1. Find(w, Top.sig) \in Dbs /\ Execute(Find(w, Top.sig), pc)
    BY <1>1, <1>2, FindType DEF Interrupt
  <2> QED
    BY <2>1, ExecuteKeepsSignal
<1>3. CASE Find(w, Top.sig) = NoDb
  <2>1. frames' = At(pc) /\ UNCHANGED signal
    BY <1>3 DEF Interrupt
  <2>2. Len(frames) \in Nat
    BY <1>1, LenProperties
  <2> QED
    BY <1>1, <2>1, <2>2, AtSame, FramesKept DEF TypeInv
<1> QED
  BY <1>2, <1>3

LEMMA MergeKeepsSignal ==
  ASSUME TypeInv, TypeInv', MergeProcess \/ MergeSubDatabase \/ MergeFatal \/ MergeEnd
  PROVE  EmissionsStay
<1>1. On("merge", "fetch") /\ TypeOK
  BY DEF MergeProcess, MergeSubDatabase, MergeFatal, MergeEnd, TypeInv
<1>2. /\ frames # <<>> /\ Top.op = "merge" /\ Top.sig \in Sigs /\ Top.db \in Dbs
      /\ Top.loop \in Dbs /\ heap \in HeapType /\ frames \in Seq(FrameType)
  BY <1>1, OnType
<1>3. CASE MergeProcess \/ MergeFatal
  BY <1>3 DEF MergeProcess, MergeFatal, EmissionsStay
<1>4. CASE MergeSubDatabase
  <2> DEFINE s == heap.store[Top.loop]
             g == MergeFrame(Top.sig, Top.db, Fetched, s.nodes[s.ptr].key)
  <2>1. s.nodes[s.ptr].key \in Int /\ Fetched \in Dbs
    BY <1>2, <1>4, HeapFields, currentType DEF MergeSubDatabase
  <2>2. g \in FrameType /\ g.op # "emit"
    BY <1>2, <2>1, NewFrameType, EmptySeq DEF MergeFrame
  <2>3. frames' = Append(At("next"), g) /\ UNCHANGED signal
    BY <1>4 DEF MergeSubDatabase
  <2> HIDE DEF g
  <2> QED
    BY <1>2, <2>2, <2>3, AtSame, LoopPushed DEF Pcs, TypeInv
<1>5. CASE MergeEnd
  BY <1>2, <1>5, FramePopped DEF MergeEnd, TypeInv
<1> QED
  BY <1>3, <1>4, <1>5

LEMMA EmitKeepsSignal ==
  ASSUME TypeInv, TypeInv',
         Accept \/ Reject \/ EmitBefore \/ EmitMain \/ EmitAfter
  PROVE  EmissionsStay
<1> USE DEF Places, Pcs
<1>1. (\E pc : On("emit", pc)) /\ TypeOK
  BY DEF Accept, Reject, EmitBefore, EmitMain, EmitAfter, TypeInv
<1>2. /\ frames # <<>> /\ Top.op = "emit" /\ Top.sig \in Sigs /\ Top.db \in Dbs
      /\ Top.pending \in Seq(Dbs) /\ frames \in Seq(FrameType) /\ Len(frames) \in Nat
  BY <1>1, OnType, LenProperties
<1>3. CASE Accept
  <2> DEFINE g == MergeFrame(Top.sig, Top.db, Head(Top.pending), NoKey)
  <2>1. Top.pending # <<>> /\ frames' = Append(NextDatabase, g) /\ UNCHANGED signal
    BY <1>3 DEF Accept
  <2>2. Head(Top.pending) \in Dbs
    BY <1>2, <2>1, HeadTailProperties
  <2>3. g \in FrameType /\ g.op # "emit"
    BY <1>2, <2>2, NewFrameType, EmptySeq DEF MergeFrame
  <2> HIDE DEF g
  <2> QED
    BY <1>2, <2>1, <2>3, NextDatabaseSame, LoopPushed DEF TypeInv
<1>4. CASE Reject
  <2>1. Top.pending # <<>> /\ frames' = NextDatabase /\ UNCHANGED signal
    BY <1>4 DEF Reject
  <2> QED
    BY <1>2, <2>1, NextDatabaseSame, FramesKept DEF TypeInv
<1>5. CASE EmitBefore
  BY <1>2, <1>5, InterruptKeepsSignal DEF EmitBefore
<1>6. CASE EmitMain
  BY <1>2, <1>6, ExecuteKeepsSignal DEF EmitMain
<1>7. CASE EmitAfter
  BY <1>2, <1>7, InterruptKeepsSignal DEF EmitAfter
<1> QED
  BY <1>3, <1>4, <1>5, <1>6, <1>7

LEMMA ExecKeepsSignal ==
  ASSUME TypeInv, TypeInv',
         \/ ExecEnd \/ ExecSubDatabase \/ ExecProcess \/ Advance
         \/ \E result \in Returns : Return(result)
  PROVE  EmissionsStay
<1> USE DEF Pcs
<1>1. (\E op \in {"exec", "merge"} : \E pc : On(op, pc)) /\ TypeOK
  BY DEF ExecEnd, ExecSubDatabase, ExecProcess, Advance, Return, TypeInv
<1>2. /\ frames # <<>> /\ Top.op # "emit" /\ frames \in Seq(FrameType)
      /\ Len(frames) \in Nat
  BY <1>1, OnType, LenProperties
<1>3. CASE ExecEnd
  BY <1>2, <1>3, FramePopped DEF ExecEnd, TypeInv
<1>4. CASE ExecSubDatabase
  BY <1>2, <1>4, ExecuteKeepsSignal DEF ExecSubDatabase
<1>5. CASE ExecProcess
  <2>1. /\ frames' = WithProc("running", Fetched)
        /\ Fetched \in Procs /\ UNCHANGED signal
    BY <1>5 DEF ExecProcess, WithProc
  <2>2. /\ Len(frames') = Len(frames)
        /\ \A n \in 1..Len(frames) :
             frames'[n].op = frames[n].op /\ frames'[n].sig = frames[n].sig
    BY <1>2, <2>1, ProcSame
  <2> QED
    BY <1>2, <2>1, <2>2, FramesKept DEF TypeInv
<1>6. CASE Advance
  <2>1. frames' = At("fetch") /\ UNCHANGED signal
    BY <1>6 DEF Advance
  <2> QED
    BY <1>2, <2>1, AtSame, FramesKept DEF TypeInv
<1>7. ASSUME NEW result \in Returns, Return(result)
      PROVE  EmissionsStay
  <2>1. frames' = WithProc("fetch", NoProc) /\ UNCHANGED signal
    BY <1>7 DEF Return, WithProc
  <2>2. /\ Len(frames') = Len(frames)
        /\ \A n \in 1..Len(frames) :
             frames'[n].op = frames[n].op /\ frames'[n].sig = frames[n].sig
    BY <1>2, <2>1, ProcSame
  <2> QED
    BY <1>2, <2>1, <2>2, FramesKept DEF TypeInv
<1> QED
  BY <1>3, <1>4, <1>5, <1>6, <1>7

LEMMA UserKeepsSignal ==
  ASSUME TypeInv, User, ~Throw, \A s \in Sigs : ~Emit(s)
  PROVE  EmissionsStay
BY DEF User, Signal, Before, After, InstallOn, DeleteProcess, HasSignalExhausted,
       EmitNothing, Halt, NewSignal, EraseHistory, DeleteSignal, SetSignalHistory, Flush,
       EmissionsStay

\* What changes $_signal or the emissions in progress.
LEMMA SignalSteps ==
  ASSUME TypeInv, TypeInv', [Next]_vars
  PROVE  EmissionsStay \/ (\E s \in Sigs : Emit(s)) \/ EmitEnd \/ Throw
<1>1. CASE UNCHANGED vars
  BY <1>1 DEF vars, EmissionsStay
<1> QED
  BY <1>1, MergeKeepsSignal, EmitKeepsSignal, ExecKeepsSignal, UserKeepsSignal
  DEF Next, Step, Terminated

LEMMA EmitPushes ==
  ASSUME TypeInv, TypeInv', NEW s \in Sigs, Emit(s)
  PROVE  /\ frames \in Seq(FrameType) /\ signal \in Seq(Sigs)
         /\ \E g \in FrameType :
              /\ g.op = "emit" /\ g.sig = s
              /\ frames' = Append(frames, g) /\ signal' = Append(signal, g.sig)
<1> DEFINE g == EmitFrame(s, Find("index", s), Evaluated)
<1>1. frames \in Seq(FrameType) /\ signal \in Seq(Sigs) /\ frames' \in Seq(FrameType)
  BY DEF TypeInv, TypeOK
<1>2. frames' = Append(frames, g) /\ signal' = Append(signal, s)
  BY DEF Emit, Push
<1>3. g.op = "emit" /\ g.sig = s
  BY DEF EmitFrame
<1> HIDE DEF g
<1>4. g \in FrameType
  <2>1. Len(frames) + 1 \in 1..Len(frames') /\ frames'[Len(frames) + 1] = g
    BY <1>1, <1>2, LenProperties, AppendProperties
  <2> QED
    BY <1>1, <2>1, ElementOfSeq
<1> QED
  BY <1>1, <1>2, <1>3, <1>4

LEMMA EmitEndPops ==
  ASSUME TypeInv, EmitEnd
  PROVE  /\ frames \in Seq(FrameType) /\ signal \in Seq(Sigs)
         /\ frames # <<>> /\ frames[Len(frames)].op = "emit"
         /\ signal' = SubSeq(signal, 1, Len(signal) - 1)
         /\ frames' = SubSeq(frames, 1, Len(frames) - 1)
BY DEF TypeInv, TypeOK, EmitEnd, On, Top, Popped

\* Unless processes throw, $_signal is the signals of the emissions in progress,
\* outermost first: whatever the processes of an emission emit, halt, delete or
\* flush meanwhile, array_pop() takes off the entry that this emission pushed.
THEOREM SignalsInEmission ==
  ASSUME "throw" \notin BodyCalls
  PROVE  Spec => []SignalStack
<1>1. Init => TypeInv /\ SignalStack
  <2>1. ASSUME frames = <<>>, signal = <<>> PROVE Stacked(signal, frames)
    <3>1. Len(frames) = 0 /\ Len(signal) = 0
      BY <2>1, EmptySeq
    <3>2. Emissions(frames, Len(frames)) = {}
      BY <3>1 DEF Emissions
    <3> QED
      BY <3>1, <3>2, FS_EmptySet DEF Stacked
  <2> QED
    BY <2>1, InitType DEF Init, SignalStack
<1>2. TypeInv /\ SignalStack /\ [Next]_vars => TypeInv' /\ SignalStack'
  <2> SUFFICES ASSUME TypeInv, SignalStack, [Next]_vars, TypeInv' PROVE SignalStack'
    BY NextType
  <2>1. CASE EmissionsStay
    BY <2>1, StackedSame DEF TypeInv, TypeOK
  <2>2. CASE \E s \in Sigs : Emit(s)
    BY <2>2, EmitPushes, StackedPush DEF SignalStack
  <2>3. CASE EmitEnd
    BY <2>3, EmitEndPops, StackedPop DEF SignalStack
  <2>4. ~Throw
    BY DEF Throw, Calling, Idle
  <2> QED
    BY <2>1, <2>2, <2>3, <2>4, SignalSteps
<1> QED
  BY <1>1, <1>2, PTL DEF Spec

----------------------------------------------------------------------------
(* $_signal when processes throw.                                          *)

LEMMA EnteredPush ==
  ASSUME NEW s \in Seq(FrameType), NEW signals \in Seq(Sigs), Entered(signals, s),
         NEW f \in FrameType, f.op = "emit"
  PROVE  Entered(Append(signals, f.sig), Append(s, f))
<1> DEFINE k == Len(s)
           l == Len(signals)
           t == Append(s, f)
           longer == Append(signals, f.sig)
<1>1. /\ k \in Nat /\ Len(t) = k + 1 /\ t[k + 1] = f
      /\ \A n \in 1..k : t[n] = s[n]
  BY PushType, LenProperties
<1>2. f.sig \in Sigs
  BY FrameFields
<1>3. /\ l \in Nat /\ DOMAIN signals = 1..l /\ DOMAIN longer = 1..(l + 1)
      /\ longer[l + 1] = f.sig /\ \A i \in 1..l : longer[i] = signals[i]
  BY <1>2, AppendProperties, LenProperties
<1> HIDE DEF t, longer, l
<1>4. Emissions(t, k + 1) = Emissions(s, k) \cup {k + 1} /\ Emissions(s, k) \subseteq 1..k
  BY <1>1 DEF Emissions
<1>5. PICK at \in [Emissions(s, k) -> 1..l] :
        /\ \A m, n \in DOMAIN at : m < n => at[m] < at[n]
        /\ \A n \in DOMAIN at : signals[at[n]] = s[n].sig
  BY <1>3 DEF Entered
<1> DEFINE later == [n \in Emissions(t, k + 1) |-> IF n = k + 1 THEN l + 1 ELSE at[n]]
<1>6. later \in [Emissions(t, k + 1) -> 1..(l + 1)]
  BY <1>1, <1>3, <1>4, <1>5
<1>7. \A m, n \in DOMAIN later : m < n => later[m] < later[n]
  <2> SUFFICES ASSUME NEW m \in Emissions(t, k + 1), NEW n \in Emissions(t, k + 1), m < n
               PROVE  later[m] < later[n]
    OBVIOUS
  <2>1. m \in Emissions(s, k) /\ m # k + 1 /\ later[m] = at[m] /\ at[m] \in 1..l
    BY <1>1, <1>4, <1>5
  <2>2. CASE n = k + 1
    BY <1>3, <2>1, <2>2
  <2>3. CASE n # k + 1
    BY <1>4, <1>5, <2>1, <2>3
  <2> QED
    BY <2>2, <2>3
<1>8. \A n \in DOMAIN later : longer[later[n]] = t[n].sig
  BY <1>1, <1>3, <1>4, <1>5
<1> HIDE DEF later
<1>9. Entered(longer, t)
  BY <1>1, <1>3, <1>6, <1>7, <1>8 DEF Entered
<1> QED
  BY <1>9 DEF t, longer

\* The first frames of a stack need the entries of theirs only: those that are
\* dropped from the end of $_signal have to be past them.
LEMMA EnteredPrefix ==
  ASSUME NEW s \in Seq(FrameType), NEW signals \in Seq(Sigs), NEW k \in 0..Len(s),
         NEW l \in 0..Len(signals),
         NEW at \in [Emissions(s, Len(s)) -> DOMAIN signals],
         \A m, n \in DOMAIN at : m < n => at[m] < at[n],
         \A n \in DOMAIN at : signals[at[n]] = s[n].sig,
         \A n \in Emissions(s, k) : at[n] <= l
  PROVE  Entered(SubSeq(signals, 1, l), SubSeq(s, 1, k))
<1> DEFINE t == SubSeq(s, 1, k)
           shorter == SubSeq(signals, 1, l)
<1>1. Len(s) \in Nat /\ Len(signals) \in Nat /\ DOMAIN signals = 1..Len(signals)
  BY LenProperties
<1>2. Len(t) = k /\ \A n \in 1..k : t[n] = s[n]
  BY <1>1, PrefixType
<1>3. /\ DOMAIN shorter = 1..l /\ \A i \in 1..l : shorter[i] = signals[i]
  BY <1>1, PrefixType, LenProperties
<1> HIDE DEF t, shorter
<1>4. /\ Emissions(t, k) = Emissions(s, k)
      /\ Emissions(s, k) \subseteq Emissions(s, Len(s)) /\ Emissions(s, k) \subseteq 1..k
  BY <1>1, <1>2 DEF Emissions
<1> DEFINE fewer == [n \in Emissions(s, k) |-> at[n]]
<1>5. fewer \in [Emissions(t, Len(t)) -> 1..l]
  BY <1>1, <1>2, <1>4
<1>6. \A m, n \in DOMAIN fewer : m < n => fewer[m] < fewer[n]
  BY <1>4
<1>7. \A n \in DOMAIN fewer : shorter[fewer[n]] = t[n].sig
  BY <1>2, <1>3, <1>4, <1>5
<1> HIDE DEF fewer
<1>8. Entered(shorter, t)
  BY <1>3, <1>5, <1>6, <1>7 DEF Entered
<1> QED
  BY <1>8 DEF t, shorter

\* The last entry is at, or past, that of the innermost emission.
LEMMA EnteredPop ==
  ASSUME NEW s \in Seq(FrameType), NEW signals \in Seq(Sigs), Entered(signals, s),
         s # <<>>, s[Len(s)].op = "emit"
  PROVE  Entered(SubSeq(signals, 1, Len(signals) - 1), SubSeq(s, 1, Len(s) - 1))
<1>1. /\ Len(s) \in Nat \ {0} /\ Len(s) \in Emissions(s, Len(s))
      /\ Len(signals) \in Nat /\ DOMAIN signals = 1..Len(signals)
  BY EmptySeq, LenProperties DEF Emissions
<1>2. PICK at \in [Emissions(s, Len(s)) -> DOMAIN signals] :
        /\ \A m, n \in DOMAIN at : m < n => at[m] < at[n]
        /\ \A n \in DOMAIN at : signals[at[n]] = s[n].sig
  BY DEF Entered
<1>3. at[Len(s)] \in 1..Len(signals)
  BY <1>1, <1>2
<1>4. \A n \in Emissions(s, Len(s) - 1) : at[n] <= Len(signals) - 1
  <2> TAKE n \in Emissions(s, Len(s) - 1)
  <2>1. n \in Emissions(s, Len(s)) /\ n < Len(s)
    BY <1>1 DEF Emissions
  <2>2. at[n] < at[Len(s)] /\ at[n] \in 1..Len(signals)
    BY <1>1, <1>2, <2>1
  <2> QED
    BY <1>1, <1>3, <2>2
<1>5. Len(s) - 1 \in 0..Len(s) /\ Len(signals) - 1 \in 0..Len(signals)
  BY <1>1, <1>3
<1> QED
  BY <1>2, <1>4, <1>5, EnteredPrefix

LEMMA EnteredCut ==
  ASSUME NEW s \in Seq(FrameType), NEW signals \in Seq(Sigs), Entered(signals, s),
         NEW k \in 0..Len(s)
  PROVE  Entered(signals, SubSeq(s, 1, k))
<1>1. /\ Len(s) \in Nat /\ Len(signals) \in 0..Len(signals)
      /\ DOMAIN signals = 1..Len(signals) /\ SubSeq(signals, 1, Len(signals)) = signals
  BY LenProperties, PrefixType
<1>2. PICK at \in [Emissions(s, Len(s)) -> DOMAIN signals] :
        /\ \A m, n \in DOMAIN at : m < n => at[m] < at[n]
        /\ \A n \in DOMAIN at : signals[at[n]] = s[n].sig
  BY DEF Entered
<1>3. \A n \in Emissions(s, k) : at[n] <= Len(signals)
  <2>1. Emissions(s, k) \subseteq Emissions(s, Len(s))
    BY <1>1 DEF Emissions
  <2> QED
    BY <1>1, <1>2, <2>1
<1> QED
  BY <1>1, <1>2, <1>3, EnteredPrefix

\* Whatever is thrown, and wherever it is caught, every emission that goes on
\* has its entry in $_signal, in its place among those of the others.
THEOREM SignalsStayHeld == Spec => []SignalsHeld
<1>1. Init => TypeInv /\ SignalsHeld
  <2>1. ASSUME frames = <<>>, signal = <<>> PROVE Entered(signal, frames)
    <3>1. Emissions(frames, Len(frames)) = {}
      BY <2>1, EmptySeq DEF Emissions
    <3>2. [n \in {} |-> 0] \in [Emissions(frames, Len(frames)) -> DOMAIN signal]
      BY <3>1
    <3> QED
      BY <3>1, <3>2 DEF Entered
  <2> QED
    BY <2>1, InitType DEF Init, SignalsHeld
<1>2. TypeInv /\ SignalsHeld /\ [Next]_vars => TypeInv' /\ SignalsHeld'
  <2> SUFFICES ASSUME TypeInv, SignalsHeld, [Next]_vars, TypeInv' PROVE SignalsHeld'
    BY NextType
  <2>1. CASE EmissionsStay
    BY <2>1, EnteredSame
  <2>2. CASE \E s \in Sigs : Emit(s)
    BY <2>2, EmitPushes, EnteredPush DEF SignalsHeld
  <2>3. CASE EmitEnd
    BY <2>3, EmitEndPops, EnteredPop DEF SignalsHeld
  <2>4. CASE Throw
    <3>1. PICK k \in 0..Len(frames) : frames' = SubSeq(frames, 1, k)
      BY <2>4, LenProperties DEF Throw, TypeInv, TypeOK
    <3>2. signal' = signal
      BY <2>4 DEF Throw
    <3> QED
      BY <3>1, <3>2, EnteredCut DEF SignalsHeld, TypeInv, TypeOK
  <2> QED
    BY <2>1, <2>2, <2>3, <2>4, SignalSteps
<1> QED
  BY <1>1, <1>2, PTL DEF Spec
=============================================================================

-------------------------- MODULE GenGCSafetyProofs --------------------------
(***************************************************************************)
(* What a collection leaves behind, for all values of the constants: the   *)
(* nursery, with nothing that leads into it, and the old generation, with  *)
(* the footers of its chunks.                                              *)
(***************************************************************************)
EXTENDS GenGCProofs

-----------------------------------------------------------------------------
(***************************************************************************)
(* Nothing is left in the nursery.                                         *)
(***************************************************************************)
\* The roots that a collection has not come to the end of.
Waiting == IF pc = "evacuate_packed" THEN ev.queue \cup {ev.root} ELSE ev.queue

\* A read cursor into the nursery is that of a root that has still to be evacuated.
ReadersAwaited ==
    \A x \in Readers : contains_addr(var[x].ptr) =>
      \E r \in Waiting : r.prov = "Stk" /\ r.x = x /\ r.ptr = var[x].ptr
RInv ==
    /\ h.fault = "none" /\ pc \in {"roots", "evacuate_packed"} => ReadersAwaited
    /\ pc = "resume" => /\ h.fault = "none"
                        /\ \A x \in Readers : ~contains_addr(var[x].ptr)
                        /\ \A x \in Writers : ~contains_addr(var[x].wptr)

\* A root that is done with: its read cursor, if it is one, has left the nursery.
LEMMA RootReached ==
    ASSUME GInv, RInv, h.fault = "none", pc \in {"roots", "evacuate_packed"}, pc' = "roots",
           NEW r, ev'.queue = Waiting \ {r}, DOMAIN var = Var,
           NEW vs, vs = var', DOMAIN vs = Var,
           \A x \in Var : \/ vs[x].ptr = var[x].ptr /\ ~(r.prov = "Stk" /\ r.x = x /\ r.ptr = var[x].ptr /\ contains_addr(r.ptr))
                          \/ ~contains_addr(vs[x].ptr)
    PROVE  RInv'
  <1>1. ReadersAwaited
    BY DEF RInv
  <1>2. ASSUME NEW x \in Var, vs[x].ptr # 0, contains_addr(vs[x].ptr)
        PROVE  \E s \in Waiting \ {r} : s.prov = "Stk" /\ s.x = x /\ s.ptr = vs[x].ptr
    <2>1. vs[x].ptr = var[x].ptr /\ ~(r.prov = "Stk" /\ r.x = x /\ r.ptr = var[x].ptr) /\ x \in Readers
      BY <1>2 DEF Readers
    <2>2. PICK s \in Waiting : s.prov = "Stk" /\ s.x = x /\ s.ptr = var[x].ptr
      BY <1>1, <1>2, <2>1 DEF ReadersAwaited
    <2> QED
      BY <2>1, <2>2
  <1>3. Waiting' = Waiting \ {r}
    BY DEF Waiting
  <1>4. ReadersAwaited'
    BY <1>2, <1>3 DEF ReadersAwaited, Readers
  <1> QED
    BY <1>4 DEF RInv

\* The read cursors stay, and so do the roots.
LEMMA RootsStay ==
    ASSUME RInv, h.fault = "none", pc \in {"roots", "evacuate_packed"},
           pc' \in {"roots", "evacuate_packed"}, Waiting' = Waiting,
           \A x \in Var : var'[x].ptr = var[x].ptr
    PROVE  RInv'
  BY DEF RInv, ReadersAwaited, Readers

\* Steps of the program.
LEMMA ProgramReaders ==
    ASSUME pc' = "mutator"
    PROVE  RInv'
  BY DEF RInv

\* The read shadow-stack becomes the roots (garbage_collect).
LEMMA StartReaders ==
    ASSUME NEW x, NEW size, StartCollection(x, size)
    PROVE  RInv'
  <1>1. pc' = "roots" /\ var' = var /\ ev'.queue = Roots
    BY DEF StartCollection
  <1>2. ASSUME NEW y \in Readers
        PROVE  \E r \in Roots : r.prov = "Stk" /\ r.x = y /\ r.ptr = var[y].ptr
    <2>1. PICK r : r = [prov |-> "Stk", ptr |-> var[y].ptr, endptr |-> var[y].endptr, x |-> y]
      OBVIOUS
    <2>2. r \in Roots
      BY <2>1 DEF Roots, StackRoots
    <2> QED
      BY <2>1, <2>2
  <1> QED
    BY <1>1, <1>2 DEF RInv, ReadersAwaited, Waiting, Readers

\* A root in the old generation is no cursor into the nursery (evacuate_roots).
LEMMA SkipReaders ==
    ASSUME GInv, RInv, SkipOldRoot
    PROVE  RInv'
  <1>1. PICK P : P = PlacesOf(PendingRoots)
    OBVIOUS
  <1>2. PICK r \in ev.queue : ~contains_addr(r.ptr) /\ ev' = [ev EXCEPT !.queue = @ \ {r}]
    BY DEF SkipOldRoot
  <1>3. Collecting("roots") /\ pc' = "roots" /\ var' = var
    BY DEF SkipOldRoot, Collecting
  <1>4. RootsState(P) /\ pc = "roots"
    BY <1>1, <1>3, RootsIs
  <1>5. h.fault = "none" /\ DOMAIN var = Var /\ QueueShape(ev)
    BY <1>4 DEF RootsState, VarShape
  <1>6. ev'.queue = Waiting \ {r}
    BY <1>2, <1>4, <1>5 DEF QueueShape, Waiting
  <1> QED
    BY <1>2, <1>3, <1>4, <1>5, <1>6, RootReached

\* A cursor to what has been copied already goes to the copy (evacuate_copied).
LEMMA CopiedReaders ==
    ASSUME GInv, RInv, evacuate_copied
    PROVE  RInv'
  <1>1. PICK P : P = PlacesOf(PendingRoots)
    OBVIOUS
  <1>2. PICK r \in ev.queue :
          /\ r.prov = "RemSet" \/ contains_addr(r.ptr)
          /\ ev' = [ev EXCEPT !.queue = @ \ {r}]
          /\ LET fwd == find_forwarding_pointer(SrcOf(r))
             IN IF fwd.fault # "none" THEN h' = Fail(h, fwd.fault) /\ UNCHANGED var
                ELSE IF r.prov = "Stk"
                THEN /\ var' = [var EXCEPT ![r.x].ptr = fwd.to, ![r.x].endptr = fwd.footer]
                     /\ UNCHANGED h
                ELSE /\ h' = add_old_to_old_indirection(
                               Store(h, r.ptr - 1, PtrCell("INDIRECTION", fwd.to, 0)),
                               r.endptr, fwd.footer)
                     /\ UNCHANGED var
    BY DEF evacuate_copied
  <1>3. Collecting("roots") /\ pc' = "roots"
    BY DEF evacuate_copied, Collecting
  <1>4. RootsState(P) /\ pc = "roots"
    BY <1>1, <1>3, RootsIs
  <1>5. h.fault = "none" /\ VarShape(var) /\ DOMAIN var = Var /\ QueueShape(ev) /\ QueueOK(ev)
        /\ HeapShape(h)
    BY <1>4 DEF RootsState, VarShape
  <1>6. ev'.queue = Waiting \ {r}
    BY <1>2, <1>4, <1>5 DEF QueueShape, Waiting
  <1>7. PICK fwd : fwd = find_forwarding_pointer(SrcOf(r))
    OBVIOUS
  <1>8. CASE fwd.fault # "none"
    <2>1. h'.fault # "none"
      BY <1>2, <1>5, <1>7, <1>8, FailSame
    <2> QED
      BY <1>3, <2>1 DEF RInv
  <1>9. CASE fwd.fault = "none" /\ r.prov = "Stk"
    <2>1. PICK x, d, e, ws : x = r.x /\ d = fwd.to /\ e = fwd.footer /\ ws = var'
      OBVIOUS
    <2>2. ReaderAt(var, x, d, e, ws)
      BY <1>2, <1>7, <1>9, <2>1 DEF ReaderAt
    <2>3. DOMAIN ws = Var /\ \A y \in Var \ {x} : ws[y].ptr = var[y].ptr
      BY <1>5, <2>2 DEF ReaderAt
    <2>4. x \in Var => ws[x].ptr = d
      BY <1>5, <2>2 DEF ReaderAt, VarShape, RecShape
    <2>5. ~contains_addr(d)
      <3>1. SrcOf(r) \in Int
        BY <1>2, <1>9, Layout DEF SrcOf, contains_addr
      <3>2. d \in Int /\ d < heap_start
        BY <1>5, <1>7, <1>9, <2>1, <3>1, <1>4, FindForwarding DEF RootsState
      <3> QED
        BY <3>2, Layout DEF contains_addr
    <2> QED
      BY <1>3, <1>4, <1>5, <1>6, <2>1, <2>3, <2>4, <2>5, RootReached
  <1>10. CASE fwd.fault = "none" /\ r.prov # "Stk"
    <2>1. var' = var
      BY <1>2, <1>7, <1>10
    <2> QED
      BY <1>3, <1>4, <1>5, <1>6, <1>10, <2>1, RootReached
  <1> QED
    BY <1>8, <1>9, <1>10

\* The root that is evacuated is still awaited (evacuate_roots).
LEMMA StartRootReaders ==
    ASSUME GInv, RInv, StartRoot
    PROVE  RInv'
  <1>1. PICK r \in ev.queue : ev'.queue = ev.queue \ {r} /\ ev'.root = r
    BY DEF StartRoot
  <1>2. pc = "roots" /\ h.fault = "none" /\ pc' = "evacuate_packed" /\ var' = var
    BY DEF StartRoot, Collecting
  <1>3. Waiting' = Waiting
    BY <1>1, <1>2 DEF Waiting
  <1> QED
    BY <1>2, <1>3, RootsStay

\* What a step of evacuate_packed does to the roots: nothing.
SameRoots(e, e2) == e2.queue = e.queue /\ e2.root = e.root

\* It leaves the read cursors too.
LEMMA PackedReaders ==
    ASSUME GInv, RInv, Collecting("evacuate_packed"), pc' = pc,
           SameRoots(ev, ev'), \A x \in Var : var'[x].ptr = var[x].ptr
    PROVE  RInv'
  BY RootsStay DEF Collecting, SameRoots, Waiting

\* These are the steps that do.
LEMMA StepReaders ==
    ASSUME GInv, RInv,
           \/ RestoreSource \/ WriteSkipover \/ PointToCopy
           \/ InlineIndirection \/ KeepIndirection \/ AbortInlining \/ ReconcileRegions
           \/ CopyConstructor
    PROVE  RInv'
  <1>1. Collecting("evacuate_packed") /\ pc' = pc /\ var' = var
    BY DEF RestoreSource, WriteSkipover, PointToCopy, InlineIndirection, KeepIndirection,
           AbortInlining, ReconcileRegions, CopyConstructor, AtTag, Acting
  <1>2. PICK P : P = PlacesOf(PendingRoots)
    OBVIOUS
  <1>3. RootShape(ev)
    BY <1>1, <1>2, EvacIs DEF EvacState
  <1>4. SameRoots(ev, ev')
    <2>1. CASE RestoreSource
      BY <1>3, <2>1 DEF RestoreSource, SameRoots, RootShape
    <2>2. CASE WriteSkipover
      BY <1>3, <2>2 DEF WriteSkipover, SameRoots, RootShape
    <2>3. CASE PointToCopy
      BY <1>3, <2>3 DEF PointToCopy, SameRoots, RootShape
    <2>4. CASE InlineIndirection
      BY <1>3, <2>4 DEF InlineIndirection, SameRoots, RootShape
    <2>5. CASE KeepIndirection
      BY <1>3, <2>5 DEF KeepIndirection, SameRoots, RootShape
    <2>6. CASE AbortInlining
      BY <1>3, <2>6 DEF AbortInlining, SameRoots, RootShape
    <2>7. CASE ReconcileRegions
      BY <1>3, <2>7 DEF ReconcileRegions, SameRoots, RootShape
    <2>8. CASE CopyConstructor
      BY <1>3, <2>8 DEF CopyConstructor, SameRoots, RootShape
    <2> QED
      BY <2>1, <2>2, <2>3, <2>4, <2>5, <2>6, <2>7, <2>8
  <1> QED
    BY <1>1, <1>4, PackedReaders

\* A write cursor that is found moves no read cursor (evacuate_packed).
LEMMA UncauterizeReaders ==
    ASSUME GInv, RInv, Uncauterize
    PROVE  RInv'
  <1>1. Collecting("evacuate_packed") /\ pc' = pc
    BY DEF Uncauterize, AtTag, Acting
  <1>2. PICK P : P = PlacesOf(PendingRoots)
    OBVIOUS
  <1>3. RootShape(ev) /\ VarShape(var)
    BY <1>1, <1>2, EvacIs DEF EvacState
  <1>4. SameRoots(ev, ev')
    BY <1>3 DEF Uncauterize, SameRoots, RootShape
  <1>5. PICK x, vs, d, e : var' = [var EXCEPT ![x].wptr = d, ![x].wend = e] /\ vs = var'
    BY DEF Uncauterize, WriterHere
  <1>6. ASSUME NEW y \in Var
        PROVE  vs[y].ptr = var[y].ptr
    BY <1>3, <1>5 DEF VarShape, RecShape
  <1> QED
    BY <1>1, <1>4, <1>5, <1>6, PackedReaders

\* A root has been evacuated: its cursor is at the copy (evacuate_nursery_root).
LEMMA FinishReaders ==
    ASSUME GInv, RInv, FinishRoot
    PROVE  RInv'
  <1>1. PICK P : P = PlacesOf(PendingRoots)
    OBVIOUS
  <1>2. Collecting("evacuate_packed") /\ pc' = "roots" /\ pc = "evacuate_packed"
    BY DEF FinishRoot, Collecting
  <1>3. EvacState(P)
    BY <1>1, <1>2, EvacIs
  <1>4. /\ h.fault = "none" /\ VarShape(var) /\ DOMAIN var = Var /\ BrkOK(h.brk)
        /\ RootOK(ev, P, var, h.brk)
    BY <1>3 DEF EvacState, VarShape
  <1>5. PICK r, d, e, ws : r = ev.root /\ d = ev.orig_dst /\ e = ev.orig_dst_end /\ ws = var'
    OBVIOUS
  <1>6. ~contains_addr(d)
    BY <1>4, <1>5, Layout DEF RootOK, BrkOK, contains_addr
  <1>7. ev'.queue = Waiting \ {r}
    <2>1. ev'.queue = ev.queue
      BY DEF FinishRoot
    <2> QED
      BY <1>2, <1>4, <1>5, <2>1 DEF Waiting, RootOK
  <1>8. CASE r.prov = "Stk"
    <2>1. ReaderAt(var, r.x, d, e, ws)
      BY <1>5, <1>8 DEF FinishRoot, ReaderAt
    <2>2. PICK x : x = r.x
      OBVIOUS
    <2>3. DOMAIN ws = Var /\ \A y \in Var \ {x} : ws[y].ptr = var[y].ptr
      BY <1>4, <2>1, <2>2 DEF ReaderAt
    <2>4. x \in Var => ws[x].ptr = d
      BY <1>4, <2>1, <2>2 DEF ReaderAt, VarShape, RecShape
    <2> QED
      BY <1>2, <1>4, <1>5, <1>6, <1>7, <2>2, <2>3, <2>4, RootReached
  <1>9. CASE r.prov # "Stk"
    <2>1. var' = var
      BY <1>5, <1>9 DEF FinishRoot
    <2> QED
      BY <1>2, <1>4, <1>7, <1>9, <2>1, RootReached
  <1> QED
    BY <1>8, <1>9

\* Restoring the writers moves no read cursor (restore_writers).
LEMMA RestoreReaders ==
    ASSUME GInv, RInv, NEW x \in Var, RestoreWriter(x)
    PROVE  RInv'
  <1>1. PICK P : P = PlacesOf(PendingRoots)
    OBVIOUS
  <1>2. Collecting("roots") /\ pc' = pc /\ ev' = ev
    BY DEF RestoreWriter
  <1>3. RootsState(P) /\ pc = "roots" /\ h.fault = "none"
    BY <1>1, <1>2, RootsIs DEF RootsState
  <1>4. PICK vs, d, e : var' = [var EXCEPT ![x].wptr = d, ![x].wend = e] /\ vs = var'
    BY DEF RestoreWriter
  <1>5. VarShape(var)
    BY <1>3 DEF RootsState
  <1>6. ASSUME NEW y \in Var
        PROVE  vs[y].ptr = var[y].ptr
    BY <1>4, <1>5 DEF VarShape, RecShape
  <1>7. Waiting' = Waiting
    BY <1>2 DEF Waiting
  <1> QED
    BY <1>2, <1>3, <1>4, <1>6, <1>7, RootsStay

\* No root is left, so no cursor is left in the nursery that is cleared.
LEMMA ClearedReaders ==
    ASSUME GInv, RInv, CollectRegions
    PROVE  RInv'
  <1>1. /\ Collecting("roots") /\ pc' = "resume" /\ var' = var /\ ev.queue = {} /\ pc = "roots"
        /\ h.fault = "none" /\ \A x \in Writers : ~contains_addr(var[x].wptr)
    BY DEF CollectRegions, Collecting
  <1>2. \A x \in Readers : ~contains_addr(var[x].ptr)
    <2>1. ReadersAwaited /\ Waiting = {}
      BY <1>1 DEF RInv, Waiting, Collecting
    <2> QED
      BY <2>1 DEF ReadersAwaited
  <1>3. h'.fault = "none"
    <2>1. PICK m, g : /\ m = [a \in OldAddresses |-> h.mem[a]]
                      /\ g = [h EXCEPT !.rem_set = {}, !.alloc = heap_end, !.mem = m]
      OBVIOUS
    <2>2. HeapShape(h)
      BY DEF GInv
    <2>3. HeapShape(g) /\ g.fault = "none"
      BY <1>1, <2>1, <2>2 DEF HeapShape
    <2>4. h' = collect_regions(g)
      BY <2>1 DEF CollectRegions
    <2> QED
      BY <2>3, <2>4, CollectRegionsSame
  <1> QED
    BY <1>1, <1>2, <1>3 DEF RInv, Readers, Writers

\* Every step.
LEMMA NextReaders ==
    ASSUME GInv, RInv, Next
    PROVE  RInv'
  <1>1. ASSUME NEW x \in Var, NEW size \in RegionSizes,
               AllocFast(x, size) \/ AllocOnHeap(x, size) \/ StartCollection(x, size)
        PROVE  RInv'
    <2>1. CASE AllocFast(x, size) \/ AllocOnHeap(x, size)
      BY <2>1, ProgramReaders DEF AllocFast, AllocOnHeap, Mutating
    <2>2. CASE StartCollection(x, size)
      BY <2>2, StartReaders
    <2> QED
      BY <1>1, <2>1, <2>2
  <1>2. ASSUME NEW x \in Var, NEW con \in Con, NEW b \in BOOLEAN, WriteCon(x, con, b)
        PROVE  RInv'
    BY <1>2, ProgramReaders DEF WriteCon, Mutating
  <1>3. ASSUME NEW x \in Var, NEW y \in Var, NEW b \in BOOLEAN, WriteIndirection(x, y, b)
        PROVE  RInv'
    BY <1>3, ProgramReaders DEF WriteIndirection, Mutating
  <1>4. ASSUME NEW x \in Var, NEW y \in Var, NEW i \in 1 .. Fuel, ReadPart(x, y, i)
        PROVE  RInv'
    BY <1>4, ProgramReaders DEF ReadPart, Mutating
  <1>5. ASSUME NEW x \in Var, Drop(x)
        PROVE  RInv'
    BY <1>5, ProgramReaders DEF Drop, Mutating
  <1>6. ASSUME NEW x \in Var, RestoreWriter(x)
        PROVE  RInv'
    BY <1>6, RestoreReaders
  <1>7. CASE Evacuate
    BY <1>7, SkipReaders, CopiedReaders, StartRootReaders, StepReaders, UncauterizeReaders,
       FinishReaders DEF Evacuate
  <1>8. CASE CollectRegions
    BY <1>8, ClearedReaders
  <1>9. CASE Resume
    BY <1>9, ProgramReaders DEF Resume
  <1> QED
    BY <1>1, <1>2, <1>3, <1>4, <1>5, <1>6, <1>7, <1>8, <1>9 DEF Next

\* What the two invariants say when the nursery has been cleared.
LEMMA InvLeft == GInv /\ RInv => NurseryLeft
  <1> SUFFICES ASSUME GInv, RInv, pc = "resume"
               PROVE  \A a \in DOMAIN h.mem :
                        ~contains_addr(a) /\ h.mem[a].tag \in {"INDIRECTION", "REDIRECTION"}
                          => ~contains_addr(h.mem[a].to)
    BY DEF RInv, NurseryLeft
  <1>1. Good /\ h.fault = "none"
    BY DEF GInv, RInv
  <1>2. Remembered = {} /\ PlacesOf({}) = {}
    BY <1>1 DEF Good, Remembered, PendingRoots, PlacesOf
  <1>3. MemOK(h.mem, {}, h.brk)
    BY <1>1, <1>2 DEF Good, HeapOK
  <1> QED
    BY <1>3 DEF MemOK, GoodCell, Pointers

\* When a collection has cleared the nursery, no read or write cursor of the program
\* and no pointer of the old generation leads into it, whatever the roots shared and
\* in whichever order they were taken (garbage_collect, evacuate_roots,
\* restore_writers): as long as an inlining that is undone finds room for its
\* indirection, like all that rests on the invariant.
THEOREM NurseryIsLeft == Spec /\ []UndoneInPlace => []NurseryLeft
  <1>1. Spec /\ []UndoneInPlace => []GInv
    BY InvariantHolds
  <1>2. Init => RInv
    BY DEF Init, RInv
  <1>3. GInv /\ RInv /\ [Next]_vars => RInv'
    <2>1. ASSUME RInv, UNCHANGED vars
          PROVE  RInv'
      BY <2>1 DEF vars, RInv, ReadersAwaited, Readers, Writers, Waiting
    <2> QED
      BY <2>1, NextReaders
  <1>4. GInv /\ RInv => NurseryLeft
    BY InvLeft
  <1> QED
    BY <1>1, <1>2, <1>3, <1>4, PTL DEF Spec

-----------------------------------------------------------------------------
(***************************************************************************)
(* No footer is written over.                                              *)
(***************************************************************************)
\* What a bounds check asks for is enough for an indirection too, and still leaves
\* room for a redirection.
Wide == 2 * PtrBytes <= Bound

\* A remembered pointer, the cursors of the program, the cursor of the copy and those
\* that it may go back to are clear of footers; FInv says so of a state.
PlacesClear(g, P) == \A p \in P : Clear(g, p, p)
WritersEnd(g, vs) == \A x \in OldWritersIn(vs) : EndOK(g, vs[x].wptr, vs[x].wend)
Returns(w) == {w[i] : i \in {j \in DOMAIN w : w[j].act = "RestoreSrc"}}
CopyEnds(g, e) ==
    e.worklist # <<>> => /\ EndOK(g, e.dst, e.dst_end)
                         /\ \A a \in Returns(e.worklist) : EndOK(g, a.dst, a.dst_end)
FInv ==
    /\ Low(h)
    /\ h.fault = "none" => /\ PlacesClear(h, PlacesOf(Remembered))
                           /\ Wide => WritersEnd(h, var)
                           /\ pc = "evacuate_packed" => CopyEnds(h, ev)

\* A step that keeps the footers does what the properties say.
LEMMA KeptIs == ASSUME FootKept(h, h') PROVE KeepsFooters
  BY DEF FootKept, KeepsFooters, OldFooters, FootersOf, IsFooter, Tag

\* Remembered pointers stay clear of footers,
LEMMA PlacesStay ==
    ASSUME NEW g, NEW n, Low(g), Footed(g, n), n.fault = "none", NEW P, PlacesClear(g, P),
           \A p \in P : p \in Nat /\ p + PtrBytes <= g.brk,
           NEW Q, \A q \in Q : q \in P \/ Clear(n, q, q)
    PROVE  PlacesClear(n, Q)
  <1>1. g.brk \in Nat
    BY DEF Low, Footed, FootersOK, BrkOK
  <1>2. ASSUME NEW p \in P
        PROVE  Clear(n, p, p)
    <2>1. p \in Nat /\ p + PtrBytes <= g.brk /\ p <= g.brk /\ Clear(g, p, p)
      BY <1>1 DEF PlacesClear, PtrBytes
    <2> QED
      BY <2>1, ClearLater
  <1> QED
    BY <1>2 DEF PlacesClear

\* and so do cursors with their ends, if the footers stay.
LEMMA WritersStay ==
    ASSUME NEW g, NEW n, Low(g), Footed(g, n), FootKept(g, n), n.fault = "none",
           NEW vs, NEW P, ProgramOK(vs, P, g.brk), WritersEnd(g, vs),
           NEW ws,
           \A y \in OldWritersIn(ws) :
             \/ /\ y \in OldWritersIn(vs)
                /\ ws[y].wptr = vs[y].wptr /\ ws[y].wend = vs[y].wend
             \/ EndOK(n, ws[y].wptr, ws[y].wend)
    PROVE  WritersEnd(n, ws)
  <1>1. g.brk \in Nat
    BY DEF Low, Footed, FootersOK, BrkOK
  <1>2. ASSUME NEW y \in OldWritersIn(vs)
        PROVE  EndOK(n, vs[y].wptr, vs[y].wend)
    <2>1. WriterOK(vs[y], g.brk) /\ ~contains_addr(vs[y].wptr)
      BY DEF OldWritersIn, ProgramOK
    <2>2. vs[y].wptr \in Nat /\ vs[y].wptr + PtrBytes <= g.brk
      BY <1>1, <2>1 DEF WriterOK, Top, PtrBytes, FooterBytes
    <2> QED
      BY <2>2, EndLater DEF WritersEnd
  <1> QED
    BY <1>2 DEF WritersEnd

\* The worklist is put together from parts of the one before and one new element.
LEMMA ReturnsOf ==
    ASSUME NEW S, NEW v \in Seq(S), NEW w \in Seq(S)
    PROVE  /\ Returns(v \o w) \subseteq Returns(v) \cup Returns(w)
           /\ v # <<>> => Returns(Tail(v)) \subseteq Returns(v)
           /\ \A i \in 1 .. Len(v) + 1 : Returns(SubSeq(v, i, Len(v))) \subseteq Returns(v)
  <1>1. ASSUME NEW a \in Returns(v \o w)
        PROVE  a \in Returns(v) \cup Returns(w)
    <2>1. PICK i \in DOMAIN (v \o w) : a = (v \o w)[i] /\ a.act = "RestoreSrc"
      BY DEF Returns
    <2>2. i \in 1 .. Len(v) + Len(w)
      BY <2>1, ConcatProperties
    <2>3. CASE i <= Len(v)
      <3>1. i \in DOMAIN v /\ a = v[i]
        BY <2>1, <2>2, <2>3, ConcatProperties, LenProperties
      <3> QED
        BY <2>1, <3>1 DEF Returns
    <2>4. CASE ~(i <= Len(v))
      <3>1. i - Len(v) \in DOMAIN w /\ a = w[i - Len(v)]
        BY <2>1, <2>2, <2>4, ConcatProperties, LenProperties
      <3> QED
        BY <2>1, <3>1 DEF Returns
    <2> QED
      BY <2>3, <2>4
  <1>2. ASSUME v # <<>>, NEW a \in Returns(Tail(v))
        PROVE  a \in Returns(v)
    <2>1. PICK i \in DOMAIN Tail(v) : a = Tail(v)[i] /\ a.act = "RestoreSrc"
      BY DEF Returns
    <2>2. i + 1 \in DOMAIN v /\ a = v[i + 1]
      BY <1>2, <2>1
    <2> QED
      BY <2>1, <2>2 DEF Returns
  <1>3. ASSUME NEW i \in 1 .. Len(v) + 1, NEW a \in Returns(SubSeq(v, i, Len(v)))
        PROVE  a \in Returns(v)
    <2>1. PICK j \in DOMAIN SubSeq(v, i, Len(v)) : a = SubSeq(v, i, Len(v))[j] /\ a.act = "RestoreSrc"
      BY DEF Returns
    <2>2. i + j - 1 \in DOMAIN v /\ a = v[i + j - 1]
      BY <2>1, LenProperties
    <2> QED
      BY <2>1, <2>2 DEF Returns
  <1> QED
    BY <1>1, <1>2, <1>3

\* The ends that the copy may go back to.
LEMMA ReturnsStay ==
    ASSUME NEW g, NEW n, Low(g), Footed(g, n), FootKept(g, n), n.fault = "none",
           NEW lo, NEW w \in Seq(Actions(lo, g.brk)),
           \A a \in Returns(w) : EndOK(g, a.dst, a.dst_end)
    PROVE  \A a \in Returns(w) : EndOK(n, a.dst, a.dst_end)
  <1> SUFFICES ASSUME NEW a \in Returns(w) PROVE EndOK(n, a.dst, a.dst_end)
    OBVIOUS
  <1>1. a \in Actions(lo, g.brk) /\ a.act = "RestoreSrc"
    BY DEF Returns
  <1>2. a.dst \in Nat /\ PlaceOK(a.dst, a.dst_end, lo, g.brk)
    BY <1>1, ActionIs
  <1>3. EndOK(g, a.dst, a.dst_end)
    OBVIOUS
  <1> QED
    BY <1>2, <1>3, EndLater DEF PlaceOK

\* A step of the program, if its writers are clear of footers afterwards and what is
\* remembered newly is.
LEMMA MutatorFoot ==
    ASSUME GInv, FInv, Mutating, pc' = "mutator", NEW P, P = PlacesOf(h.rem_set),
           NEW n, n = h', NEW ws, ws = var', Footed(h, n), Wide => FootKept(h, n),
           n.fault = "none" =>
             /\ \A q \in PlacesOf(n.rem_set) : q \in P \/ Clear(n, q, q)
             /\ Wide => \A y \in OldWritersIn(ws) :
                          \/ /\ y \in OldWritersIn(var)
                             /\ ws[y].wptr = var[y].wptr /\ ws[y].wend = var[y].wend
                          \/ EndOK(n, ws[y].wptr, ws[y].wend)
    PROVE  FInv' /\ (Wide => FootKept(h, h'))
  <1>1. Low(n) /\ Low(h)
    BY DEF Footed, FInv
  <1>2. ASSUME n.fault = "none"
        PROVE  /\ PlacesClear(n, PlacesOf(Remembered)')
               /\ Wide => WritersEnd(n, ws)
    <2>1. /\ ProgramOK(var, P, h.brk) /\ \A p \in P : p \in Nat /\ p + PtrBytes <= h.brk
          /\ h.fault = "none"
      BY MutatorIs
    <2>2. PlacesOf(Remembered)' = PlacesOf(n.rem_set)
      BY DEF Remembered, PlacesOf
    <2>3. PlacesClear(h, P) /\ (Wide => WritersEnd(h, var))
      BY <2>1 DEF FInv, Mutating, Remembered
    <2>4. PlacesClear(n, PlacesOf(n.rem_set))
      BY <1>1, <1>2, <2>1, <2>3, PlacesStay
    <2>5. ASSUME Wide
          PROVE  WritersEnd(n, ws)
      BY <1>1, <1>2, <2>1, <2>3, <2>5, WritersStay
    <2> QED
      BY <2>2, <2>4, <2>5
  <1> QED
    BY <1>1, <1>2 DEF FInv

\* A region in the nursery,
LEMMA NurseryFoot ==
    ASSUME NEW P, HeapOK(h, P), h.fault = "none", Low(h), h.alloc \in heap_start .. heap_end,
           NEW size \in RegionSizes, Fits(size), NEW n, n = NurseryChunk(size)
    PROVE  Footed(h, n) /\ FootKept(h, n)
  <1>1. PICK a \in Int : a = h.alloc - NurseryFooterBytes
    BY DEF NurseryFooterBytes
  <1>2. heap_start <= a
    <2>1. size \in Nat
      BY ProgramAssumption
    <2> QED
      BY <1>1, <2>1, Layout DEF Fits, NurseryFooterBytes
  <1>3. PICK cell, low : cell = NurseryFooter(size) /\ low = h.alloc - size - NurseryFooterBytes
    OBVIOUS
  <1>4. cell.tag = "nursery_footer"
    BY <1>3 DEF NurseryFooter
  <1>5. PICK k : k = Store(h, a, cell)
    OBVIOUS
  <1>6. Footed(h, k) /\ FootKept(h, k)
    <2>1. Beyond(h, a, SizeOf(cell))
      BY <1>2, FootYoung
    <2> QED
      BY <1>4, <1>5, <2>1, FootStore
  <1>7. /\ HeapShape(n) /\ n.mem = k.mem /\ n.brk = k.brk /\ n.fault = k.fault
        /\ SameInfo(k, n)
    <2>1. n = [h EXCEPT !.alloc = low, !.mem = Write(h.mem, a, cell)]
      BY <1>1, <1>3 DEF NurseryChunk
    <2>2. k = [h EXCEPT !.mem = Write(h.mem, a, cell)]
      BY <1>5 DEF Store
    <2> QED
      BY <2>1, <2>2 DEF Low, HeapShape, SameInfo
  <1>8. FootersOf(n) = FootersOf(k)
    BY <1>7 DEF FootersOf
  <1>9. LinksKept(k, n)
    BY <1>7, <1>8, SameLinks
  <1> QED
    BY <1>6, <1>7, <1>8, <1>9 DEF Footed, FootKept, LinksKept, Low, FootersOK

\* which the program writes to next.
LEMMA AllocFastFoot ==
    ASSUME GInv, FInv, NEW x \in Var, NEW size \in RegionSizes, AllocFast(x, size)
    PROVE  FInv' /\ (Wide => FootKept(h, h'))
  <1>1. PICK P : P = PlacesOf(h.rem_set)
    OBVIOUS
  <1>2. Mutating /\ Fits(size) /\ pc' = "mutator"
    BY DEF AllocFast, Mutating
  <1>3. PICK n : n = NurseryChunk(size)
    OBVIOUS
  <1>4. h' = n
    BY <1>3 DEF AllocFast
  <1>5. PICK a, e : a = h.alloc - size - NurseryFooterBytes /\ e = h.alloc - NurseryFooterBytes
    OBVIOUS
  <1>6. /\ h.fault = "none" /\ HeapOK(h, P) /\ h.alloc \in heap_start .. heap_end /\ VarShape(var)
    BY <1>1, <1>2, MutatorIs
  <1>7. n.rem_set = h.rem_set /\ contains_addr(a)
    BY <1>2, <1>3, <1>5, <1>6, NurseryChunkOK
  <1>8. Footed(h, n) /\ FootKept(h, n)
    BY <1>2, <1>3, <1>6, NurseryFoot DEF FInv
  <1>9. PICK w, ws : w = [ptr |-> 0, endptr |-> 0, wptr |-> a, wend |-> e, todo |-> 1] /\ ws = var'
    OBVIOUS
  <1>10. ws = [var EXCEPT ![x] = w]
    BY <1>5, <1>9, OpenRecord DEF AllocFast, OpenRegion
  <1>11. ws[x] = w /\ \A y \in Var \ {x} : ws[y] = var[y]
    BY <1>6, <1>10 DEF VarShape
  <1>12. \A y \in OldWritersIn(ws) : y \in OldWritersIn(var) /\ ws[y] = var[y]
    BY <1>7, <1>9, <1>11 DEF OldWritersIn, WritersIn
  <1> QED
    BY <1>1, <1>2, <1>4, <1>7, <1>8, <1>9, <1>12, MutatorFoot

\* A large region (gib_alloc_region_on_heap).
LEMMA AllocOnHeapFoot ==
    ASSUME GInv, FInv, NEW x \in Var, NEW size \in RegionSizes, AllocOnHeap(x, size)
    PROVE  FInv' /\ (Wide => FootKept(h, h'))
  <1>1. PICK P : P = PlacesOf(h.rem_set)
    OBVIOUS
  <1>2. Mutating /\ pc' = "mutator"
    BY DEF AllocOnHeap, Mutating
  <1>3. PICK s : s = AlignUp(size)
    OBVIOUS
  <1>4. GoodSize(s)
    BY <1>3, ProgramAssumption, SizesFit DEF GoodSize
  <1>5. PICK c : c = allocate_first_chunk(h, s, 1)
    OBVIOUS
  <1>6. PICK n, d, e : n = c.h /\ d = c.dst /\ e = c.dst_end
    OBVIOUS
  <1>7. h' = n /\ var' = OpenRegion(x, d, e)
    BY <1>3, <1>5, <1>6 DEF AllocOnHeap
  <1>8. n.rem_set = h.rem_set
    BY <1>1, <1>2, <1>4, <1>5, <1>6, FirstChunkLater, MutatorIs DEF LaterOld, Later
  <1>9. Footed(h, n) /\ FootKept(h, n) /\ (n.fault = "none" => EndOK(n, d, e))
    BY <1>4, <1>5, <1>6, FootFirst, CountsAre DEF FInv
  <1>10. PICK w, ws : w = [ptr |-> 0, endptr |-> 0, wptr |-> d, wend |-> e, todo |-> 1] /\ ws = var'
    OBVIOUS
  <1>11. ws = [var EXCEPT ![x] = w]
    BY <1>7, <1>10, OpenRecord DEF OpenRegion
  <1>12. ws[x] = w /\ \A y \in Var \ {x} : ws[y] = var[y]
    BY <1>11 DEF VarShape, GInv
  <1>13. ASSUME n.fault = "none", NEW y \in OldWritersIn(ws)
         PROVE  \/ y \in OldWritersIn(var) /\ ws[y] = var[y]
                \/ EndOK(n, ws[y].wptr, ws[y].wend)
    <2>1. CASE y = x
      BY <1>9, <1>10, <1>12, <1>13, <2>1
    <2>2. CASE y # x
      BY <1>12, <2>2 DEF OldWritersIn, WritersIn
    <2> QED
      BY <2>1, <2>2
  <1> QED
    BY <1>1, <1>2, <1>7, <1>8, <1>9, <1>10, <1>13, MutatorFoot

\* After its bounds check the program's cursor is clear of footers too, and if the check
\* asks for enough there is room behind what it writes.
LEMMA CheckedFoot ==
    ASSUME GInv, FInv, Mutating, NEW x \in Writers, NEW c, c = CheckedCursor(x)
    PROVE  /\ Footed(h, c.h) /\ (Wide => FootKept(h, c.h))
           /\ c.h.fault = "none" /\ Wide => /\ c.dst + 2 * PtrBytes <= c.dst_end
                                            /\ contains_addr(c.dst) \/ EndOK(c.h, c.dst, c.dst_end)
  <1>1. PICK P : P = PlacesOf(h.rem_set)
    OBVIOUS
  <1>2. /\ h.fault = "none" /\ HeapOK(h, P) /\ ProgramOK(var, P, h.brk)
        /\ MemOK(h.mem, P, h.brk) /\ BrkOK(h.brk)
    BY <1>1, MutatorIs
  <1>3. PICK a, e : a = var[x].wptr /\ e = var[x].wend
    OBVIOUS
  <1>4. x \in WritersIn(var) /\ WriterOK(var[x], h.brk)
    BY <1>2 DEF Writers, WritersIn, ProgramOK
  <1>5. /\ a \in Nat /\ e \in Int /\ h.brk \in Nat /\ h.brk < heap_start
        /\ heap_start \in Nat /\ heap_end \in Nat
    BY <1>2, <1>3, <1>4, Layout DEF WriterOK, BrkOK
  <1>6. Wide /\ ~contains_addr(a) => EndOK(h, a, e)
    BY <1>2, <1>3, <1>4 DEF FInv, WritersEnd, OldWritersIn
  <1>7. Low(h)
    BY DEF FInv
  <1>8. CASE a + Bound > e
    <2>1. PICK k : k = gib_grow_region(h, a, e)
      OBVIOUS
    <2>2. c = k
      BY <1>3, <1>8, <2>1 DEF CheckedCursor
    <2>3. contains_addr(a) <=> contains_addr(e)
      <3>1. ~contains_addr(a) => e + FooterBytes <= h.brk
        BY <1>3, <1>4, <1>5 DEF WriterOK, Top, PtrBytes, FooterBytes
      <3> QED
        BY <1>3, <1>4, <1>5, <3>1 DEF WriterOK, contains_addr, FooterBytes
    <2>4. ~contains_addr(a) => a + PtrBytes <= h.brk
      BY <1>3, <1>4, <1>5 DEF WriterOK, Top, PtrBytes, FooterBytes
    <2>5. contains_addr(e) /\ Tag(h.mem, e) = "nursery_footer" => GoodSize(h.mem[e].size)
      BY <1>2 DEF MemOK, GoodCell, Tag
    <2>6. /\ Footed(h, k.h)
          /\ contains_addr(a) \/ Beyond(h, a, PtrBytes) => FootKept(h, k.h)
          /\ k.h.fault = "none" => /\ k.dst = h.brk /\ k.dst_end \in Nat
                                   /\ EndOK(k.h, k.dst, k.dst_end)
                                   /\ \E size : Roomy(size) /\ NewChunk(h, k, size)
      BY <1>2, <1>5, <1>7, <2>1, <2>3, <2>4, <2>5, FootGrow
    <2>7. Wide => contains_addr(a) \/ Beyond(h, a, PtrBytes)
      <3>1. PtrBytes \in Nat
        BY DEF PtrBytes
      <3> QED
        BY <1>2, <1>5, <1>6, <1>7, <3>1, ClearBeyond DEF EndOK
    <2>8. ASSUME k.h.fault = "none"
          PROVE  k.dst + 2 * PtrBytes <= k.dst_end
      <3>1. PICK size : Roomy(size) /\ NewChunk(h, k, size)
        BY <2>6, <2>8
      <3>2. size \in Nat /\ size >= 57
        BY <3>1, SizesFit DEF Roomy
      <3> QED
        BY <1>5, <2>6, <2>8, <3>1, <3>2 DEF NewChunk, PtrBytes, FooterBytes
    <2> QED
      BY <2>2, <2>6, <2>7, <2>8
  <1>9. CASE ~(a + Bound > e)
    <2>1. c.h = h /\ c.dst = a /\ c.dst_end = e
      BY <1>3, <1>9 DEF CheckedCursor
    <2>2. Footed(h, h) /\ FootKept(h, h)
      BY <1>7, FootRefl
    <2>3. Wide => a + 2 * PtrBytes <= e
      BY <1>5, <1>9, BoundIs DEF Wide, PtrBytes
    <2> QED
      BY <1>6, <2>1, <2>2, <2>3
  <1> QED
    BY <1>8, <1>9

\* What the program writes there, of m bytes.
LEMMA WrittenFoot ==
    ASSUME GInv, FInv, Mutating, NEW x \in Writers, NEW c, c = CheckedCursor(x),
           NEW m \in Nat, m # 0,
           c.h.fault = "none" => c.dst \in Nat /\ c.dst_end \in Int,
           c.h.fault = "none" /\ Wide => c.dst + m + PtrBytes <= c.dst_end,
           NEW n, Footed(c.h, n),
           (c.h.fault = "none" => Beyond(c.h, c.dst, m)) => FootKept(c.h, n)
    PROVE  /\ Footed(h, n) /\ (Wide => FootKept(h, n))
           /\ n.fault = "none" /\ Wide => contains_addr(c.dst) \/ EndOK(n, c.dst + m, c.dst_end)
  <1>1. /\ Footed(h, c.h) /\ (Wide => FootKept(h, c.h)) /\ Low(h) /\ Low(c.h)
        /\ c.h.fault = "none" /\ Wide => contains_addr(c.dst) \/ EndOK(c.h, c.dst, c.dst_end)
    BY CheckedFoot DEF FInv, Footed
  <1>2. PICK d, e : d = c.dst /\ e = c.dst_end
    OBVIOUS
  <1>3. ASSUME c.h.fault = "none", Wide
        PROVE  Beyond(c.h, d, m)
    <2>1. d \in Nat /\ e \in Int /\ d + m <= e
      <3>1. d \in Nat /\ e \in Int /\ d + m + PtrBytes <= e
        BY <1>2, <1>3
      <3> QED
        BY <3>1 DEF PtrBytes
    <2>2. CASE contains_addr(d)
      BY <1>1, <1>3, <2>1, <2>2, FootYoung, Layout DEF contains_addr
    <2>3. CASE ~contains_addr(d)
      <3>1. Clear(c.h, d, e)
        BY <1>1, <1>2, <1>3, <2>3 DEF EndOK
      <3> QED
        BY <1>1, <1>3, <2>1, <3>1, ClearBeyond
    <2> QED
      BY <2>2, <2>3
  <1>4. Wide => FootKept(c.h, n)
    BY <1>2, <1>3
  <1>5. Footed(h, n) /\ (Wide => FootKept(h, n))
    BY <1>1, <1>4, FootTrans
  <1>6. ASSUME n.fault = "none", Wide, ~contains_addr(d)
        PROVE  EndOK(n, d + m, e)
    <2>1. c.h.fault = "none" /\ Low(n)
      BY <1>6 DEF Footed
    <2>2. d \in Nat /\ e \in Int /\ d + m + PtrBytes <= e /\ EndOK(c.h, d, e)
      BY <1>1, <1>2, <1>6, <2>1
    <2>3. e + FooterBytes <= c.h.brk /\ c.h.brk \in Nat
      <3>1. e \in FootersOf(c.h)
        BY <2>2 DEF EndOK, IsFooter, Tag, FootersOf
      <3> QED
        BY <1>1, <2>1, <3>1 DEF Low, FootersOK, BrkOK
    <2>4. d + PtrBytes <= c.h.brk
      BY <2>2, <2>3 DEF PtrBytes, FooterBytes
    <2>5. EndOK(n, d, e)
      BY <1>1, <1>4, <1>6, <2>2, <2>4, EndLater
    <2>6. Clear(n, d + m, e)
      BY <1>6, <2>1, <2>2, <2>5, ClearBehind DEF EndOK
    <2> QED
      BY <2>5, <2>6 DEF EndOK
  <1> QED
    BY <1>2, <1>5, <1>6

\* The program writes a constructor.
LEMMA WriteConFoot ==
    ASSUME GInv, FInv, NEW x \in Var, NEW con \in Con, NEW b, WriteCon(x, con, b)
    PROVE  FInv' /\ (Wide => FootKept(h, h'))
  <1>1. PICK P : P = PlacesOf(h.rem_set)
    OBVIOUS
  <1>2. Mutating /\ x \in Writers /\ pc' = "mutator" /\ VarShape(var)
    BY DEF WriteCon, Mutating, GInv
  <1>3. PICK c : c = CheckedCursor(x)
    OBVIOUS
  <1>4. PICK id : id = IF ScalarBytes[con] = 0 THEN 0 ELSE count.writes
    OBVIOUS
  <1>5. PICK cell : cell = ConCell(con, id)
    OBVIOUS
  <1>6. PICK m, k, ws : m = SizeOf(cell) /\ k = Store(c.h, c.dst, cell) /\ ws = var'
    OBVIOUS
  <1>7. h' = k /\ Advance(x, var, c, m, Fields[con], b)
    BY <1>3, <1>4, <1>5, <1>6 DEF WriteCon
  <1>8. cell.tag # "footer" /\ m = 1 + ScalarBytes[con] /\ m \in Nat /\ m # 0
    BY <1>5, <1>6, ConShape, SizeOfCell
  <1>9. /\ Later(h, c.h, P)
        /\ c.h.fault = "none" => /\ c.dst + 1 + ScalarBytes[con] + PtrBytes <= c.dst_end
                                 /\ c.dst \in Nat /\ c.dst_end \in Int
    BY <1>1, <1>2, <1>3, CheckedLater
  <1>10. c.h.fault = "none" => c.dst + m + PtrBytes <= c.dst_end /\ c.dst + m <= c.dst_end
    BY <1>8, <1>9, InfoTable DEF PtrBytes
  <1>11. k.rem_set = h.rem_set /\ k.fault = c.h.fault
    BY <1>6, <1>9, StoreShape DEF Later, HeapOK
  <1>12. Low(c.h)
    BY <1>2, <1>3, CheckedFoot DEF Footed
  <1>13. Footed(c.h, k) /\ ((c.h.fault = "none" => Beyond(c.h, c.dst, m)) => FootKept(c.h, k))
    <2>1. PICK g, d : g = c.h /\ d = c.dst
      OBVIOUS
    <2>2. g.fault = "none" => d \in Int
      BY <1>9, <2>1
    <2>3. Low(g) /\ k = Store(g, d, cell) /\ cell.tag # "footer"
      BY <1>6, <1>8, <1>12, <2>1
    <2>4. /\ Footed(g, k)
          /\ (g.fault = "none" => d \in Int /\ Beyond(g, d, SizeOf(cell))) => FootKept(g, k)
      BY <2>3, FootStore
    <2> QED
      BY <1>6, <2>1, <2>2, <2>4
  <1>14. /\ Footed(h, k) /\ (Wide => FootKept(h, k))
         /\ k.fault = "none" /\ Wide => contains_addr(c.dst) \/ EndOK(k, c.dst + m, c.dst_end)
    BY <1>2, <1>3, <1>8, <1>9, <1>10, <1>13, WrittenFoot
  <1>15. /\ x \in WritersIn(ws) => ws[x].wptr = c.dst + m /\ ws[x].wend = c.dst_end
         /\ \A y \in WritersIn(ws) \ {x} : y \in WritersIn(var) /\ ws[y] = var[y]
    <2>1. Fields[con] \in Nat
      BY InfoTable
    <2>2. Moved(var, ws, x, c.dst + m, c.dst_end)
      BY <1>2, <1>6, <1>7, <2>1, AdvanceIs
    <2> QED
      BY <2>2 DEF Moved
  <1>16. c.h.fault = "none" /\ contains_addr(c.dst) => contains_addr(c.dst + m)
    BY <1>1, <1>2, <1>3, <1>8, <1>10, CheckedClear DEF ClearFor
  <1>17. ASSUME k.fault = "none", Wide, NEW y \in OldWritersIn(ws)
         PROVE  \/ y \in OldWritersIn(var) /\ ws[y] = var[y]
                \/ EndOK(k, ws[y].wptr, ws[y].wend)
    <2>1. CASE y = x
      BY <1>11, <1>14, <1>15, <1>16, <1>17, <2>1 DEF OldWritersIn
    <2>2. CASE y # x
      BY <1>15, <2>2 DEF OldWritersIn
    <2> QED
      BY <2>1, <2>2
  <1> QED
    BY <1>1, <1>2, <1>6, <1>7, <1>11, <1>14, <1>17, MutatorFoot

\* An indirection that uses its variable up leaves fewer writers.
LEMMA UsedUpWriters ==
    ASSUME VarShape(var), NEW y \in Var, NEW vs, vs = var \/ vs = UsedUp(y)
    PROVE  VarShape(vs) /\ \A z \in WritersIn(vs) : z \in WritersIn(var) /\ vs[z] = var[z]
  <1>1. CASE vs = var
    BY <1>1
  <1>2. CASE vs = UsedUp(y)
    <2>1. PICK w : w = Unused
      OBVIOUS
    <2>2. RecShape(w) /\ Assigned(var, y, w, vs)
      BY <1>2, <2>1, UnusedShape DEF UsedUp, Assigned
    <2>3. VarShape(vs) /\ vs[y] = w /\ \A z \in Var \ {y} : vs[z] = var[z]
      BY <2>2, PutShape DEF Put
    <2>4. y \notin WritersIn(vs)
      BY <2>1, <2>3, UnusedShape DEF WritersIn
    <2> QED
      BY <2>3, <2>4 DEF WritersIn
  <1> QED
    BY <1>1, <1>2

\* The program writes an indirection; if the bounds check asks for enough, it too leaves
\* room for a redirection (gib_indirection_barrier).
LEMMA WriteIndirectionFoot ==
    ASSUME GInv, FInv, NEW x \in Var, NEW y \in Var, NEW b, WriteIndirection(x, y, b)
    PROVE  FInv' /\ (Wide => FootKept(h, h'))
  <1>1. PICK P : P = PlacesOf(h.rem_set)
    OBVIOUS
  <1>2. Mutating /\ x \in Writers /\ pc' = "mutator" /\ VarShape(var)
    BY DEF WriteIndirection, Mutating, GInv
  <1>3. PICK c : c = CheckedCursor(x)
    OBVIOUS
  <1>4. PICK vs : vs = IF Sharing = "free" THEN var ELSE UsedUp(y)
    OBVIOUS
  <1>5. PICK g, d, e, m, to, footer :
          g = c.h /\ d = c.dst /\ e = c.dst_end /\ m = PtrBytes /\ to = var[y].ptr /\ footer = var[y].endptr
    OBVIOUS
  <1>6. PICK k, ws : k = gib_indirection_barrier(g, d, e, to, footer) /\ ws = var'
    OBVIOUS
  <1>7. h' = k /\ Advance(x, vs, c, m, 0, b)
    BY <1>3, <1>4, <1>5, <1>6 DEF WriteIndirection
  <1>8. VarShape(vs) /\ \A z \in WritersIn(vs) : z \in WritersIn(var) /\ vs[z] = var[z]
    BY <1>2, <1>4, UsedUpWriters
  <1>9. m \in Nat /\ m # 0 /\ m + PtrBytes = 2 * PtrBytes /\ 2 * PtrBytes = 18
    BY <1>5 DEF PtrBytes
  <1>10. PICK con \in Con : TRUE
    BY ProgramAssumption
  <1>11. /\ Later(h, g, P) /\ PointersOK(g.mem, P)
         /\ g.fault = "none" => /\ d \in Nat /\ e \in Int
                                /\ d + 1 + ScalarBytes[con] + PtrBytes <= e
    BY <1>1, <1>2, <1>3, <1>5, CheckedLater
  <1>12. g.fault = "none" => d + m <= e
    BY <1>5, <1>10, <1>11, InfoTable DEF PtrBytes
  <1>13. g.fault = "none" /\ Wide => d + m + PtrBytes <= e
    <2>1. g.fault = "none" /\ Wide => d + 2 * PtrBytes <= e
      BY <1>2, <1>3, <1>5, CheckedFoot
    <2> QED
      BY <1>9, <1>11, <2>1 DEF PtrBytes
  <1>14. Low(g) /\ HeapOK(g, P) /\ g.rem_set = h.rem_set
    BY <1>2, <1>3, <1>5, <1>11, CheckedFoot DEF Footed, Later
  <1>15. /\ Footed(g, k) /\ ((g.fault = "none" => Beyond(g, d, m)) => FootKept(g, k))
         /\ k.fault = "none" => Beyond(k, d, PtrBytes)
    <2>1. d \in Int
      <3>1. h.brk \in Nat /\ var[x].wptr \in Nat
        <4>1. ProgramOK(var, P, h.brk) /\ h.brk \in Nat
          BY <1>1, <1>2, MutatorIs
        <4>2. WriterOK(var[x], h.brk)
          BY <1>2, <4>1 DEF ProgramOK, Writers, WritersIn
        <4> QED
          BY <4>1, <4>2 DEF WriterOK
      <3>2. d = var[x].wptr \/ d = h.brk
        BY <1>3, <1>5, GrowDst DEF CheckedCursor
      <3> QED
        BY <3>1, <3>2
    <2>2. /\ Footed(g, k)
          /\ (g.fault = "none" => Beyond(g, d, PtrBytes)) => FootKept(g, k)
          /\ k.fault = "none" => Beyond(k, d, PtrBytes)
      BY <1>6, <1>14, <2>1, FootBarrier
    <2> QED
      BY <1>5, <2>2
  <1>16. /\ Footed(h, k) /\ (Wide => FootKept(h, k))
         /\ k.fault = "none" /\ Wide => contains_addr(d) \/ EndOK(k, d + m, e)
    BY <1>2, <1>3, <1>5, <1>9, <1>11, <1>13, <1>15, WrittenFoot
  <1>17. g.fault = "none" => /\ contains_addr(d) => contains_addr(d + m)
                             /\ contains_addr(d) \/ Room(g, P, d, PtrBytes)
    BY <1>1, <1>2, <1>3, <1>5, <1>9, <1>12, CheckedClear DEF ClearFor
  <1>18. /\ x \in WritersIn(ws) => ws[x].wptr = d + m /\ ws[x].wend = e
         /\ \A z \in WritersIn(ws) \ {x} : z \in WritersIn(var) /\ ws[z] = var[z]
    <2>1. Moved(vs, ws, x, c.dst + m, c.dst_end)
      <3>1. PICK j \in Nat : j = 0
        OBVIOUS
      <3>2. Advance(x, vs, c, m, j, b)
        BY <1>7, <3>1
      <3> QED
        BY <1>2, <1>6, <1>8, <3>2, AdvanceIs
    <2> QED
      BY <1>5, <1>8, <2>1 DEF Moved
  <1>19. k.fault = "none" => g.fault = "none"
    BY <1>15 DEF Footed
  <1>20. ASSUME k.fault = "none", NEW q \in PlacesOf(k.rem_set)
         PROVE  q \in P \/ Clear(k, q, q)
    <2>1. \/ k.rem_set = g.rem_set
          \/ k.rem_set = g.rem_set \cup {[ptr |-> d + 1, endptr |-> e]}
      <3>1. g.fault = "none" => contains_addr(d) \/ Room(g, P, d, PtrBytes)
        BY <1>17
      <3>2. HeapOK(g, P) /\ PointersOK(g.mem, P)
            /\ (g.fault = "none" => contains_addr(d) \/ Room(g, P, d, PtrBytes))
        BY <1>11, <1>14, <3>1
      <3>3. /\ k.brk = g.brk /\ k.alloc = g.alloc
            /\ k.fault = "none" => g.fault = "none"
            /\ \/ k.rem_set = g.rem_set /\ HeapOK(k, P) /\ PointersOK(k.mem, P)
               \/ /\ k.rem_set = g.rem_set \cup {[ptr |-> d + 1, endptr |-> e]}
                  /\ ~contains_addr(d)
                  /\ HeapOK(k, P \cup {d}) /\ PointersOK(k.mem, P \cup {d})
        BY <1>6, <3>2, BarrierLater
      <3> QED
        BY <3>3
    <2>2. PICK f \in k.rem_set : q = f.ptr - 1
      BY DEF PlacesOf
    <2>3. f \in g.rem_set => q \in P
      BY <1>1, <1>14, <2>2 DEF PlacesOf
    <2>4. f = [ptr |-> d + 1, endptr |-> e] => q = d /\ d \in Int
      BY <1>11, <1>19, <1>20, <2>2
    <2>5. Low(k)
      BY <1>15 DEF Footed
    <2>6. d \in Int => Clear(k, d, d)
      BY <1>15, <1>20, <2>5, BeyondClear
    <2> QED
      BY <2>1, <2>3, <2>4, <2>6
  <1>21. ASSUME k.fault = "none", Wide, NEW z \in OldWritersIn(ws)
         PROVE  \/ z \in OldWritersIn(var) /\ ws[z] = var[z]
                \/ EndOK(k, ws[z].wptr, ws[z].wend)
    <2>1. CASE z = x
      BY <1>16, <1>17, <1>18, <1>19, <1>21, <2>1 DEF OldWritersIn
    <2>2. CASE z # x
      BY <1>18, <2>2 DEF OldWritersIn
    <2> QED
      BY <2>1, <2>2
  <1> QED
    BY <1>1, <1>2, <1>6, <1>7, <1>16, <1>20, <1>21, MutatorFoot

\* Nothing is written.
LEMMA ReaderFoot ==
    ASSUME GInv, FInv, Mutating, pc' = "mutator", UNCHANGED h, NEW ws, ws = var',
           \A y \in WritersIn(ws) : y \in WritersIn(var) /\ ws[y] = var[y]
    PROVE  FInv' /\ (Wide => FootKept(h, h'))
  <1>1. Footed(h, h) /\ FootKept(h, h)
    BY FootRefl DEF FInv
  <1>2. PICK P : P = PlacesOf(h.rem_set)
    OBVIOUS
  <1>3. \A y \in OldWritersIn(ws) : y \in OldWritersIn(var) /\ ws[y] = var[y]
    BY DEF OldWritersIn
  <1> QED
    BY <1>1, <1>2, <1>3, MutatorFoot

\* A part is read, by a new read cursor,
LEMMA ReadPartFoot ==
    ASSUME GInv, FInv, NEW x \in Var, NEW y \in Var, NEW i, ReadPart(x, y, i)
    PROVE  FInv' /\ (Wide => FootKept(h, h'))
  <1>1. Mutating /\ pc' = "mutator" /\ UNCHANGED h /\ VarShape(var)
    BY DEF ReadPart, Mutating, GInv
  <1>2. PICK vs, ws : vs = (IF Sharing = "linear" THEN UsedUp(x) ELSE var) /\ ws = var'
    OBVIOUS
  <1>3. VarShape(vs) /\ \A z \in WritersIn(vs) : z \in WritersIn(var) /\ vs[z] = var[z]
    BY <1>1, <1>2, UsedUpWriters
  <1>4. PICK a, e : ws = [vs EXCEPT ![y] = [Unused EXCEPT !.ptr = a, !.endptr = e]]
    BY <1>2 DEF ReadPart
  <1>5. ws[y] = [ptr |-> a, endptr |-> e, wptr |-> 0, wend |-> 0, todo |-> 0]
    BY <1>3, <1>4, ReadRecord DEF VarShape
  <1>6. \A z \in Var \ {y} : ws[z] = vs[z]
    BY <1>3, <1>4 DEF VarShape
  <1>7. \A z \in WritersIn(ws) : z \in WritersIn(var) /\ ws[z] = var[z]
    BY <1>3, <1>5, <1>6 DEF WritersIn
  <1> QED
    BY <1>1, <1>2, <1>7, ReaderFoot

\* or a cursor is dropped.
LEMMA DropFoot ==
    ASSUME GInv, FInv, NEW x \in Var, Drop(x)
    PROVE  FInv' /\ (Wide => FootKept(h, h'))
  <1>1. Mutating /\ pc' = "mutator" /\ UNCHANGED h /\ VarShape(var) /\ var' = UsedUp(x)
    BY DEF Drop, Mutating, GInv, UsedUp
  <1>2. PICK ws : ws = var'
    OBVIOUS
  <1>3. \A z \in WritersIn(ws) : z \in WritersIn(var) /\ ws[z] = var[z]
    BY <1>1, <1>2, UsedUpWriters
  <1> QED
    BY <1>1, <1>2, <1>3, ReaderFoot

\* A step of a collection, if the writers are clear of footers afterwards, and so is
\* what is remembered newly and where the copy goes on.
LEMMA StepFoot ==
    ASSUME GInv, FInv, h.fault = "none", NEW n, n = h', NEW ws, ws = var', NEW e2, e2 = ev',
           Footed(h, n), FootKept(h, n),
           NEW P, P = PlacesOf(Remembered), NEW Q, Q = PlacesOf(Remembered)',
           n.fault = "none" =>
             /\ \A q \in Q : q \in P \/ Clear(n, q, q)
             /\ Wide => \A y \in OldWritersIn(ws) :
                          \/ /\ y \in OldWritersIn(var)
                             /\ ws[y].wptr = var[y].wptr /\ ws[y].wend = var[y].wend
                          \/ EndOK(n, ws[y].wptr, ws[y].wend)
             /\ pc' = "evacuate_packed" => CopyEnds(n, e2)
    PROVE  FInv' /\ FootKept(h, h')
  <1>1. Low(n) /\ Low(h)
    BY DEF Footed, FInv
  <1>2. /\ ProgramOK(var, P, h.brk) /\ \A p \in P : p \in Nat /\ p + PtrBytes <= h.brk
        /\ PlacesClear(h, P) /\ (Wide => WritersEnd(h, var))
    BY DEF GInv, Good, HeapOK, MemOK, RememberedOK, FInv
  <1>3. ASSUME n.fault = "none"
        PROVE  PlacesClear(n, Q) /\ (Wide => WritersEnd(n, ws))
    <2>1. PlacesClear(n, Q)
      BY <1>1, <1>2, <1>3, PlacesStay
    <2>2. ASSUME Wide
          PROVE  WritersEnd(n, ws)
      BY <1>1, <1>2, <1>3, <2>2, WritersStay
    <2> QED
      BY <2>1, <2>2
  <1> QED
    BY <1>1, <1>3 DEF FInv

\* A step of evacuate_packed.
LEMMA EvacFoot ==
    ASSUME GInv, FInv, Collecting("evacuate_packed"), pc' = pc, NEW n, n = h', NEW ws, ws = var',
           NEW e2, e2 = ev', Footed(h, n), FootKept(h, n),
           n.fault = "none" =>
             /\ e2.queue = ev.queue /\ e2.root = ev.root
             /\ \A y \in OldWritersIn(ws) :
                  \/ /\ y \in OldWritersIn(var)
                     /\ ws[y].wptr = var[y].wptr /\ ws[y].wend = var[y].wend
                  \/ EndOK(n, ws[y].wptr, ws[y].wend)
             /\ CopyEnds(n, e2)
    PROVE  FInv' /\ FootKept(h, h')
  <1>1. h.fault = "none" /\ pc = "evacuate_packed" /\ pc' = "evacuate_packed"
    BY DEF Collecting
  <1>2. PICK P, Q : P = PlacesOf(Remembered) /\ Q = PlacesOf(Remembered)'
    OBVIOUS
  <1>3. ASSUME n.fault = "none"
        PROVE  \A q \in Q : q \in P
    <2>1. PendingRoots' = PendingRoots
      BY <1>1, <1>3 DEF PendingRoots
    <2> QED
      BY <1>1, <1>2, <2>1 DEF Remembered, PlacesOf
  <1> QED
    BY <1>1, <1>2, <1>3, StepFoot

\* A step of evacuate_packed that leaves the program's cursors.
LEMMA CopyFoot ==
    ASSUME GInv, FInv, Collecting("evacuate_packed"), pc' = pc, UNCHANGED var, NEW n, n = h',
           NEW e2, e2 = ev', Footed(h, n), FootKept(h, n),
           n.fault = "none" => e2.queue = ev.queue /\ e2.root = ev.root /\ CopyEnds(n, e2)
    PROVE  FInv' /\ FootKept(h, h')
  <1>1. PICK ws : ws = var' /\ ws = var
    OBVIOUS
  <1> QED
    BY <1>1, EvacFoot

\* What the copy may go back to, and where it is, stay clear of footers.
LEMMA RestStays ==
    ASSUME GInv, FInv, Collecting("evacuate_packed"), ev.worklist # <<>>,
           NEW n, Footed(h, n), FootKept(h, n), n.fault = "none"
    PROVE  /\ EndOK(n, ev.dst, ev.dst_end)
           /\ \A a \in Returns(Rest) : EndOK(n, a.dst, a.dst_end)
           /\ \A i \in 1 .. Len(Rest) + 1 :
                \A a \in Returns(SubSeq(Rest, i, Len(Rest))) : EndOK(n, a.dst, a.dst_end)
  <1>1. PICK P : P = PlacesOf(PendingRoots)
    OBVIOUS
  <1>2. EvacState(P) /\ Low(h) /\ CopyEnds(h, ev)
    BY <1>1, EvacIs DEF FInv, Collecting
  <1>3. PICK A, w, d, e : A = Actions(ev.orig_dst, h.brk) /\ w = ev.worklist
                          /\ d = ev.dst /\ e = ev.dst_end
    OBVIOUS
  <1>4. /\ Rest \in Seq(A) /\ d \in Nat /\ d + PtrBytes <= h.brk
    BY <1>2, <1>3, WorklistIs DEF PlaceOK
  <1>5. w \in Seq(A) /\ w # <<>> /\ Rest = Tail(w)
    BY <1>2, <1>3 DEF EvacState, RootOK, Rest
  <1>6. /\ Returns(Rest) \subseteq Returns(w)
        /\ \A i \in 1 .. Len(Rest) + 1 : Returns(SubSeq(Rest, i, Len(Rest))) \subseteq Returns(Rest)
    BY <1>4, <1>5, ReturnsOf
  <1>7. /\ EndOK(h, d, e)
        /\ \A a \in Returns(w) : EndOK(h, a.dst, a.dst_end)
    BY <1>2, <1>3 DEF CopyEnds
  <1>8. EndOK(n, d, e)
    BY <1>2, <1>4, <1>7, EndLater
  <1>9. \A a \in Returns(w) : EndOK(n, a.dst, a.dst_end)
    BY <1>2, <1>3, <1>5, <1>7, ReturnsStay
  <1> QED
    BY <1>3, <1>6, <1>8, <1>9

\* EvacAction::RestoreSrc
LEMMA RestoreSourceFoot ==
    ASSUME GInv, FInv, RestoreSource
    PROVE  FInv' /\ FootKept(h, h')
  <1>1. Collecting("evacuate_packed") /\ ev.worklist # <<>> /\ UNCHANGED <<h, var>> /\ pc' = pc
    BY DEF RestoreSource, Acting
  <1>2. PICK P : P = PlacesOf(PendingRoots)
    OBVIOUS
  <1>3. RootShape(ev)
    BY <1>1, <1>2, EvacIs DEF EvacState
  <1>4. PICK e, e2, w, to : e = ev /\ e2 = ev' /\ w = Rest /\ to = Head(ev.worklist).src
    OBVIOUS
  <1>5. /\ e2.worklist = w /\ e2.queue = e.queue /\ e2.root = e.root
        /\ e2.dst = e.dst /\ e2.dst_end = e.dst_end
    <2>1. CASE to = e.inlining_underway_upto
      <3>1. e2 = [e EXCEPT !.src = to, !.worklist = w, !.inlining_underway = FALSE, !.burn = TRUE]
        BY <1>4, <2>1 DEF RestoreSource
      <3> QED
        BY <1>3, <1>4, <3>1 DEF RootShape
    <2>2. CASE to # e.inlining_underway_upto
      <3>1. e2 = [e EXCEPT !.src = to, !.worklist = w]
        BY <1>4, <2>2 DEF RestoreSource
      <3> QED
        BY <1>3, <1>4, <3>1 DEF RootShape
    <2> QED
      BY <2>1, <2>2
  <1>6. PICK n : n = h /\ n = h'
    BY <1>1
  <1>7. Footed(h, n) /\ FootKept(h, n)
    BY <1>6, FootRefl DEF FInv
  <1>8. n.fault = "none" => CopyEnds(n, e2)
    BY <1>1, <1>4, <1>5, <1>7, RestStays DEF CopyEnds
  <1> QED
    BY <1>1, <1>4, <1>5, <1>6, <1>7, <1>8, CopyFoot

\* EvacAction::SkipoverEnvWrite
LEMMA WriteSkipoverFoot ==
    ASSUME GInv, FInv, WriteSkipover
    PROVE  FInv' /\ FootKept(h, h')
  <1>1. Collecting("evacuate_packed") /\ ev.worklist # <<>> /\ UNCHANGED <<h, var>> /\ pc' = pc
    BY DEF WriteSkipover, Acting
  <1>2. PICK P : P = PlacesOf(PendingRoots)
    OBVIOUS
  <1>3. RootShape(ev)
    BY <1>1, <1>2, EvacIs DEF EvacState
  <1>4. PICK e, e2, w, so : /\ e = ev /\ e2 = ev' /\ w = Rest
                            /\ so = Extend(ev.so_env, Head(ev.worklist).at, ev.src)
    OBVIOUS
  <1>5. /\ e2.worklist = w /\ e2.queue = e.queue /\ e2.root = e.root
        /\ e2.dst = e.dst /\ e2.dst_end = e.dst_end
    <2>1. e2 = [e EXCEPT !.so_env = so, !.worklist = w]
      BY <1>4 DEF WriteSkipover
    <2> QED
      BY <1>3, <1>4, <2>1 DEF RootShape
  <1>6. PICK n : n = h /\ n = h'
    BY <1>1
  <1>7. Footed(h, n) /\ FootKept(h, n)
    BY <1>6, FootRefl DEF FInv
  <1>8. n.fault = "none" => CopyEnds(n, e2)
    BY <1>1, <1>4, <1>5, <1>7, RestStays DEF CopyEnds
  <1> QED
    BY <1>1, <1>4, <1>5, <1>6, <1>7, <1>8, CopyFoot

\* Burning the source goes over no footer.
LEMMA BurnedFoot ==
    ASSUME GInv, FInv, Collecting("evacuate_packed"), ev.worklist # <<>>,
           Tag(h.mem, ev.src) # "garbage", NEW g, g = BurnedAtSrc
    PROVE  Footed(h, g) /\ FootKept(h, g) /\ g.brk = h.brk /\ g.fault = "none"
  <1>1. PICK P : P = PlacesOf(PendingRoots)
    OBVIOUS
  <1>2. EvacState(P) /\ Low(h)
    BY <1>1, EvacIs DEF FInv
  <1>3. PICK a, d, e : a = ev.src /\ d = ev.dst /\ e = ev.dst_end
    OBVIOUS
  <1>4. a \in Int /\ heap_start <= a
    BY <1>2, <1>3, SrcIs
  <1>5. ev.burn /\ h.fault = "none"
    BY <1>2, WorklistIs DEF EvacState
  <1>6. PICK offset : offset = e - d
    OBVIOUS
  <1>7. g = Store(h, a, PtrCell("COPIED_TO", d, offset))
    BY <1>3, <1>5, <1>6 DEF BurnedAtSrc, ForwardAt
  <1> QED
    BY <1>2, <1>4, <1>5, <1>7, FootForward

\* A pointer is copied over no footer, and the metadata told of it.
LEMMA PointerFoot ==
    ASSUME NEW g, Low(g), NEW d, NEW e,
           g.fault = "none" => EndOK(g, d, e) /\ d \in Nat /\ d + PtrBytes <= g.brk /\ d <= e,
           NEW c, c = check_bounds(g, 32, d, e),
           NEW cell, cell.tag # "footer", SizeOf(cell) = PtrBytes,
           NEW k, k = Store(c.h, c.dst, cell), NEW from, NEW to,
           NEW n, n = add_old_to_old_indirection(k, from, to)
    PROVE  /\ Footed(g, n) /\ FootKept(g, n)
           /\ n.fault = "none" => /\ EndOK(n, c.dst + PtrBytes, c.dst_end)
                                  /\ Clear(n, c.dst + PtrBytes, e)
                                  /\ c.dst \in Nat /\ c.dst_end \in Nat
                                  /\ c.dst + PtrBytes <= c.dst_end
                                  /\ c.dst + PtrBytes + PtrBytes <= n.brk
  <1>1. PICK m : m = 32
    OBVIOUS
  <1>2. Space(m) /\ SizeOf(cell) + PtrBytes <= m /\ c = check_bounds(g, m, d, e)
    BY <1>1 DEF Space, PtrBytes
  <1>3. /\ Footed(g, k) /\ FootKept(g, k)
        /\ k.fault = "none" => /\ EndOK(k, c.dst + SizeOf(cell), c.dst_end)
                               /\ Clear(k, c.dst + SizeOf(cell), e)
                               /\ c.dst \in Nat /\ c.dst_end \in Nat
                               /\ c.dst + SizeOf(cell) <= c.dst_end
                               /\ c.dst + SizeOf(cell) + PtrBytes <= k.brk
    BY <1>2, FootCopy
  <1>4. Low(k)
    BY <1>3 DEF Footed
  <1>5. SameMemory(k, n)
    BY <1>4, MetadataSame DEF Low
  <1>6. Footed(k, n) /\ FootKept(k, n) /\ FootersOf(n) = FootersOf(k)
    BY <1>4, <1>5, FootSame, AddLinks DEF Low
  <1>7. Footed(g, n) /\ FootKept(g, n)
    BY <1>3, <1>6, FootTrans
  <1>8. ASSUME n.fault = "none"
        PROVE  k.fault = "none" /\ n.mem = k.mem /\ n.brk = k.brk
    BY <1>5, <1>8 DEF SameMemory
  <1> QED
    BY <1>3, <1>6, <1>7, <1>8 DEF EndOK, Clear, IsFooter, Tag

\* Where the copy goes on there is an end, and room for a pointer.
LEMMA CursorReady ==
    ASSUME GInv, FInv, Collecting("evacuate_packed"), ev.worklist # <<>>,
           NEW g, Footed(h, g), FootKept(h, g), NEW d, NEW e, d = ev.dst, e = ev.dst_end
    PROVE  g.fault = "none" => EndOK(g, d, e) /\ d \in Nat /\ d + PtrBytes <= g.brk /\ d <= e
  <1> SUFFICES ASSUME g.fault = "none"
               PROVE  EndOK(g, d, e) /\ d \in Nat /\ d + PtrBytes <= g.brk /\ d <= e
    OBVIOUS
  <1>1. PICK P : P = PlacesOf(PendingRoots)
    OBVIOUS
  <1>2. EvacState(P)
    BY <1>1, EvacIs
  <1>3. d \in Nat /\ d + PtrBytes <= h.brk /\ h.brk \in Nat /\ d <= e
    BY <1>2, WorklistIs DEF PlaceOK, EvacState
  <1>4. h.brk <= g.brk /\ g.brk \in Nat
    BY DEF Footed, Low, FootersOK, BrkOK
  <1>5. d + PtrBytes <= g.brk
    BY <1>3, <1>4 DEF PtrBytes
  <1> QED
    BY <1>3, <1>5, RestStays

\* INDIRECTION_TAG into the nursery
LEMMA InlineIndirectionFoot ==
    ASSUME GInv, FInv, InlineIndirection
    PROVE  FInv' /\ FootKept(h, h')
  <1>1. PICK P : P = PlacesOf(PendingRoots)
    OBVIOUS
  <1>2. /\ Collecting("evacuate_packed") /\ ev.worklist # <<>> /\ Tag(h.mem, ev.src) = "INDIRECTION"
        /\ UNCHANGED var /\ pc' = pc
    BY DEF InlineIndirection, AtTag, Acting
  <1>3. EvacState(P) /\ RootShape(ev)
    BY <1>1, <1>2, EvacIs DEF EvacState
  <1>4. PICK pointee, footer, after, g :
            /\ pointee = h.mem[ev.src].to /\ footer = pointee + h.mem[ev.src].offset
            /\ after = ev.src + PtrBytes /\ g = BurnedAtSrc
    OBVIOUS
  <1>5. Footed(h, g) /\ FootKept(h, g) /\ g.fault = "none"
    BY <1>2, <1>4, BurnedFoot
  <1>6. PICK e, e2 : e = ev /\ e2 = ev'
    OBVIOUS
  <1>7. PICK head : head = <<ProcessTy>> \o
                           (IF ev.burn /\ (ev.root.prov = "RemSet" \/ ~is_loc0(g, pointee, footer))
                            THEN <<SkipoverEnvWrite(pointee)>> ELSE <<>>)
    OBVIOUS
  <1>8. PICK back, fw, up, w :
            /\ back = RestoreSrc(after, ev.dst, ev.dst_end)
            /\ fw = (e.forwarded \/ e.burn)
            /\ up = (IF e.inlining_underway THEN e.inlining_underway_upto ELSE after)
            /\ w = head \o <<back>> \o Rest
    OBVIOUS
  <1>9. /\ e2.worklist = w /\ e2.queue = e.queue /\ e2.root = e.root
        /\ e2.dst = e.dst /\ e2.dst_end = e.dst_end
    <2>1. e2 = [e EXCEPT !.forwarded = fw, !.worklist = w, !.inlining_underway = TRUE,
                         !.inlining_underway_upto = up, !.src = pointee]
      BY <1>4, <1>6, <1>7, <1>8 DEF InlineIndirection, Return
    <2> QED
      BY <1>3, <1>6, <2>1 DEF RootShape
  <1>10. PICK S : S = {ProcessTy, SkipoverEnvWrite(pointee), back} \cup Actions(ev.orig_dst, h.brk)
    OBVIOUS
  <1>11. Rest \in Seq(S)
    <2>1. PICK A : A = Actions(ev.orig_dst, h.brk)
      OBVIOUS
    <2>2. Rest \in Seq(A) /\ A \subseteq S
      BY <1>2, <1>3, <1>10, <2>1, WorklistIs
    <2> QED
      BY <2>2, SeqMonotonic
  <1>12. head \in Seq(S) /\ Returns(head) = {}
    <2>1. PICK skip \in S : skip = SkipoverEnvWrite(pointee)
      BY <1>10
    <2>2. ProcessTy \in S /\ ProcessTy.act # "RestoreSrc" /\ skip.act # "RestoreSrc"
      BY <1>10, <2>1 DEF ProcessTy, SkipoverEnvWrite
    <2>3. PICK p \in S : p = ProcessTy
      BY <2>2
    <2>4. PICK sk : sk = (IF ev.burn /\ (ev.root.prov = "RemSet" \/ ~is_loc0(g, pointee, footer))
                          THEN <<SkipoverEnvWrite(pointee)>> ELSE <<>>)
      OBVIOUS
    <2>5. sk = <<skip>> \/ sk = <<>>
      BY <2>1, <2>4
    <2>6. sk \in Seq(S) /\ Returns(sk) = {}
      <3>1. CASE sk = <<skip>>
        BY <2>2, <3>1 DEF Returns
      <3>2. CASE sk = <<>>
        BY <3>2 DEF Returns
      <3> QED
        BY <2>5, <3>1, <3>2
    <2>7. PICK l : l = <<p>>
      OBVIOUS
    <2>8. l \in Seq(S) /\ Returns(l) = {}
      BY <2>2, <2>3, <2>7 DEF Returns
    <2>9. head = l \o sk
      BY <1>7, <2>3, <2>4, <2>7
    <2> QED
      BY <2>6, <2>8, <2>9, ReturnsOf, ConcatProperties
  <1>13. Returns(w) \subseteq {back} \cup Returns(Rest)
    <2>1. PICK l : l = <<back>>
      OBVIOUS
    <2>2. l \in Seq(S) /\ Returns(l) \subseteq {back}
      <3>1. back \in S
        BY <1>10
      <3> QED
        BY <2>1, <3>1 DEF Returns
    <2>3. PICK v : v = head \o l
      OBVIOUS
    <2>4. v \in Seq(S)
      BY <1>12, <2>2, <2>3, ConcatProperties
    <2>5. Returns(v) \subseteq Returns(head) \cup Returns(l)
      BY <1>12, <2>2, <2>3, ReturnsOf
    <2>6. Returns(v \o Rest) \subseteq Returns(v) \cup Returns(Rest)
      BY <1>11, <2>4, ReturnsOf
    <2>7. w = v \o Rest
      BY <1>8, <2>1, <2>3
    <2> QED
      BY <1>12, <2>2, <2>5, <2>6, <2>7
  <1>14. CopyEnds(g, e2)
    <2>1. /\ EndOK(g, ev.dst, ev.dst_end)
          /\ \A a \in Returns(Rest) : EndOK(g, a.dst, a.dst_end)
      BY <1>2, <1>5, RestStays
    <2>2. back.dst = ev.dst /\ back.dst_end = ev.dst_end
      BY <1>8 DEF RestoreSrc
    <2>3. \A a \in Returns(w) : EndOK(g, a.dst, a.dst_end)
      BY <1>13, <2>1, <2>2
    <2> QED
      BY <1>6, <1>9, <2>1, <2>3 DEF CopyEnds
  <1>15. h' = g
    BY <1>4 DEF InlineIndirection
  <1> QED
    BY <1>2, <1>5, <1>6, <1>9, <1>14, <1>15, CopyFoot

\* INDIRECTION_TAG into the old generation
LEMMA KeepIndirectionFoot ==
    ASSUME GInv, FInv, KeepIndirection
    PROVE  FInv' /\ FootKept(h, h')
  <1>1. PICK P : P = PlacesOf(PendingRoots)
    OBVIOUS
  <1>2. /\ Collecting("evacuate_packed") /\ ev.worklist # <<>> /\ Tag(h.mem, ev.src) = "INDIRECTION"
        /\ UNCHANGED var /\ pc' = pc
    BY DEF KeepIndirection, AtTag, Acting
  <1>3. EvacState(P) /\ RootShape(ev)
    BY <1>1, <1>2, EvacIs DEF EvacState
  <1>4. PICK cell, footer, after, g :
            /\ cell = h.mem[ev.src] /\ footer = cell.to + cell.offset
            /\ after = ev.src + PtrBytes /\ g = BurnedAtSrc
    OBVIOUS
  <1>5. Footed(h, g) /\ FootKept(h, g) /\ Low(g) /\ Low(h)
    BY <1>2, <1>4, BurnedFoot DEF Footed, FInv
  <1>6. cell.tag = "INDIRECTION" /\ SizeOf(cell) = PtrBytes
    BY <1>2, <1>3, <1>4, SrcIs, SizeOfCell DEF Pointers
  <1>7. PICK d, e : d = ev.dst /\ e = ev.dst_end
    OBVIOUS
  <1>8. PICK c : c = check_bounds(g, 32, d, e)
    OBVIOUS
  <1>9. PICK k : k = Store(c.h, c.dst, cell)
    OBVIOUS
  <1>10. PICK from : from = c.dst_end
    OBVIOUS
  <1>11. PICK n : n = add_old_to_old_indirection(k, from, footer)
    OBVIOUS
  <1>12. h' = n
    BY <1>4, <1>7, <1>8, <1>9, <1>10, <1>11 DEF KeepIndirection
  <1>13. g.fault = "none" => EndOK(g, d, e) /\ d \in Nat /\ d + PtrBytes <= g.brk /\ d <= e
    BY <1>2, <1>5, <1>7, CursorReady
  <1>14. /\ Footed(g, n) /\ FootKept(g, n)
         /\ n.fault = "none" => EndOK(n, c.dst + PtrBytes, c.dst_end)
    BY <1>5, <1>6, <1>8, <1>9, <1>11, <1>13, PointerFoot
  <1>15. Footed(h, n) /\ FootKept(h, n)
    BY <1>5, <1>14, FootTrans
  <1>16. PICK e1, e2, w, so :
            /\ e1 = ev /\ e2 = ev' /\ w = Rest
            /\ so = (IF ev.burn /\ (ev.root.prov = "RemSet" \/ ~is_loc0(n, cell.to, footer))
                     THEN Extend(ev.so_env, ev.src, after) ELSE ev.so_env)
    OBVIOUS
  <1>17. /\ e2.worklist = w /\ e2.queue = e1.queue /\ e2.root = e1.root
         /\ e2.dst = c.dst + PtrBytes /\ e2.dst_end = c.dst_end
    <2>1. PICK fw, x : fw = (e1.forwarded \/ e1.burn) /\ x = c.dst + PtrBytes
      OBVIOUS
    <2>2. e2 = [e1 EXCEPT !.forwarded = fw, !.so_env = so, !.src = after, !.dst = x,
                          !.dst_end = from, !.worklist = w]
      BY <1>4, <1>7, <1>8, <1>9, <1>10, <1>11, <1>16, <2>1 DEF KeepIndirection
    <2> QED
      BY <1>3, <1>10, <1>16, <2>1, <2>2 DEF RootShape
  <1>18. n.fault = "none" => CopyEnds(n, e2)
    BY <1>2, <1>14, <1>15, <1>16, <1>17, RestStays DEF CopyEnds
  <1> QED
    BY <1>2, <1>12, <1>15, <1>16, <1>17, <1>18, CopyFoot

\* COPIED_TAG and COPIED_TO_TAG
LEMMA PointToCopyFoot ==
    ASSUME GInv, FInv, PointToCopy
    PROVE  FInv' /\ FootKept(h, h')
  <1>1. PICK P : P = PlacesOf(PendingRoots)
    OBVIOUS
  <1>2. /\ Collecting("evacuate_packed") /\ ev.worklist # <<>>
        /\ UNCHANGED var /\ pc' = pc
    BY DEF PointToCopy, AtTag, Acting
  <1>3. EvacState(P) /\ RootShape(ev) /\ Low(h) /\ Footed(h, h) /\ FootKept(h, h)
    BY <1>1, <1>2, EvacIs, FootRefl DEF EvacState, FInv
  <1>4. PICK fwd : fwd = find_forwarding_pointer(ev.src)
    OBVIOUS
  <1>5. PICK to, offset, footer : to = fwd.to /\ offset = fwd.footer - fwd.to /\ footer = fwd.footer
    OBVIOUS
  <1>6. PICK d, e : d = ev.dst /\ e = ev.dst_end
    OBVIOUS
  <1>7. PICK c : c = check_bounds(h, 32, d, e)
    OBVIOUS
  <1>8. PICK cell : cell = PtrCell("INDIRECTION", to, offset)
    OBVIOUS
  <1>9. PICK k : k = Store(c.h, c.dst, cell)
    OBVIOUS
  <1>10. PICK from : from = c.dst_end
    OBVIOUS
  <1>11. PICK n : n = add_old_to_old_indirection(k, from, footer)
    OBVIOUS
  <1>12. cell.tag = "INDIRECTION" /\ SizeOf(cell) = PtrBytes
    BY <1>8, PtrShape
  <1>13. h.fault = "none" => EndOK(h, d, e) /\ d \in Nat /\ d + PtrBytes <= h.brk /\ d <= e
    BY <1>2, <1>3, <1>6, CursorReady
  <1>14. /\ Footed(h, n) /\ FootKept(h, n)
         /\ n.fault = "none" => EndOK(n, c.dst + PtrBytes, c.dst_end)
    BY <1>3, <1>7, <1>9, <1>11, <1>12, <1>13, PointerFoot
  <1>15. PICK K, s : K = DOMAIN ev.so_env /\ s = ev.src
    OBVIOUS
  <1>16. PICK a : a = (IF s \in K THEN ev.so_env[s] ELSE 0)
    OBVIOUS
  <1>17. PICK e1, e2, w : e1 = ev /\ e2 = ev' /\ w = Rest
    OBVIOUS
  <1>18. PICK hp : hp = h'
    OBVIOUS
  <1>19. hp = (IF fwd.fault # "none" THEN Fail(h, fwd.fault)
               ELSE IF w # <<>> /\ s \notin K THEN Fail(n, "panic: not in so_env")
               ELSE n)
    BY <1>4, <1>5, <1>6, <1>7, <1>8, <1>9, <1>10, <1>11, <1>15, <1>17, <1>18 DEF PointToCopy
  <1>20. Footed(h, hp) /\ FootKept(h, hp) /\ (hp.fault = "none" => hp = n)
    <2>1. CASE fwd.fault # "none"
      <3>1. PICK what : what = fwd.fault
        OBVIOUS
      <3>2. hp = Fail(h, what)
        BY <1>19, <2>1, <3>1
      <3>3. SameMemory(h, hp) /\ hp.fault # "none"
        BY <1>3, <2>1, <3>1, <3>2, FailSame DEF Low
      <3> QED
        BY <1>3, <3>3, FootFail
    <2>2. CASE fwd.fault = "none" /\ w # <<>> /\ s \notin K
      <3>1. hp = Fail(n, "panic: not in so_env") /\ Low(n)
        BY <1>14, <1>19, <2>2 DEF Footed
      <3>2. SameMemory(n, hp) /\ hp.fault # "none"
        BY <3>1, FailSame DEF Low
      <3>3. Footed(n, hp) /\ FootKept(n, hp)
        BY <3>1, <3>2, FootFail
      <3> QED
        BY <1>3, <1>14, <3>2, <3>3, FootTrans
    <2>3. CASE fwd.fault = "none" /\ ~(w # <<>> /\ s \notin K)
      BY <1>14, <1>19, <2>3
    <2> QED
      BY <2>1, <2>2, <2>3
  <1>21. /\ e2.worklist = w /\ e2.queue = e1.queue /\ e2.root = e1.root
         /\ e2.dst = c.dst + PtrBytes /\ e2.dst_end = c.dst_end
    <2>1. PICK x : x = c.dst + PtrBytes
      OBVIOUS
    <2>2. e2 = [e1 EXCEPT !.forwarded = TRUE, !.worklist = w, !.src = a, !.dst = x,
                          !.dst_end = from]
      BY <1>6, <1>7, <1>10, <1>15, <1>16, <1>17, <2>1 DEF PointToCopy
    <2> QED
      BY <1>3, <1>10, <1>17, <2>1, <2>2 DEF RootShape
  <1>22. ASSUME hp.fault = "none"
         PROVE  CopyEnds(hp, e2)
    <2>1. \A b \in Returns(w) : EndOK(hp, b.dst, b.dst_end)
      BY <1>2, <1>17, <1>20, <1>22, RestStays
    <2>2. EndOK(hp, c.dst + PtrBytes, c.dst_end)
      BY <1>14, <1>20, <1>22
    <2> QED
      BY <1>21, <2>1, <2>2 DEF CopyEnds
  <1> QED
    BY <1>2, <1>17, <1>18, <1>20, <1>21, <1>22, CopyFoot

\* The state s of the loop of evacuate_packed_simpl, where it began with heap g: it
\* has gone over no footer, and goes on where there is an end and room for a pointer.
SimplClear(s, g) ==
    /\ s = [h |-> s.h, src |-> s.src, dst |-> s.dst, dst_end |-> s.dst_end, k |-> s.k]
    /\ Footed(g, s.h) /\ FootKept(g, s.h)
    /\ s.h.fault = "none" /\ s.k # 0 =>
         /\ EndOK(s.h, s.dst, s.dst_end) /\ s.dst \in Nat /\ s.dst + PtrBytes <= s.h.brk
         /\ s.dst <= s.dst_end

\* One iteration of it keeps that.
LEMMA SimplStays ==
    ASSUME NEW g, Low(g), NEW s, SimplClear(s, g), NEW src_end
    PROVE  SimplClear(SimplStep(s, src_end), g)
  <1>1. PICK n : n = SimplStep(s, src_end)
    OBVIOUS
  <1>2. PICK hp, tag, cell : hp = s.h /\ tag = Tag(s.h.mem, s.src) /\ cell = s.h.mem[s.src]
    OBVIOUS
  <1>3. Footed(g, hp) /\ FootKept(g, hp) /\ Low(hp)
    BY <1>2 DEF SimplClear, Footed
  <1>4. CASE s.k = 0 \/ s.h.fault # "none"
    <2>1. n = s
      BY <1>1, <1>4 DEF SimplStep
    <2> QED
      BY <1>1, <2>1
  <1>5. CASE s.k # 0 /\ hp.fault = "none"
    <2>1. PICK d, e : d = s.dst /\ e = s.dst_end
      OBVIOUS
    <2>2. EndOK(hp, d, e) /\ d \in Nat /\ d + PtrBytes <= hp.brk /\ d <= e
      BY <1>2, <1>5, <2>1 DEF SimplClear
    <2>3. n = CASE tag = "REDIRECTION" -> [s EXCEPT !.h = Store(hp, s.dst, cell), !.k = 0]
                [] tag = "INDIRECTION" ->
                     LET c == check_bounds(hp, 32, s.dst, s.dst_end)
                         footer == cell.to + cell.offset
                         h1 == add_old_to_old_indirection(Store(c.h, c.dst, cell), s.dst_end, footer)
                     IN [h |-> remove_old_to_old_indirection(h1, src_end, footer),
                         src |-> s.src + PtrBytes, dst |-> c.dst + PtrBytes,
                         dst_end |-> c.dst_end, k |-> s.k]
                [] tag \in Con ->
                     LET c == check_bounds(hp, 32 + ScalarBytes[tag], s.dst, s.dst_end)
                     IN [h |-> Store(c.h, c.dst, cell),
                         src |-> s.src + SizeOf(cell), dst |-> c.dst + SizeOf(cell),
                         dst_end |-> c.dst_end, k |-> s.k - 1 + Fields[tag]]
                [] OTHER -> [s EXCEPT !.h = Fail(hp, "panic: unexpected tag in simpl"), !.k = 0]
      BY <1>1, <1>2, <1>5, Zenon DEF SimplStep
    <2>4. tag # "garbage" => cell.tag = tag
      BY <1>2 DEF Tag
    <2>5. /\ "garbage" \notin Con /\ "REDIRECTION" \notin Con /\ "INDIRECTION" \notin Con
          /\ "footer" \notin Con
      BY TagsApart
    <2>6. CASE tag = "REDIRECTION"
      <3>1. PICK k : k = Store(hp, d, cell)
        OBVIOUS
      <3>2. n = [s EXCEPT !.h = k, !.k = 0]
        BY <2>1, <2>3, <2>5, <2>6, <3>1
      <3>3. n = [h |-> k, src |-> s.src, dst |-> s.dst, dst_end |-> s.dst_end, k |-> 0]
        BY <3>2 DEF SimplClear
      <3>4. cell.tag = "REDIRECTION" /\ SizeOf(cell) = PtrBytes /\ PtrBytes \in Nat
        BY <2>4, <2>6, SizeOfCell DEF Pointers, PtrBytes
      <3>5. Beyond(hp, d, SizeOf(cell))
        <4>1. e \in Int
          BY <1>3, <1>5, <2>2 DEF EndOK, IsFooter, Tag, FootersOf, Low, FootersOK
        <4> QED
          BY <1>3, <1>5, <2>2, <3>4, <4>1, ClearBeyond DEF EndOK
      <3>6. Footed(hp, k) /\ FootKept(hp, k)
        BY <1>3, <2>2, <3>1, <3>4, <3>5, FootStore
      <3>7. Footed(g, k) /\ FootKept(g, k)
        BY <1>3, <3>6, FootTrans
      <3> QED
        BY <1>1, <3>3, <3>7 DEF SimplClear
    <2>7. CASE tag = "INDIRECTION"
      <3>1. PICK c : c = check_bounds(hp, 32, d, e)
        OBVIOUS
      <3>2. PICK k : k = Store(c.h, c.dst, cell)
        OBVIOUS
      <3>3. PICK footer : footer = cell.to + cell.offset
        OBVIOUS
      <3>4. PICK k1 : k1 = add_old_to_old_indirection(k, e, footer)
        OBVIOUS
      <3>5. PICK k2 : k2 = remove_old_to_old_indirection(k1, src_end, footer)
        OBVIOUS
      <3>6. n = [h |-> k2, src |-> s.src + PtrBytes, dst |-> c.dst + PtrBytes,
                 dst_end |-> c.dst_end, k |-> s.k]
        BY <2>1, <2>3, <2>5, <2>7, <3>1, <3>2, <3>3, <3>4, <3>5
      <3>7. cell.tag = "INDIRECTION" /\ SizeOf(cell) = PtrBytes
        BY <2>4, <2>7, SizeOfCell DEF Pointers
      <3>8. /\ Footed(hp, k1) /\ FootKept(hp, k1)
            /\ k1.fault = "none" => /\ EndOK(k1, c.dst + PtrBytes, c.dst_end)
                                    /\ c.dst \in Nat /\ c.dst + PtrBytes + PtrBytes <= k1.brk
                                    /\ c.dst + PtrBytes <= c.dst_end
        BY <1>3, <2>2, <3>1, <3>2, <3>4, <3>7, PointerFoot
      <3>9. Low(k1)
        BY <3>8 DEF Footed
      <3>10. SameMemory(k1, k2)
        BY <3>5, <3>9, MetadataSame DEF Low
      <3>11. Footed(k1, k2) /\ FootKept(k1, k2) /\ FootersOf(k2) = FootersOf(k1)
        BY <3>5, <3>9, <3>10, FootSame, RemoveLinks DEF Low
      <3>12. Footed(g, k1) /\ FootKept(g, k1)
        BY <1>3, <3>8, FootTrans
      <3>13. Footed(g, k2) /\ FootKept(g, k2)
        BY <3>11, <3>12, FootTrans
      <3>14. ASSUME k2.fault = "none"
             PROVE  /\ EndOK(k2, c.dst + PtrBytes, c.dst_end)
                    /\ c.dst + PtrBytes \in Nat /\ c.dst + PtrBytes + PtrBytes <= k2.brk
                    /\ c.dst + PtrBytes <= c.dst_end
        <4>1. k1.fault = "none" /\ k2.mem = k1.mem /\ k2.brk = k1.brk
          BY <3>10, <3>14 DEF SameMemory
        <4>2. EndOK(k2, c.dst + PtrBytes, c.dst_end)
          BY <3>8, <3>11, <4>1 DEF EndOK, Clear, IsFooter, Tag
        <4>3. c.dst + PtrBytes \in Nat
          BY <3>8, <4>1 DEF PtrBytes
        <4> QED
          BY <3>8, <4>1, <4>2, <4>3
      <3> QED
        BY <1>1, <3>6, <3>13, <3>14 DEF SimplClear
    <2>8. CASE tag \in Con
      <3>1. PICK m : m = 32 + ScalarBytes[tag]
        OBVIOUS
      <3>2. PICK c : c = check_bounds(hp, m, d, e)
        OBVIOUS
      <3>3. PICK k : k = Store(c.h, c.dst, cell)
        OBVIOUS
      <3>4. PICK left : left = s.k - 1 + Fields[tag]
        OBVIOUS
      <3>5. n = [h |-> k, src |-> s.src + SizeOf(cell), dst |-> c.dst + SizeOf(cell),
                 dst_end |-> c.dst_end, k |-> left]
        BY <2>1, <2>3, <2>5, <2>8, <3>1, <3>2, <3>3, <3>4
      <3>6. cell.tag = tag /\ cell.tag # "footer"
        BY <2>4, <2>5, <2>8
      <3>7. SizeOf(cell) = 1 + ScalarBytes[tag] /\ ScalarBytes[tag] \in Nat
        BY <2>8, <3>6, SizeOfCell, InfoTable
      <3>8. Space(m) /\ SizeOf(cell) + PtrBytes <= m
        BY <2>8, <3>1, <3>7 DEF Space, PtrBytes
      <3>9. /\ Footed(hp, k) /\ FootKept(hp, k)
            /\ k.fault = "none" => /\ EndOK(k, c.dst + SizeOf(cell), c.dst_end)
                                   /\ c.dst \in Nat /\ c.dst + SizeOf(cell) + PtrBytes <= k.brk
                                   /\ c.dst + SizeOf(cell) <= c.dst_end
        BY <1>3, <2>2, <3>2, <3>3, <3>6, <3>8, FootCopy
      <3>10. Footed(g, k) /\ FootKept(g, k)
        BY <1>3, <3>9, FootTrans
      <3>11. k.fault = "none" => c.dst + SizeOf(cell) \in Nat
        BY <3>7, <3>9
      <3> QED
        BY <1>1, <3>5, <3>9, <3>10, <3>11 DEF SimplClear
    <2>9. CASE tag # "REDIRECTION" /\ tag # "INDIRECTION" /\ tag \notin Con
      <3>1. PICK k : k = Fail(hp, "panic: unexpected tag in simpl")
        OBVIOUS
      <3>2. n = [s EXCEPT !.h = k, !.k = 0]
        BY <2>3, <2>9, <3>1
      <3>3. n = [h |-> k, src |-> s.src, dst |-> s.dst, dst_end |-> s.dst_end, k |-> 0]
        BY <3>2 DEF SimplClear
      <3>4. SameMemory(hp, k) /\ k.fault # "none"
        BY <1>3, <3>1, FailSame DEF Low
      <3>5. Footed(hp, k) /\ FootKept(hp, k)
        BY <1>3, <3>4, FootFail
      <3>6. Footed(g, k) /\ FootKept(g, k)
        BY <1>3, <3>5, FootTrans
      <3> QED
        BY <1>1, <3>3, <3>6 DEF SimplClear
    <2> QED
      BY <2>6, <2>7, <2>8, <2>9
  <1> QED
    BY <1>2, <1>4, <1>5

\* evacuate_packed_simpl copies over no footer.
LEMMA SimplFoot ==
    ASSUME NEW g, Low(g), NEW src, NEW src_end, NEW dst, NEW dst_end,
           g.fault = "none" => /\ EndOK(g, dst, dst_end) /\ dst \in Nat
                               /\ dst + PtrBytes <= g.brk /\ dst <= dst_end,
           NEW n, n = evacuate_packed_simpl(g, src, src_end, dst, dst_end)
    PROVE  Footed(g, n) /\ FootKept(g, n)
  <1>1. PICK i : i = [h |-> g, src |-> src, dst |-> dst, dst_end |-> dst_end, k |-> 1]
    OBVIOUS
  <1>2. PICK f : f = CHOOSE s : SimplLoop(s, i, src_end)
    OBVIOUS
  <1>3. f = [k \in Nat |-> IF k = 0 THEN i ELSE SimplStep(f[k - 1], src_end)]
    <2>1. SimplLoop(f, i, src_end)
      BY <1>2, SimplRun
    <2> QED
      BY <2>1, Zenon DEF SimplLoop
  <1>4. n = f[Fuel].h
    BY <1>1, <1>2, Zenon DEF evacuate_packed_simpl, SimplLoop
  <1>5. SimplClear(i, g)
    <2>1. Footed(g, g) /\ FootKept(g, g)
      BY FootRefl
    <2> QED
      BY <1>1, <2>1 DEF SimplClear
  <1>6. PICK T : T = {k \in Nat : ~SimplClear(f[k], g)}
    OBVIOUS
  <1>7. ASSUME T # {} PROVE FALSE
    <2>1. T \in SUBSET Nat
      BY <1>6
    <2>2. PICK x \in T : \A y \in T : x <= y
      BY <1>7, <2>1, Least
    <2>3. x \in Nat /\ ~SimplClear(f[x], g)
      BY <1>6, <2>2
    <2>4. x # 0
      BY <1>3, <1>5, <2>3
    <2>5. x - 1 \in Nat /\ ~(x <= x - 1)
      BY <2>3, <2>4
    <2>6. SimplClear(f[x - 1], g)
      BY <1>6, <2>2, <2>5
    <2>7. f[x] = SimplStep(f[x - 1], src_end)
      BY <1>3, <2>3, <2>4
    <2> QED
      BY <2>3, <2>6, <2>7, SimplStays
  <1>8. SimplClear(f[Fuel], g)
    BY <1>6, <1>7, ProgramAssumption
  <1> QED
    BY <1>4, <1>8 DEF SimplClear

\* REDIRECTION_TAG: the pointer is copied to where the copy ends.
LEMMA EndedFoot ==
    ASSUME GInv, FInv, Collecting("evacuate_packed"), ev.worklist # <<>>,
           Tag(h.mem, ev.src) = "REDIRECTION", NEW g, g = BurnedAtSrc,
           NEW cell, cell = h.mem[ev.src], NEW d, d = ev.dst, NEW k, k = Store(g, d, cell)
    PROVE  Footed(h, k) /\ FootKept(h, k)
  <1>1. PICK P : P = PlacesOf(PendingRoots)
    OBVIOUS
  <1>2. EvacState(P)
    BY <1>1, EvacIs
  <1>3. Footed(h, g) /\ FootKept(h, g) /\ Low(g) /\ Low(h) /\ g.fault = "none"
    BY BurnedFoot DEF Footed, FInv
  <1>4. cell.tag = "REDIRECTION" /\ SizeOf(cell) = PtrBytes /\ PtrBytes \in Nat
    BY <1>2, SrcIs, SizeOfCell DEF Pointers, PtrBytes
  <1>5. PICK e : e = ev.dst_end
    OBVIOUS
  <1>6. EndOK(g, d, e) /\ d \in Nat
    BY <1>3, <1>5, CursorReady
  <1>7. Beyond(g, d, SizeOf(cell))
    <2>1. e \in Int
      BY <1>3, <1>6 DEF EndOK, IsFooter, Tag, FootersOf, Low, FootersOK
    <2> QED
      BY <1>3, <1>4, <1>6, <2>1, ClearBeyond DEF EndOK
  <1>8. Footed(g, k) /\ FootKept(g, k)
    BY <1>3, <1>4, <1>6, <1>7, FootStore
  <1> QED
    BY <1>3, <1>8, FootTrans

\* REDIRECTION_TAG while inlining
LEMMA AbortInliningFoot ==
    ASSUME GInv, FInv, AbortInlining
    PROVE  FInv' /\ FootKept(h, h')
  <1>1. PICK P : P = PlacesOf(PendingRoots)
    OBVIOUS
  <1>2. /\ Collecting("evacuate_packed") /\ ev.worklist # <<>>
        /\ Tag(h.mem, ev.src) = "REDIRECTION" /\ pc' = pc /\ UNCHANGED var
    BY DEF AbortInlining, AtTag, Acting
  <1>3. EvacState(P) /\ RootShape(ev) /\ Low(h)
    BY <1>1, <1>2, EvacIs DEF EvacState, FInv
  <1>4. PICK g, cell : g = BurnedAtSrc /\ cell = h.mem[ev.src]
    OBVIOUS
  <1>5. PICK A, w, found : /\ A = Actions(ev.orig_dst, h.brk) /\ w = Rest
                           /\ found = {i \in DOMAIN w : w[i].act = "RestoreSrc"}
    OBVIOUS
  <1>6. w \in Seq(A) /\ Len(w) \in Nat /\ DOMAIN w = 1 .. Len(w)
    BY <1>2, <1>3, <1>5, WorklistIs, LenProperties
  <1>7. CASE found = {}
    <2>1. PICK n : n = Fail(g, "panic: no RestoreSrc")
      OBVIOUS
    <2>2. h' = n
      BY <1>4, <1>5, <1>7, <2>1 DEF AbortInlining
    <2>3. Footed(h, g) /\ FootKept(h, g) /\ Low(g)
      BY <1>2, <1>4, BurnedFoot DEF Footed
    <2>4. SameMemory(g, n) /\ n.fault # "none"
      BY <2>1, <2>3, FailSame DEF Low
    <2>5. Footed(g, n) /\ FootKept(g, n)
      BY <2>3, <2>4, FootFail
    <2>6. Footed(h, n) /\ FootKept(h, n)
      BY <1>3, <2>3, <2>5, FootTrans
    <2>7. PICK e2 : e2 = ev'
      OBVIOUS
    <2> QED
      BY <1>2, <2>2, <2>4, <2>6, <2>7, CopyFoot
  <1>8. CASE found # {}
    <2>1. PICK m : m = Min(found)
      OBVIOUS
    <2>2. m \in 1 .. Len(w) /\ w[m].act = "RestoreSrc" /\ m \in found
      <3>1. found \in SUBSET Nat
        BY <1>5, <1>6
      <3>2. m \in found
        BY <1>8, <2>1, <3>1, MinIs
      <3> QED
        BY <1>5, <1>6, <3>2
    <2>3. PICK top : top = w[m]
      OBVIOUS
    <2>4. PICK d, e, s : d = top.dst /\ e = top.dst_end /\ s = top.src
      OBVIOUS
    <2>5. top \in Returns(w) /\ top \in A
      BY <1>5, <1>6, <2>2, <2>3, ElementOfSeq DEF Returns
    <2>6. d \in Nat /\ d + PtrBytes <= h.brk /\ d <= e
      BY <1>5, <2>2, <2>3, <2>4, <2>5, ActionIs DEF PlaceOK
    <2>7. PICK k : k = Store(g, ev.dst, cell)
      OBVIOUS
    <2>8. PICK new : new = FreshRegion(k, CHUNK_SIZE, 0)
      OBVIOUS
    <2>9. PICK h1 : h1 = evacuate_packed_simpl(new.h, d, e, new.dst, new.dst_end)
      OBVIOUS
    <2>10. PICK c : c = check_bounds(h1, 32, d, e)
      OBVIOUS
    <2>11. PICK to, offset : to = new.dst /\ offset = new.dst_end - new.dst
      OBVIOUS
    <2>12. PICK cell2 : cell2 = PtrCell("INDIRECTION", to, offset)
      OBVIOUS
    <2>13. PICK h2 : h2 = Store(c.h, c.dst, cell2)
      OBVIOUS
    <2>14. PICK from, footer : from = c.dst_end /\ footer = new.dst_end
      OBVIOUS
    <2>15. PICK n : n = add_old_to_old_indirection(h2, from, footer)
      OBVIOUS
    <2>16. Footed(h, k) /\ FootKept(h, k) /\ Low(k)
      BY <1>2, <1>4, <2>7, EndedFoot DEF Footed
    <2>17. /\ Footed(k, new.h) /\ FootKept(k, new.h) /\ new.dst = k.brk
           /\ new.h.fault = "none" => /\ NewChunk(k, new, CHUNK_SIZE) /\ new.dst_end \in Nat
                                      /\ EndOK(new.h, new.dst, new.dst_end)
      BY <2>8, <2>16, SizesFit, FootFresh, CountsAre
    <2>18. Footed(h, new.h) /\ FootKept(h, new.h) /\ Low(new.h)
      BY <1>3, <2>16, <2>17, FootTrans DEF Footed
    <2>19. /\ Footed(new.h, h1) /\ FootKept(new.h, h1)
      <3>1. PICK hp, nd, ne : hp = new.h /\ nd = new.dst /\ ne = new.dst_end
        OBVIOUS
      <3>2. ASSUME hp.fault = "none"
            PROVE  EndOK(hp, nd, ne) /\ nd \in Nat /\ nd + PtrBytes <= hp.brk /\ nd <= ne
        <4>1. /\ nd = k.brk /\ NewChunk(k, new, CHUNK_SIZE) /\ EndOK(hp, nd, ne)
              /\ k.fault = "none" /\ hp.brk \in Nat /\ k.brk \in Nat
          BY <2>16, <2>17, <2>18, <3>1, <3>2 DEF Footed, Low, FootersOK, BrkOK
        <4>2. /\ nd + CHUNK_SIZE <= hp.brk /\ CHUNK_SIZE \in Nat /\ CHUNK_SIZE >= 56
              /\ nd <= ne
          BY <3>1, <4>1, SizesFit DEF NewChunk, FooterBytes
        <4> QED
          BY <4>1, <4>2 DEF PtrBytes
      <3>3. h1 = evacuate_packed_simpl(hp, d, e, nd, ne) /\ Low(hp)
        BY <2>9, <2>18, <3>1
      <3>4. Footed(hp, h1) /\ FootKept(hp, h1)
        BY <3>2, <3>3, SimplFoot
      <3> QED
        BY <3>1, <3>4
    <2>20. Footed(h, h1) /\ FootKept(h, h1) /\ Low(h1)
      BY <1>3, <2>18, <2>19, FootTrans DEF Footed
    <2>21. ASSUME h1.fault = "none"
           PROVE  EndOK(h1, d, e) /\ d \in Nat /\ d + PtrBytes <= h1.brk /\ d <= e
      <3>1. EndOK(h1, d, e)
        BY <1>2, <1>5, <2>4, <2>5, <2>20, <2>21, RestStays
      <3>2. h.brk <= h1.brk /\ h.brk \in Nat /\ h1.brk \in Nat
        BY <1>3, <2>20, <2>21 DEF Footed, Low, FootersOK, BrkOK
      <3> QED
        BY <2>6, <3>1, <3>2 DEF PtrBytes
    <2>22. cell2.tag = "INDIRECTION" /\ SizeOf(cell2) = PtrBytes
      BY <2>12, PtrShape
    <2>23. /\ Footed(h1, n) /\ FootKept(h1, n)
           /\ n.fault = "none" => Clear(n, c.dst + PtrBytes, e)
      BY <2>10, <2>13, <2>15, <2>20, <2>21, <2>22, PointerFoot
    <2>24. Footed(h, n) /\ FootKept(h, n)
      BY <1>3, <2>20, <2>23, FootTrans
    <2>25. h' = n
      <3>1. {i \in DOMAIN Rest : Rest[i].act = "RestoreSrc"} = found
        BY <1>5
      <3>2. {i \in DOMAIN Rest : Rest[i].act = "RestoreSrc"} # {}
        BY <1>8, <3>1
      <3>3. /\ Min({i \in DOMAIN Rest : Rest[i].act = "RestoreSrc"}) = m
            /\ Rest[Min({i \in DOMAIN Rest : Rest[i].act = "RestoreSrc"})] = top
        BY <1>5, <2>1, <2>3, <3>1
      <3>4. FreshRegion(Store(BurnedAtSrc, ev.dst, h.mem[ev.src]), CHUNK_SIZE, 0) = new
        BY <1>4, <2>7, <2>8
      <3>5. /\ evacuate_packed_simpl(new.h, top.dst, top.dst_end, new.dst, new.dst_end) = h1
            /\ check_bounds(h1, 32, top.dst, top.dst_end) = c
        BY <2>4, <2>9, <2>10
      <3>6. /\ Store(c.h, c.dst, PtrCell("INDIRECTION", new.dst, new.dst_end - new.dst)) = h2
            /\ add_old_to_old_indirection(h2, c.dst_end, new.dst_end) = n
        BY <2>11, <2>12, <2>13, <2>14, <2>15
      <3> QED
        BY <3>2, <3>3, <3>4, <3>5, <3>6, ZenonT(60) DEF AbortInlining
    <2>26. PICK v : v = SubSeq(w, m + 1, Len(w))
      OBVIOUS
    <2>27. PICK e1, e2 : e1 = ev /\ e2 = ev'
      OBVIOUS
    <2>28. /\ e2.worklist = v /\ e2.queue = e1.queue /\ e2.root = e1.root
           /\ e2.dst = c.dst + PtrBytes /\ e2.dst_end = e
      <3>1. PICK fw, x : fw = (e1.forwarded \/ e1.burn) /\ x = c.dst + PtrBytes
        OBVIOUS
      <3>2. e2 = [e1 EXCEPT !.forwarded = fw, !.src = s, !.dst = x, !.dst_end = e, !.worklist = v]
        <4>1. found = {i \in DOMAIN Rest : Rest[i].act = "RestoreSrc"} /\ found # {}
          BY <1>5, <1>8
        <4>2. top = Rest[Min(found)]
          BY <1>5, <2>1, <2>3
        <4>3. new = FreshRegion(Store(BurnedAtSrc, ev.dst, h.mem[ev.src]), CHUNK_SIZE, 0)
          BY <1>4, <2>7, <2>8
        <4>4. c = check_bounds(evacuate_packed_simpl(new.h, top.dst, top.dst_end, new.dst, new.dst_end),
                               32, top.dst, top.dst_end)
          BY <2>4, <2>9, <2>10
        <4>5. ev' = [ev EXCEPT !.forwarded = @ \/ ev.burn, !.src = top.src,
                               !.dst = c.dst + PtrBytes, !.dst_end = top.dst_end,
                               !.worklist = SubSeq(Rest, Min(found) + 1, Len(Rest))]
          BY <4>1, <4>2, <4>3, <4>4, Zenon DEF AbortInlining
        <4> QED
          BY <1>5, <2>1, <2>4, <2>26, <2>27, <3>1, <4>5
      <3> QED
        BY <1>3, <2>27, <3>1, <3>2 DEF RootShape
    <2>29. ASSUME n.fault = "none"
           PROVE  CopyEnds(n, e2)
      <3>1. PICK i : i = m + 1
        OBVIOUS
      <3>2. i \in 1 .. Len(w) + 1
        BY <1>6, <2>2, <3>1
      <3>3. /\ \A a \in Returns(w) : EndOK(n, a.dst, a.dst_end)
            /\ \A a \in Returns(SubSeq(w, i, Len(w))) : EndOK(n, a.dst, a.dst_end)
        BY <1>2, <1>5, <2>24, <2>29, <3>2, RestStays
      <3>4. EndOK(n, c.dst + PtrBytes, e)
        BY <2>4, <2>5, <2>23, <2>29, <3>3 DEF EndOK
      <3> QED
        BY <2>26, <2>28, <3>1, <3>3, <3>4 DEF CopyEnds
    <2> QED
      BY <1>2, <2>24, <2>25, <2>27, <2>28, <2>29, CopyFoot
  <1> QED
    BY <1>7, <1>8

\* Linking two regions leaves their footers where they are.
LEMMA JoinFoot ==
    ASSUME NEW g, Low(g), NEW f, NEW next, NEW r, NEW info,
           NEW n, Joined(g, f, next, r, info, n), IsFooter(g, f)
    PROVE  /\ Footed(g, n)
           /\ (n.fault = "none" /\ Linked(g) =>
                 /\ r \in DOMAIN g.regs /\ next \in FootersOf(g)
                 /\ info \in Infos /\ info.outset \subseteq DOMAIN g.regs
                 /\ info.first \in FootersOf(g))
              => FootKept(g, n)
  <1>1. HeapShape(g)
    BY DEF Low
  <1>2. PICK cell : cell = [g.mem[f] EXCEPT !.next = next, !.reg_info = r]
    OBVIOUS
  <1>3. PICK m : m = [g.mem EXCEPT ![f] = cell]
    OBVIOUS
  <1>4. /\ HeapShape(n) /\ n.mem = m /\ n.brk = g.brk /\ n.fault = g.fault
        /\ n.regs = [g.regs EXCEPT ![r] = info] /\ n.old_zct = g.old_zct /\ n.new_zct = g.new_zct
    BY <1>1, <1>2, <1>3 DEF HeapShape, Joined
  <1>5. f \in DOMAIN g.mem /\ f \in FootersOf(g)
    BY DEF IsFooter, Tag, FootersOf
  <1>6. ASSUME g.fault = "none"
        PROVE  /\ Relinked(g.mem, m, f)
               /\ m[f].reg_info = r /\ m[f].next = next
    <2>1. PICK c : c = g.mem[f]
      OBVIOUS
    <2>2. c = [tag |-> "footer", reg_info |-> c.reg_info, size |-> c.size, next |-> c.next]
      BY <1>5, <1>6, <2>1 DEF Low, FootersOK, Footer
    <2>3. cell = Footer(r, c.size, next)
      <3>1. PICK c1 : c1 = [c EXCEPT !.next = next]
        OBVIOUS
      <3>2. c1 = [tag |-> "footer", reg_info |-> c.reg_info, size |-> c.size, next |-> next]
        BY <2>2, <3>1
      <3>3. cell = [c1 EXCEPT !.reg_info = r]
        BY <1>2, <2>1, <3>1
      <3> QED
        BY <3>2, <3>3 DEF Footer
    <2>4. m[f] = cell /\ DOMAIN m = DOMAIN g.mem
      BY <1>3, <1>5
    <2>5. \A b \in DOMAIN g.mem : b # f => m[b] = g.mem[b]
      BY <1>3
    <2>6. g.mem[f].tag = "footer"
      BY <1>5 DEF FootersOf
    <2>7. cell.reg_info = r /\ cell.next = next
      BY <2>3 DEF Footer
    <2>8. Relinked(g.mem, m, f)
      BY <1>5, <2>1, <2>3, <2>4, <2>5, <2>6 DEF Relinked, Footer
    <2> QED
      BY <2>4, <2>7, <2>8
  <1>7. Footed(g, n) /\ (n.fault = "none" => FootersOf(n) = FootersOf(g))
    BY <1>4, <1>6, FootRelink
  <1>8. PICK j : j = [g EXCEPT !.regs = [g.regs EXCEPT ![r] = info]]
    OBVIOUS
  <1>9. /\ HeapShape(j) /\ j.mem = g.mem /\ j.brk = g.brk /\ j.fault = g.fault /\ j.regs = n.regs
        /\ j.old_zct = g.old_zct /\ j.new_zct = g.new_zct
    BY <1>1, <1>4, <1>8 DEF HeapShape
  <1>10. Low(j) /\ FootersOf(j) = FootersOf(g)
    BY <1>9 DEF Low, FootersOK, FootersOf
  <1>11. ASSUME n.fault = "none", Linked(g), r \in DOMAIN g.regs, next \in FootersOf(g),
                info \in Infos, info.outset \subseteq DOMAIN g.regs, info.first \in FootersOf(g)
         PROVE  Linked(n)
    <2>1. Linked(j) /\ DOMAIN j.regs = DOMAIN g.regs
      BY <1>4, <1>9, <1>11, RegionSet
    <2>2. SameInfo(j, n)
      BY <1>4, <1>9 DEF SameInfo
    <2>3. n.mem[f].reg_info \in DOMAIN j.regs /\ n.mem[f].next \in FootersOf(j)
      BY <1>4, <1>6, <1>10, <1>11, <2>1
    <2>4. j.fault = "none" => Relinked(j.mem, n.mem, f)
      BY <1>4, <1>6, <1>9
    <2>5. FootKept(j, n)
      BY <1>4, <1>9, <1>10, <2>2, <2>3, <2>4, FootRelink
    <2> QED
      BY <1>11, <2>1, <2>5 DEF FootKept, LinksKept
  <1> QED
    BY <1>7, <1>11 DEF FootKept, LinksKept

\* REDIRECTION_TAG while not inlining
LEMMA ReconcileRegionsFoot ==
    ASSUME GInv, FInv, ReconcileRegions
    PROVE  FInv' /\ FootKept(h, h')
  <1>1. PICK P : P = PlacesOf(PendingRoots)
    OBVIOUS
  <1>2. /\ Collecting("evacuate_packed") /\ ev.worklist # <<>>
        /\ Tag(h.mem, ev.src) = "REDIRECTION" /\ pc' = pc /\ UNCHANGED var
    BY DEF ReconcileRegions, AtTag, Acting
  <1>3. RootShape(ev) /\ Low(h)
    BY <1>1, <1>2, EvacIs DEF EvacState, FInv
  <1>4. PICK g, cell : g = BurnedAtSrc /\ cell = h.mem[ev.src]
    OBVIOUS
  <1>5. PICK d, k : d = ev.dst /\ k = Store(g, d, cell)
    OBVIOUS
  <1>6. Footed(h, k) /\ FootKept(h, k) /\ Low(k)
    BY <1>2, <1>4, <1>5, EndedFoot DEF Footed
  <1>7. PICK f1, f2 : f1 = ev.dst_end /\ f2 = cell.to + cell.offset
    OBVIOUS
  <1>8. PICK r1, r2 : r1 = RegOf(k, f1) /\ r2 = RegOf(k, f2)
    OBVIOUS
  <1>9. PICK info : info = [refcount |-> u16(k.regs[r2].refcount + k.regs[r1].refcount),
                            outset |-> k.regs[r2].outset \cup k.regs[r1].outset,
                            first |-> k.regs[r1].first]
    OBVIOUS
  <1>10. PICK n : n = h'
    OBVIOUS
  <1>11. Footed(k, n) /\ FootKept(k, n)
    <2>1. CASE ~IsFooter(k, f1) \/ ~IsFooter(k, f2)
      <3>1. PICK j : j = Fail(k, "wild")
        OBVIOUS
      <3>2. n = j
        BY <1>4, <1>5, <1>7, <1>10, <2>1, <3>1 DEF ReconcileRegions
      <3>3. SameMemory(k, j) /\ j.fault # "none"
        BY <1>6, <3>1, FailSame DEF Low
      <3> QED
        BY <1>6, <3>2, <3>3, FootFail
    <2>2. CASE IsFooter(k, f1) /\ IsFooter(k, f2)
      <3>1. Joined(k, f1, f2, r2, info, n)
        BY <1>4, <1>5, <1>7, <1>8, <1>9, <1>10, <2>2 DEF ReconcileRegions, Joined
      <3>2. ASSUME Linked(k)
            PROVE  /\ r2 \in DOMAIN k.regs /\ f2 \in FootersOf(k)
                   /\ info \in Infos /\ info.outset \subseteq DOMAIN k.regs
                   /\ info.first \in FootersOf(k)
        <4>1. r1 \in DOMAIN k.regs /\ r2 \in DOMAIN k.regs /\ f2 \in FootersOf(k)
          BY <1>8, <2>2, <3>2, FooterLinked
        <4>2. PICK o1, o2 : o1 = k.regs[r1] /\ o2 = k.regs[r2]
          OBVIOUS
        <4>3. /\ o1 \in Infos /\ o1.outset \subseteq DOMAIN k.regs /\ o1.first \in FootersOf(k)
              /\ o2 \in Infos /\ o2.outset \subseteq DOMAIN k.regs
          BY <3>2, <4>1, <4>2, RegionIs
        <4>4. PICK refs, out : refs = u16(o2.refcount + o1.refcount) /\ out = o2.outset \cup o1.outset
          OBVIOUS
        <4>5. refs \in Counts
          BY <4>3, <4>4, CountsAre DEF Infos
        <4>6. out \subseteq DOMAIN k.regs /\ o1.first \in Nat
          BY <4>3, <4>4 DEF Infos
        <4>7. info = [refcount |-> refs, outset |-> out, first |-> o1.first]
          BY <1>9, <4>2, <4>4
        <4>8. info \in Infos /\ info.outset = out /\ info.first = o1.first
          BY <3>2, <4>5, <4>6, <4>7, InfoIs
        <4> QED
          BY <4>1, <4>3, <4>6, <4>8
      <3> QED
        BY <1>6, <2>2, <3>1, <3>2, JoinFoot
    <2> QED
      BY <2>1, <2>2
  <1>12. Footed(h, n) /\ FootKept(h, n)
    BY <1>3, <1>6, <1>11, FootTrans
  <1>13. PICK e1, e2 : e1 = ev /\ e2 = ev'
    OBVIOUS
  <1>14. e2.worklist = <<>> /\ e2.queue = e1.queue /\ e2.root = e1.root
    <2>1. PICK fw, x, y : fw = (e1.forwarded \/ e1.burn) /\ x = e1.src + PtrBytes /\ y = e1.dst + PtrBytes
      OBVIOUS
    <2>2. e2 = [e1 EXCEPT !.forwarded = fw, !.src = x, !.dst = y, !.worklist = <<>>]
      BY <1>13, <2>1 DEF ReconcileRegions
    <2> QED
      BY <1>3, <1>13, <2>2 DEF RootShape
  <1> QED
    BY <1>2, <1>10, <1>12, <1>13, <1>14, CopyFoot DEF CopyEnds

\* The worklist of a constructor's fields goes back to nowhere else.
LEMMA FieldsReturn ==
    ASSUME NEW S, ProcessTy \in S, NEW n \in Nat, NEW a, SkipoverEnvWrite(a) \in S, NEW on,
           NEW skip, skip = (IF on THEN <<SkipoverEnvWrite(a)>> ELSE <<>>),
           NEW f, f = [i \in 1 .. n |-> ProcessTy],
           NEW w \in Seq(S), NEW v, v = f \o skip \o w
    PROVE  Returns(v) \subseteq Returns(w)
  <1>2. f \in Seq(S) /\ Returns(f) = {}
    <2>1. f \in [1 .. n -> S]
      OBVIOUS
    <2>2. f \in Seq(S)
      BY <2>1, SeqDef
    <2>3. ProcessTy.act # "RestoreSrc"
      BY DEF ProcessTy
    <2>4. \A i \in DOMAIN f : f[i].act # "RestoreSrc"
      BY <2>3
    <2> QED
      BY <2>2, <2>4 DEF Returns
  <1>3. skip \in Seq(S) /\ Returns(skip) = {}
    <2>1. PICK p \in S : p = SkipoverEnvWrite(a)
      OBVIOUS
    <2>2. p.act # "RestoreSrc"
      BY <2>1 DEF SkipoverEnvWrite
    <2>3. CASE skip = <<p>>
      BY <2>2, <2>3 DEF Returns
    <2>4. CASE skip = <<>>
      BY <2>4 DEF Returns
    <2> QED
      BY <2>1, <2>3, <2>4
  <1>4. PICK u : u = f \o skip
    OBVIOUS
  <1>5. u \in Seq(S) /\ Returns(u) = {}
    <2>1. PICK p \in Seq(S), q \in Seq(S) : p = f /\ q = skip
      BY <1>2, <1>3
    <2>2. Returns(p \o q) \subseteq Returns(p) \cup Returns(q)
      BY ReturnsOf
    <2>3. u = p \o q /\ Returns(p) = {} /\ Returns(q) = {}
      BY <1>2, <1>3, <1>4, <2>1
    <2>4. p \o q \in Seq(S)
      OBVIOUS
    <2> QED
      BY <2>2, <2>3, <2>4
  <1>6. Returns(u \o w) \subseteq Returns(u) \cup Returns(w)
    BY <1>5, ReturnsOf
  <1>7. v = u \o w
    BY <1>4
  <1> QED
    BY <1>5, <1>6, <1>7

\* Burning a constructor goes over no footer.
LEMMA ConBurnedFoot ==
    ASSUME NEW g, Low(g), NEW a \in Nat, heap_start <= a, NEW bytes \in Nat, NEW to, NEW e,
           NEW n, BurnedWith(g, a, bytes, to, e, n)
    PROVE  Footed(g, n) /\ FootKept(g, n) /\ n.fault = g.fault
  <1>1. CASE bytes >= 8
    <2>1. PICK offset : offset = e - to
      OBVIOUS
    <2>2. n = Store(g, a, PtrCell("COPIED_TO", to, offset)) /\ a \in Int
      BY <1>1, <2>1 DEF ForwardAt, BurnedWith
    <2> QED
      BY <2>2, FootForward
  <1>2. CASE ~(bytes >= 8)
    <2>1. PICK k \in Nat : k = 1 + bytes
      OBVIOUS
    <2>2. n = [g EXCEPT !.mem = Burn(@, a, k)]
      BY <1>2, <2>1 DEF BurnedWith
    <2>3. /\ HeapShape(n) /\ n.mem = Burn(g.mem, a, k) /\ n.brk = g.brk /\ n.fault = g.fault
          /\ SameInfo(g, n)
      BY <2>2 DEF Low, HeapShape, SameInfo
    <2> QED
      BY <2>3, FootBurn
  <1> QED
    BY <1>1, <1>2

\* Every other tag
LEMMA CopyConstructorFoot ==
    ASSUME GInv, FInv, CopyConstructor
    PROVE  FInv' /\ FootKept(h, h')
  <1>1. PICK P : P = PlacesOf(PendingRoots)
    OBVIOUS
  <1>2. /\ Collecting("evacuate_packed") /\ ev.worklist # <<>>
        /\ Tag(h.mem, ev.src) \notin Reserved /\ pc' = pc /\ UNCHANGED var
    BY DEF CopyConstructor, Acting
  <1>3. EvacState(P) /\ RootShape(ev) /\ Low(h) /\ Footed(h, h) /\ FootKept(h, h)
    BY <1>1, <1>2, EvacIs, FootRefl DEF EvacState, FInv
  <1>4. ev.burn /\ Rest \in Seq(Actions(ev.orig_dst, h.brk))
    BY <1>2, <1>3, WorklistIs
  <1>5. CASE Tag(h.mem, ev.src) \notin Con
    <2>1. PICK n : n = Fail(h, "wild")
      OBVIOUS
    <2>2. h' = n
      BY <1>5, <2>1 DEF CopyConstructor
    <2>3. SameMemory(h, n) /\ n.fault # "none"
      BY <1>3, <2>1, FailSame DEF Low
    <2>4. Footed(h, n) /\ FootKept(h, n)
      BY <1>3, <2>3, FootFail
    <2>5. PICK e2 : e2 = ev'
      OBVIOUS
    <2> QED
      BY <1>2, <2>2, <2>3, <2>4, <2>5, CopyFoot
  <1>6. CASE Tag(h.mem, ev.src) \in Con
    <2>1. PICK a, cell : a = ev.src /\ cell = h.mem[a]
      OBVIOUS
    <2>2. cell.tag \in Con /\ a \in Nat /\ heap_start <= a /\ cell.tag # "footer"
      <3>1. Tag(h.mem, a) # "garbage" /\ "footer" \notin Con
        BY <1>6, <2>1, TagsApart
      <3>2. cell.tag = Tag(h.mem, a) /\ a \in Nat /\ heap_start <= a
        BY <1>2, <1>3, <2>1, <3>1, SrcIs
      <3> QED
        BY <1>6, <2>1, <3>1, <3>2
    <2>3. PICK bytes, size : bytes = ScalarBytes[cell.tag] /\ size = SizeOf(cell)
      OBVIOUS
    <2>4. bytes \in Nat /\ size = 1 + bytes /\ Fields[cell.tag] \in Nat
      BY <2>2, <2>3, InfoTable, SizeOfCell
    <2>5. PICK m, d, e : m = 32 + bytes /\ d = ev.dst /\ e = ev.dst_end
      OBVIOUS
    <2>6. Space(m) /\ SizeOf(cell) + PtrBytes <= m
      BY <2>2, <2>3, <2>4, <2>5 DEF Space, PtrBytes
    <2>7. PICK c : c = check_bounds(h, m, d, e)
      OBVIOUS
    <2>8. PICK g : g = Store(c.h, c.dst, cell)
      OBVIOUS
    <2>9. h.fault = "none" => EndOK(h, d, e) /\ d \in Nat /\ d + PtrBytes <= h.brk /\ d <= e
      BY <1>2, <1>3, <2>5, CursorReady
    <2>10. /\ Footed(h, g) /\ FootKept(h, g) /\ Low(g)
           /\ g.fault = "none" => EndOK(g, c.dst + SizeOf(cell), c.dst_end)
                                  /\ c.dst + SizeOf(cell) + PtrBytes <= g.brk /\ c.dst \in Nat
      BY <1>3, <2>2, <2>6, <2>7, <2>8, <2>9, FootCopy DEF Footed
    <2>11. PICK n : BurnedWith(g, a, bytes, d, e, n)
      BY DEF BurnedWith
    <2>12. Footed(g, n) /\ FootKept(g, n) /\ n.fault = g.fault
      BY <2>2, <2>4, <2>10, <2>11, ConBurnedFoot
    <2>13. Footed(h, n) /\ FootKept(h, n)
      BY <1>3, <2>10, <2>12, FootTrans
    <2>14. h' = n
      BY <1>4, <1>6, <2>1, <2>3, <2>5, <2>7, <2>8, <2>11 DEF CopyConstructor, BurnedWith
    <2>15. PICK x, f : x = c.dst + size /\ f = c.dst_end
      OBVIOUS
    <2>16. n.fault = "none" => EndOK(n, x, f)
      <3>1. ASSUME n.fault = "none"
            PROVE  EndOK(g, x, f) /\ x \in Int /\ x + PtrBytes <= g.brk
        BY <2>3, <2>4, <2>10, <2>12, <2>15, <3>1
      <3> QED
        BY <2>10, <2>12, <3>1, EndLater
    <2>17. PICK on, skip : /\ on = (ev.burn /\ ev.root.prov = "RemSet")
                           /\ skip = (IF on THEN <<SkipoverEnvWrite(a)>> ELSE <<>>)
      OBVIOUS
    <2>18. PICK r : r = Rest
      OBVIOUS
    <2>19. PICK w, fields : /\ fields = [i \in 1 .. Fields[cell.tag] |-> ProcessTy]
                            /\ w = fields \o skip \o r
      OBVIOUS
    <2>20. Returns(w) \subseteq Returns(r)
      <3>1. PICK A : A = Actions(ev.orig_dst, h.brk)
        OBVIOUS
      <3>2. ProcessTy \in A /\ SkipoverEnvWrite(a) \in A
        BY <2>2, <3>1 DEF Actions, SkipoverEnvWrite
      <3>3. r \in Seq(A)
        BY <1>4, <2>18, <3>1
      <3>4. PICK k \in Nat : k = Fields[cell.tag]
        BY <2>4
      <3>5. fields = [i \in 1 .. k |-> ProcessTy]
        BY <2>19, <3>4
      <3> QED
        BY <2>17, <2>19, <3>2, <3>3, <3>5, FieldsReturn
    <2>21. PICK e1, e2, to : e1 = ev /\ e2 = ev' /\ to = a + size
      OBVIOUS
    <2>22. /\ e2.worklist = w /\ e2.queue = e1.queue /\ e2.root = e1.root
           /\ e2.dst = x /\ e2.dst_end = f
      <3>1. PICK fw : fw = (IF e1.burn THEN bytes >= 8 ELSE e1.forwarded)
        OBVIOUS
      <3>2. e2 = [e1 EXCEPT !.forwarded = fw, !.worklist = w, !.src = to, !.dst = x, !.dst_end = f]
        BY <1>6, <2>1, <2>3, <2>5, <2>7, <2>15, <2>17, <2>18, <2>19, <2>21, <3>1 DEF CopyConstructor
      <3> QED
        BY <1>3, <2>21, <3>2 DEF RootShape
    <2>23. ASSUME n.fault = "none"
           PROVE  CopyEnds(n, e2)
      <3>1. \A b \in Returns(r) : EndOK(n, b.dst, b.dst_end)
        BY <1>2, <2>13, <2>18, <2>23, RestStays
      <3> QED
        BY <2>16, <2>20, <2>22, <2>23, <3>1 DEF CopyEnds
    <2> QED
      BY <1>2, <2>13, <2>14, <2>21, <2>22, <2>23, CopyFoot
  <1> QED
    BY <1>5, <1>6

\* CAUTERIZED_TAG: the writer goes on where the copy has an end.
LEMMA UncauterizeFoot ==
    ASSUME GInv, FInv, Uncauterize
    PROVE  FInv' /\ FootKept(h, h')
  <1>1. PICK P : P = PlacesOf(PendingRoots)
    OBVIOUS
  <1>2. /\ Collecting("evacuate_packed") /\ ev.worklist # <<>> /\ Tag(h.mem, ev.src) = "CAUTERIZED"
        /\ pc' = pc
    BY DEF Uncauterize, AtTag, Acting
  <1>3. EvacState(P) /\ RootShape(ev) /\ VarShape(var) /\ Low(h)
    BY <1>1, <1>2, EvacIs DEF EvacState, FInv
  <1>4. PICK x, after, d, e : /\ x = h.mem[ev.src].frame /\ after = ev.src + PtrBytes
                              /\ d = ev.dst /\ e = ev.dst_end
    OBVIOUS
  <1>5. after \in Int /\ heap_start <= after
    <2>1. ev.src \in Nat /\ heap_start <= ev.src
      BY <1>2, <1>3, SrcIs
    <2> QED
      BY <1>4, <2>1, Layout DEF PtrBytes
  <1>6. PICK offset, n : offset = e - d /\ n = Store(h, after, PtrCell("COPIED_TO", d, offset))
    OBVIOUS
  <1>7. h' = n
    BY <1>4, <1>6 DEF Uncauterize, ForwardAt
  <1>8. Footed(h, n) /\ FootKept(h, n)
    BY <1>3, <1>5, <1>6, FootForward
  <1>9. PICK ws : ws = var'
    OBVIOUS
  <1>10. CursorAt(var, x, d, e, ws)
    BY <1>4, <1>9 DEF Uncauterize, WriterHere, CursorAt
  <1>11. /\ WritersIn(ws) = WritersIn(var)
         /\ x \in Var => ws[x].wptr = d /\ ws[x].wend = e
         /\ \A y \in Var \ {x} : ws[y] = var[y]
    BY <1>3, <1>10, CursorSet
  <1>12. ASSUME n.fault = "none", NEW y \in OldWritersIn(ws)
         PROVE  \/ y \in OldWritersIn(var) /\ ws[y] = var[y]
                \/ EndOK(n, ws[y].wptr, ws[y].wend)
    <2>1. CASE y = x
      <3>1. y \in Var
        BY DEF OldWritersIn, WritersIn
      <3>2. EndOK(n, d, e)
        BY <1>2, <1>4, <1>8, <1>12, RestStays
      <3> QED
        BY <1>11, <2>1, <3>1, <3>2
    <2>2. CASE y # x
      BY <1>11, <2>2 DEF OldWritersIn, WritersIn
    <2> QED
      BY <2>1, <2>2
  <1>13. PICK e1, e2 : e1 = ev /\ e2 = ev'
    OBVIOUS
  <1>14. e2.worklist = <<>> /\ e2.queue = e1.queue /\ e2.root = e1.root
    <2>1. e2 = [e1 EXCEPT !.forwarded = TRUE, !.src = after, !.worklist = <<>>]
      BY <1>4, <1>13 DEF Uncauterize
    <2> QED
      BY <1>3, <1>13, <2>1 DEF RootShape
  <1>15. CopyEnds(n, e2)
    BY <1>14 DEF CopyEnds
  <1> QED
    BY <1>2, <1>7, <1>8, <1>9, <1>12, <1>13, <1>14, <1>15, EvacFoot

\* A step of the roots that leaves the program's cursors and takes no root up.
LEMMA RootsFoot ==
    ASSUME GInv, FInv, Collecting("roots"), pc' = "roots", NEW P, P = PlacesOf(PendingRoots),
           NEW n, n = h', NEW ws, ws = var', Footed(h, n), FootKept(h, n),
           NEW e2, e2 = ev', e2.queue \subseteq ev.queue,
           \A y \in WritersIn(ws) :
             y \in WritersIn(var) /\ ws[y].wptr = var[y].wptr /\ ws[y].wend = var[y].wend
    PROVE  FInv' /\ FootKept(h, h')
  <1>1. RootsState(P) /\ PendingRoots = {r \in ev.queue : r.prov = "RemSet"} /\ pc = "roots"
    BY RootsIs
  <1>2. PICK Q : Q = PlacesOf(Remembered)'
    OBVIOUS
  <1>3. \A q \in Q : q \in P
    <2>1. PICK R : R = PendingRoots' /\ R = {r \in e2.queue : r.prov = "RemSet"}
      BY DEF PendingRoots
    <2>2. R \subseteq PendingRoots
      BY <1>1, <2>1
    <2>3. Q = PlacesOf(R)
      BY <1>2, <2>1 DEF Remembered, PlacesOf
    <2> QED
      BY <2>2, <2>3 DEF PlacesOf
  <1>4. P = PlacesOf(Remembered) /\ h.fault = "none"
    BY <1>1 DEF Remembered, RootsState
  <1>5. \A y \in OldWritersIn(ws) : /\ y \in OldWritersIn(var)
                                    /\ ws[y].wptr = var[y].wptr /\ ws[y].wend = var[y].wend
    BY DEF OldWritersIn
  <1>6. pc' # "evacuate_packed"
    OBVIOUS
  <1> QED
    BY <1>2, <1>3, <1>4, <1>5, <1>6, StepFoot

\* A root outside the nursery is left alone (evacuate_roots).
LEMMA SkipOldRootFoot ==
    ASSUME GInv, FInv, SkipOldRoot
    PROVE  FInv' /\ FootKept(h, h')
  <1>1. PICK P : P = PlacesOf(PendingRoots)
    OBVIOUS
  <1>2. PICK r \in ev.queue : h' = Skipped(r) /\ ev' = [ev EXCEPT !.queue = @ \ {r}]
    BY DEF SkipOldRoot
  <1>3. Collecting("roots") /\ pc' = "roots" /\ UNCHANGED var
    BY DEF SkipOldRoot, Collecting
  <1>4. RootsState(P)
    BY <1>1, <1>3, RootsIs
  <1>5. PICK n, ws, e2, q : n = h' /\ ws = var' /\ ws = var /\ e2 = ev' /\ q = ev.queue \ {r}
    BY <1>3
  <1>6. SameMemory(h, n)
    <2>1. HeapShape(h)
      BY <1>4 DEF RootsState
    <2>2. CASE IsFooter(h, r.endptr)
      BY <1>2, <1>5, <2>1, <2>2, MetadataSame DEF Skipped
    <2>3. CASE ~IsFooter(h, r.endptr)
      BY <1>2, <1>5, <2>1, <2>3, FailSame DEF Skipped
    <2> QED
      BY <2>2, <2>3
  <1>7. Footed(h, n) /\ FootKept(h, n)
    <2>1. HeapShape(h) /\ Low(h)
      BY <1>4 DEF RootsState, FInv
    <2>2. LinksKept(h, n)
      <3>1. CASE IsFooter(h, r.endptr)
        <4>1. n = insert_new_zct(h, RegOf(h, r.endptr)) \/ n = h
          BY <1>2, <1>5, <3>1 DEF Skipped
        <4> QED
          BY <2>1, <3>1, <4>1, ZctLinks, FooterLinked DEF LinksKept
      <3>2. CASE ~IsFooter(h, r.endptr)
        <4>1. n.fault # "none"
          BY <1>2, <1>5, <2>1, <3>2, FailSame DEF Skipped
        <4> QED
          BY <4>1 DEF LinksKept
      <3> QED
        BY <3>1, <3>2
    <2> QED
      BY <1>6, <2>1, <2>2, FootSame
  <1>8. e2.queue \subseteq ev.queue
    BY <1>2, <1>4, <1>5 DEF RootsState, QueueShape
  <1> QED
    BY <1>1, <1>3, <1>5, <1>7, <1>8, RootsFoot

\* A remembered pointer to what has been copied is redirected (evacuate_copied).
LEMMA EvacuateCopiedFoot ==
    ASSUME GInv, FInv, evacuate_copied
    PROVE  FInv' /\ FootKept(h, h')
  <1>1. PICK P : P = PlacesOf(PendingRoots)
    OBVIOUS
  <1>2. PICK r \in ev.queue :
          /\ ev' = [ev EXCEPT !.queue = @ \ {r}]
          /\ LET fwd == find_forwarding_pointer(SrcOf(r))
             IN IF fwd.fault # "none" THEN h' = Fail(h, fwd.fault) /\ UNCHANGED var
                ELSE IF r.prov = "Stk"
                THEN /\ var' = [var EXCEPT ![r.x].ptr = fwd.to, ![r.x].endptr = fwd.footer]
                     /\ UNCHANGED h
                ELSE /\ h' = add_old_to_old_indirection(
                               Store(h, r.ptr - 1, PtrCell("INDIRECTION", fwd.to, 0)),
                               r.endptr, fwd.footer)
                     /\ UNCHANGED var
    BY DEF evacuate_copied
  <1>3. Collecting("roots") /\ pc' = "roots"
    BY DEF evacuate_copied, Collecting
  <1>4. RootsState(P) /\ PendingRoots = {s \in ev.queue : s.prov = "RemSet"}
    BY <1>1, <1>3, RootsIs
  <1>5. VarShape(var) /\ h.fault = "none" /\ Low(h) /\ HeapShape(h) /\ QueueOK(ev)
    BY <1>4 DEF RootsState, FInv
  <1>6. PICK fwd, n, ws, e2, q : /\ fwd = find_forwarding_pointer(SrcOf(r)) /\ n = h' /\ ws = var'
                                 /\ e2 = ev' /\ q = ev.queue \ {r}
    OBVIOUS
  <1>7. e2.queue \subseteq ev.queue
    BY <1>2, <1>4, <1>6 DEF RootsState, QueueShape
  <1>8. CASE fwd.fault # "none"
    <2>1. n = Fail(h, fwd.fault) /\ ws = var
      BY <1>2, <1>6, <1>8
    <2>2. SameMemory(h, n) /\ n.fault # "none"
      BY <1>5, <1>8, <2>1, FailSame
    <2>3. Footed(h, n) /\ FootKept(h, n)
      BY <1>5, <2>2, FootFail
    <2> QED
      BY <1>1, <1>3, <1>6, <1>7, <2>1, <2>3, RootsFoot
  <1>9. CASE fwd.fault = "none" /\ r.prov = "Stk"
    <2>1. PICK x, d, e : x = r.x /\ d = fwd.to /\ e = fwd.footer
      OBVIOUS
    <2>2. ReaderAt(var, x, d, e, ws) /\ n = h
      BY <1>2, <1>6, <1>9, <2>1 DEF ReaderAt
    <2>3. WritersIn(ws) = WritersIn(var)
          /\ \A y \in Var : ws[y].wptr = var[y].wptr /\ ws[y].wend = var[y].wend
      BY <1>5, <2>2, ReaderSet
    <2>4. \A y \in WritersIn(ws) :
            y \in WritersIn(var) /\ ws[y].wptr = var[y].wptr /\ ws[y].wend = var[y].wend
      BY <2>3 DEF WritersIn
    <2>5. Footed(h, n) /\ FootKept(h, n)
      BY <1>5, <2>2, FootRefl
    <2> QED
      BY <1>1, <1>3, <1>6, <1>7, <2>4, <2>5, RootsFoot
  <1>10. CASE fwd.fault = "none" /\ r.prov # "Stk"
    <2>1. PICK p, to, offset, from, footer :
            /\ p = r.ptr - 1 /\ to = fwd.to /\ offset = 0 /\ from = r.endptr /\ footer = fwd.footer
      OBVIOUS
    <2>2. PICK cell : cell = PtrCell("INDIRECTION", to, offset)
      OBVIOUS
    <2>3. PICK k : k = Store(h, p, cell)
      OBVIOUS
    <2>4. n = add_old_to_old_indirection(k, from, footer) /\ ws = var
      BY <1>2, <1>6, <1>10, <2>1, <2>2, <2>3
    <2>5. r.prov = "RemSet" /\ p \in P
      BY <1>1, <1>4, <1>5, <1>10, <2>1 DEF QueueOK, PlacesOf
    <2>6. p \in Int /\ Beyond(h, p, PtrBytes)
      <3>1. p \in Nat
        BY <1>4, <2>5 DEF RootsState
      <3>2. Clear(h, p, p)
        <4>1. P = PlacesOf(Remembered)
          BY <1>1, <1>3 DEF Remembered, Collecting
        <4> QED
          BY <1>5, <2>5, <4>1 DEF FInv, PlacesClear
      <3> QED
        BY <1>5, <3>1, <3>2, BeyondClear
    <2>7. Footed(h, k) /\ FootKept(h, k)
      <3>1. cell.tag # "footer" /\ SizeOf(cell) = PtrBytes
        BY <2>2, PtrShape
      <3> QED
        BY <1>5, <2>3, <2>6, <3>1, FootStore
    <2>8. Low(k)
      BY <2>7 DEF Footed
    <2>9. SameMemory(k, n) /\ LinksKept(k, n)
      BY <2>4, <2>8, MetadataSame, AddLinks DEF Low
    <2>10. Footed(h, n) /\ FootKept(h, n)
      BY <1>5, <2>7, <2>8, <2>9, FootSame, FootTrans
    <2> QED
      BY <1>1, <1>3, <1>6, <1>7, <2>4, <2>10, RootsFoot
  <1> QED
    BY <1>8, <1>9, <1>10

\* The chunk of a root ends with a footer, and so do the others (allocate_first_chunk,
\* evacuate_roots).
LEMMA RootChunkFoot ==
    ASSUME NEW P, MemOK(h.mem, P, h.brk), h.fault = "none", Low(h), NEW src, NEW src_end,
           NEW refcount \in Counts,
           NEW c, c = root_first_chunk(src, src_end, refcount)
    PROVE  /\ Footed(h, c.h) /\ FootKept(h, c.h)
           /\ c.h.fault = "none" => EndOK(c.h, c.dst, c.dst_end)
  <1>1. PICK wild : wild = Fail(h, "wild")
    OBVIOUS
  <1>2. Footed(h, wild) /\ FootKept(h, wild) /\ wild.fault # "none"
    BY <1>1, FailSame, FootFail DEF Low
  <1>3. CASE contains_addr(src_end)
    <2>1. CASE Tag(h.mem, src_end) # "nursery_footer"
      <3>1. c.h = wild
        BY <1>1, <1>3, <2>1 DEF root_first_chunk
      <3> QED
        BY <1>2, <3>1
    <2>2. CASE Tag(h.mem, src_end) = "nursery_footer"
      <3>1. PICK size : size = h.mem[src_end].size + FooterBytes
        OBVIOUS
      <3>2. PICK f : f = FreshRegion(h, size, refcount)
        OBVIOUS
      <3>3. c.h = f.h /\ c.dst = f.dst /\ c.dst_end = f.dst_end
        BY <1>3, <2>2, <3>1, <3>2 DEF root_first_chunk
      <3>4. GoodSize(size)
        <4>1. src_end \in DOMAIN h.mem /\ h.mem[src_end].tag = "nursery_footer"
          BY <2>2 DEF Tag
        <4>2. GoodSize(h.mem[src_end].size)
          BY <4>1 DEF MemOK, GoodCell
        <4> QED
          BY <3>1, <4>2, SizesFit
      <3> QED
        BY <3>2, <3>3, <3>4, FootFresh
    <2> QED
      BY <2>1, <2>2
  <1>4. CASE ~contains_addr(src_end) /\ ~IsFooter(h, src_end)
    <2>1. c.h = wild
      BY <1>1, <1>4 DEF root_first_chunk
    <2> QED
      BY <1>2, <2>1
  <1>5. CASE ~contains_addr(src_end) /\ IsFooter(h, src_end)
    <2>1. PICK size, r : size = h.mem[src_end].size /\ r = RegOf(h, src_end)
      OBVIOUS
    <2>2. PICK a : a = allocate(h, size)
      OBVIOUS
    <2>3. PICK f : f = a.start + size - FooterBytes
      OBVIOUS
    <2>4. PICK g, chunk, next : g = a.h /\ chunk = CHUNK_SIZE /\ next = h.regs[r].first
      OBVIOUS
    <2>5. PICK k : k = Store(g, f, Footer(r, chunk - FooterBytes, next))
      OBVIOUS
    <2>0. PICK info : info = [k.regs[r] EXCEPT !.first = f, !.refcount = u16(@ + refcount)]
      OBVIOUS
    <2>6. PICK n : n = [k EXCEPT !.regs[r] = info]
      OBVIOUS
    <2>7. c.h = n /\ c.dst = a.start /\ c.dst_end = f
      BY <1>5, <2>0, <2>1, <2>2, <2>3, <2>4, <2>5, <2>6 DEF root_first_chunk
    <2>8. size \in Nat /\ size >= 33
      <3>1. src_end \in FootersOf(h)
        BY <1>5 DEF IsFooter, Tag, FootersOf
      <3>2. size \in Nat /\ GoodSize(size + FooterBytes)
        BY <2>1, <3>1 DEF Low, FootersOK
      <3>3. size + FooterBytes >= 57
        BY <3>2, SizesFit
      <3> QED
        BY <3>2, <3>3 DEF FooterBytes
    <2>9. /\ Footed(h, g) /\ FootKept(h, g) /\ g.mem = h.mem /\ SameInfo(h, g) /\ a.start = h.brk
          /\ g.fault = "none" => a.start + size + 8 <= g.brk
      BY <2>2, <2>4, <2>8, FootAllocate
    <2>10. Low(g) /\ FootersOf(g) = FootersOf(h) /\ h.brk \in Nat
           /\ \A b \in FootersOf(h) : b \in Nat /\ b + FooterBytes <= h.brk
      BY <2>9 DEF Footed, FootersOf, Low, FootersOK, BrkOK
    <2>11. f \in Nat /\ h.brk + PtrBytes <= f /\ f = h.brk + size - FooterBytes
      BY <2>3, <2>8, <2>9, <2>10 DEF FooterBytes, PtrBytes
    <2>12. ASSUME g.fault = "none"
           PROVE  /\ GoodSize(chunk) /\ f \in Nat /\ f + FooterBytes <= g.brk
                  /\ Beyond(g, f, FooterBytes)
      <3>1. g.brk \in Nat
        BY <2>10, <2>12 DEF Low, FootersOK, BrkOK
      <3>2. f + FooterBytes <= g.brk
        BY <2>8, <2>9, <2>10, <2>11, <2>12, <3>1 DEF FooterBytes
      <3>3. Beyond(g, f, FooterBytes)
        BY <2>10, <2>11 DEF Beyond, FooterBytes, PtrBytes
      <3> QED
        BY <2>4, <2>11, <3>2, <3>3, SizesFit
    <2>13. /\ Low(k) /\ k.brk = g.brk /\ k.fault = g.fault /\ SameInfo(g, k)
           /\ k.fault = "none" => /\ FootersOf(k) = FootersOf(g) \cup {f}
                                  /\ k.mem[f] = Footer(r, chunk - FooterBytes, next)
                                  /\ \A x \in FootersOf(g) : k.mem[x] = g.mem[x] \/ x = f
      BY <2>5, <2>10, <2>12, FootStoreFooter
    <2>14. Footed(h, k) /\ FootKept(h, k)
      <3>1. k.fault = "none" => h.brk <= k.brk
        BY <2>9, <2>13 DEF Footed
      <3>2. FootKept(h, k)
        <4>1. ASSUME k.fault = "none", Linked(h)
              PROVE  Linked(k)
          <5>1. Linked(g)
            BY <2>9, <2>13, <4>1 DEF FootKept, LinksKept
          <5>2. r \in DOMAIN h.regs
            BY <1>5, <2>1, <4>1, FooterLinked
          <5>3. next \in FootersOf(h)
            BY <2>4, <4>1, <5>2 DEF Linked
          <5>4. k.mem[f].reg_info = r /\ k.mem[f].next = next
            BY <2>13, <4>1 DEF Footer
          <5> QED
            BY <2>9, <2>10, <2>13, <4>1, <5>1, <5>2, <5>3, <5>4, ChunkLinks DEF SameInfo
        <4> QED
          BY <2>9, <2>10, <2>13, <4>1 DEF FootKept, LinksKept
      <3>3. \A b \in {f} : h.brk <= b
        BY <2>10, <2>11 DEF PtrBytes
      <3> QED
        BY <2>10, <2>13, <3>1, <3>2, <3>3 DEF Footed
    <2>15. SameMemory(k, n) /\ LinksKept(k, n)
      <3>1. SameMemory(k, n)
        BY <2>6, <2>13 DEF SameMemory, Low, HeapShape
      <3>2. ASSUME n.fault = "none", Linked(k)
            PROVE  Linked(n)
        <4>1. k.mem[f].reg_info = r /\ f \in FootersOf(k)
          BY <2>13, <3>1, <3>2 DEF Footer, SameMemory
        <4>2. r \in DOMAIN k.regs
          BY <3>2, <4>1 DEF Linked
        <4>3. PICK o : o = k.regs[r]
          OBVIOUS
        <4>4. o \in Infos /\ o.outset \subseteq DOMAIN k.regs
          BY <3>2, <4>2, <4>3, RegionIs
        <4>5. PICK refs : refs = u16(o.refcount + refcount)
          OBVIOUS
        <4>6. refs \in Counts
          BY <4>4, <4>5, CountsAre DEF Infos
        <4>7. info = [o EXCEPT !.first = f, !.refcount = refs]
          BY <2>0, <4>3, <4>5
        <4>8. info \in Infos /\ info.outset = o.outset /\ info.first = f
          BY <2>11, <4>4, <4>6, <4>7 DEF Infos
        <4>10. /\ n.regs = [k.regs EXCEPT ![r] = info] /\ n.mem = k.mem
               /\ n.old_zct = k.old_zct /\ n.new_zct = k.new_zct
          BY <2>6, <2>13 DEF Low, HeapShape
        <4> QED
          BY <3>2, <4>1, <4>2, <4>4, <4>8, <4>10, RegionSet
      <3> QED
        BY <3>1, <3>2 DEF LinksKept
    <2>16. /\ Footed(h, n) /\ FootKept(h, n) /\ FootersOf(n) = FootersOf(k)
           /\ n.fault = "none" => k.fault = "none"
      BY <2>13, <2>14, <2>15, FootSame, FootTrans DEF Footed
    <2>17. ASSUME n.fault = "none"
           PROVE  EndOK(n, h.brk, f)
      <3>1. FootersOf(n) = FootersOf(h) \cup {f}
        BY <2>10, <2>13, <2>16, <2>17
      <3>2. Clear(n, h.brk, f)
        BY <2>10, <2>11, <3>1 DEF Clear, FooterBytes, PtrBytes
      <3>3. IsFooter(n, f)
        BY <3>1 DEF FootersOf, IsFooter, Tag
      <3> QED
        BY <3>2, <3>3 DEF EndOK
    <2> QED
      BY <2>7, <2>9, <2>16, <2>17
  <1> QED
    BY <1>3, <1>4, <1>5

\* A root gets a fresh chunk, above all that was there before (evacuate_roots).
LEMMA StartRootFoot ==
    ASSUME GInv, FInv, StartRoot
    PROVE  FInv' /\ FootKept(h, h')
  <1>1. PICK P : P = PlacesOf(PendingRoots)
    OBVIOUS
  <1>2. PICK r, c, src :
          /\ r \in ev.queue
          /\ c = root_first_chunk(src, SrcEndOf(r), IF r.prov = "RemSet" THEN 1 ELSE 0)
          /\ h' = c.h
          /\ ev' = [queue |-> ev.queue \ {r}, fwd_env |-> ev.fwd_env, so_env |-> ev.so_env,
                    root |-> r, orig_src |-> src, orig_dst |-> c.dst,
                    orig_dst_end |-> c.dst_end, loc0 |-> c.loc0,
                    src |-> src, dst |-> c.dst, dst_end |-> c.dst_end,
                    inlining_underway |-> FALSE, inlining_underway_upto |-> 0,
                    burn |-> TRUE, forwarded |-> FALSE, worklist |-> <<ProcessTy>>]
    BY DEF StartRoot
  <1>3. Collecting("roots") /\ pc' = "evacuate_packed" /\ UNCHANGED var
    BY DEF StartRoot
  <1>4. RootsState(P) /\ PendingRoots = {s \in ev.queue : s.prov = "RemSet"} /\ pc = "roots"
    BY <1>1, <1>3, RootsIs
  <1>5. h.fault = "none" /\ MemOK(h.mem, P, h.brk) /\ Low(h)
    BY <1>4 DEF RootsState, FInv
  <1>6. PICK src_end, refcount : /\ src_end = SrcEndOf(r)
                                 /\ refcount = (IF r.prov = "RemSet" THEN 1 ELSE 0)
    OBVIOUS
  <1>7. /\ Footed(h, c.h) /\ FootKept(h, c.h)
        /\ c.h.fault = "none" => EndOK(c.h, c.dst, c.dst_end)
    <2>1. c = root_first_chunk(src, src_end, refcount)
      BY <1>2, <1>6
    <2>2. refcount \in Counts
      BY <1>6, CountsAre
    <2> QED
      BY <1>5, <2>1, <2>2, RootChunkFoot
  <1>8. PICK e2, q, n, ws, Q : /\ e2 = ev' /\ q = ev.queue \ {r} /\ n = c.h /\ ws = var /\ ws = var'
                               /\ Q = PlacesOf(Remembered)'
    BY <1>3
  <1>9. /\ e2.queue = q /\ e2.root = r /\ e2.dst = c.dst /\ e2.dst_end = c.dst_end
        /\ e2.worklist = <<ProcessTy>>
    BY <1>2, <1>8
  <1>10. Q = P /\ P = PlacesOf(Remembered)
    <2>1. q \cup {r} = ev.queue
      BY <1>2, <1>8
    <2>2. Remembered' = PendingRoots /\ Remembered = PendingRoots
      BY <1>3, <1>4, <1>8, <1>9, <2>1 DEF Remembered, PendingRoots
    <2> QED
      BY <1>1, <1>8, <2>2 DEF PlacesOf
  <1>11. n.fault = "none" => CopyEnds(n, e2)
    <2>1. ProcessTy.act # "RestoreSrc"
      BY DEF ProcessTy
    <2>2. Returns(<<ProcessTy>>) = {}
      BY <2>1 DEF Returns
    <2> QED
      BY <1>7, <1>8, <1>9, <2>2 DEF CopyEnds
  <1>12. ASSUME n.fault = "none"
         PROVE  /\ \A p \in Q : p \in P \/ Clear(n, p, p)
                /\ Wide => \A y \in OldWritersIn(ws) :
                             \/ /\ y \in OldWritersIn(var)
                                /\ ws[y].wptr = var[y].wptr /\ ws[y].wend = var[y].wend
                             \/ EndOK(n, ws[y].wptr, ws[y].wend)
                /\ pc' = "evacuate_packed" => CopyEnds(n, e2)
    BY <1>8, <1>10, <1>11, <1>12
  <1> QED
    BY <1>2, <1>5, <1>7, <1>8, <1>10, <1>12, StepFoot

\* Writing to the root when its copy is done leaves the footers,
LEMMA FinishedFoot ==
    ASSUME NEW P, P = PlacesOf(PendingRoots), EvacState(P), pc = "evacuate_packed", Low(h),
           PlacesClear(h, P), NEW r, r = ev.root, NEW g, g = FinishedHeap(r)
    PROVE  Footed(h, g) /\ FootKept(h, g)
  <1>1. h.fault = "none" /\ RootOK(ev, P, var, h.brk) /\ \A p \in P : p \in Nat
    BY DEF EvacState, MemOK, RememberedOK
  <1>2. CASE r.prov = "Stk"
    <2>1. g = h
      BY <1>2 DEF FinishedHeap
    <2> QED
      BY <2>1, FootRefl
  <1>3. CASE r.prov # "Stk"
    <2>1. PICK p, to, offset : p = r.ptr - 1 /\ to = ev.orig_dst /\ offset = ev.orig_dst_end - ev.orig_dst
      OBVIOUS
    <2>2. PICK from, footer : from = r.endptr /\ footer = ev.orig_dst_end
      OBVIOUS
    <2>3. PICK cell : cell = PtrCell("INDIRECTION", to, offset)
      OBVIOUS
    <2>4. PICK k : k = Store(h, p, cell)
      OBVIOUS
    <2>5. g = add_to_outset(k, from, footer)
      BY <1>3, <2>1, <2>2, <2>3, <2>4 DEF FinishedHeap
    <2>6. p \in P
      <3>1. r.prov = "RemSet"
        BY <1>1, <1>3 DEF RootOK
      <3>2. r \in PendingRoots
        BY <3>1 DEF PendingRoots
      <3> QED
        BY <2>1, <3>2 DEF PlacesOf
    <2>7. p \in Int /\ Beyond(h, p, PtrBytes)
      <3>1. p \in Int /\ Clear(h, p, p)
        BY <1>1, <2>6 DEF PlacesClear
      <3> QED
        BY <1>1, <3>1, BeyondClear
    <2>8. Footed(h, k) /\ FootKept(h, k)
      <3>1. cell.tag # "footer" /\ SizeOf(cell) = PtrBytes
        BY <2>3, PtrShape
      <3> QED
        BY <2>4, <2>7, <3>1, FootStore
    <2>9. Low(k)
      BY <2>8 DEF Footed
    <2>10. SameMemory(k, g) /\ LinksKept(k, g)
      BY <2>5, <2>9, MetadataSame, OutsetLinks DEF Low
    <2> QED
      BY <2>8, <2>9, <2>10, FootSame, FootTrans
  <1> QED
    BY <1>2, <1>3

\* and so does what is written behind the source.
LEMMA MarkedFoot ==
    ASSUME NEW g, Low(g), NEW src \in Src, NEW to, NEW e,
           NEW n, n = g \/ (src = 0 /\ n = Fail(g, "wild")) \/ (src # 0 /\ n = ForwardAt(g, src, to, e))
    PROVE  Footed(g, n) /\ FootKept(g, n)
  <1>1. CASE n = g
    BY <1>1, FootRefl
  <1>2. CASE n = Fail(g, "wild")
    <2>1. SameMemory(g, n) /\ n.fault # "none"
      BY <1>2, FailSame DEF Low
    <2> QED
      BY <2>1, FootFail
  <1>3. CASE src # 0 /\ n = ForwardAt(g, src, to, e)
    <2>1. PICK offset : offset = e - to
      OBVIOUS
    <2>2. n = Store(g, src, PtrCell("COPIED_TO", to, offset))
      BY <1>3, <2>1 DEF ForwardAt
    <2>3. src \in Int /\ heap_start <= src
      BY <1>3 DEF Src
    <2> QED
      BY <2>2, <2>3, FootForward
  <1> QED
    BY <1>1, <1>2, <1>3

\* The end of evacuate_packed: the root leads to the copy.
LEMMA FinishRootFoot ==
    ASSUME GInv, FInv, FinishRoot
    PROVE  FInv' /\ FootKept(h, h')
  <1>1. PICK P, Q : P = PlacesOf(PendingRoots) /\ Q = PlacesOf(Remembered)'
    OBVIOUS
  <1>2. Collecting("evacuate_packed") /\ pc = "evacuate_packed" /\ pc' = "roots"
    BY DEF FinishRoot, Collecting
  <1>3. EvacState(P)
    BY <1>1, <1>2, EvacIs
  <1>4. P = PlacesOf(Remembered) /\ h.fault = "none" /\ VarShape(var) /\ RootOK(ev, P, var, h.brk)
    BY <1>1, <1>2, <1>3 DEF EvacState, Remembered
  <1>5. Low(h) /\ PlacesClear(h, P)
    BY <1>4 DEF FInv
  <1>6. PICK r, g, n, ws, e2 : /\ r = ev.root /\ g = FinishedHeap(r) /\ n = h' /\ ws = var'
                               /\ e2 = ev'
    OBVIOUS
  <1>7. Footed(h, g) /\ FootKept(h, g) /\ Low(g)
    BY <1>1, <1>2, <1>3, <1>5, <1>6, FinishedFoot DEF Footed
  <1>8. PICK src, to, e : src = ev.src /\ to = ev.dst /\ e = ev.dst_end
    OBVIOUS
  <1>9. Footed(h, n) /\ FootKept(h, n)
    <2>1. n = g \/ (src = 0 /\ n = Fail(g, "wild")) \/ (src # 0 /\ n = ForwardAt(g, src, to, e))
      <3>1. h' = IF ~(MustForward(r) /\ ev.loc0) THEN g
                 ELSE IF ev.src = 0 THEN Fail(g, "wild")
                 ELSE ForwardAt(g, ev.src, ev.dst, ev.dst_end)
        BY <1>6, Zenon DEF FinishRoot, FinishedHeap
      <3> QED
        BY <1>6, <1>8, <3>1
    <2>2. src \in Src
      BY <1>4, <1>8 DEF RootOK
    <2>3. Footed(g, n) /\ FootKept(g, n)
      BY <1>7, <2>1, <2>2, MarkedFoot
    <2> QED
      BY <1>5, <1>7, <2>3, FootTrans
  <1>10. \A y \in OldWritersIn(ws) : /\ y \in OldWritersIn(var)
                                     /\ ws[y].wptr = var[y].wptr /\ ws[y].wend = var[y].wend
    <2>1. CASE r.prov = "Stk"
      <3>1. PICK x, a, b : x = r.x /\ a = ev.orig_dst /\ b = ev.orig_dst_end
        OBVIOUS
      <3>2. ReaderAt(var, x, a, b, ws)
        BY <1>6, <2>1, <3>1 DEF FinishRoot, ReaderAt
      <3>3. WritersIn(ws) = WritersIn(var)
            /\ \A y \in Var : ws[y].wptr = var[y].wptr /\ ws[y].wend = var[y].wend
        BY <1>4, <3>2, ReaderSet
      <3> QED
        BY <3>3 DEF WritersIn, OldWritersIn
    <2>2. CASE r.prov # "Stk"
      <3>1. ws = var
        BY <1>6, <2>2 DEF FinishRoot
      <3> QED
        BY <3>1
    <2> QED
      BY <2>1, <2>2
  <1>11. \A q \in Q : q \in P
    <2>1. PICK so, fwd : e2 = [queue |-> ev.queue, so_env |-> so, fwd_env |-> fwd]
      BY <1>6 DEF FinishRoot
    <2>2. e2.queue = ev.queue
      BY <2>1
    <2>3. PICK R : R = PendingRoots'
      OBVIOUS
    <2>4. R = {s \in e2.queue : s.prov = "RemSet"}
      BY <1>2, <1>6, <2>3 DEF PendingRoots
    <2>5. R \subseteq PendingRoots
      BY <1>2, <2>2, <2>4 DEF PendingRoots
    <2>6. Q = PlacesOf(R)
      BY <1>1, <1>2, <2>3 DEF Remembered, PlacesOf
    <2> QED
      BY <1>1, <2>5, <2>6 DEF PlacesOf
  <1>12. pc' # "evacuate_packed"
    BY <1>2
  <1> QED
    BY <1>1, <1>4, <1>6, <1>9, <1>10, <1>11, <1>12, StepFoot

\* A write cursor whose value was not copied gets a fresh region (restore_writers).
LEMMA RestoreWriterFoot ==
    ASSUME GInv, FInv, NEW x, RestoreWriter(x)
    PROVE  FInv' /\ FootKept(h, h')
  <1>1. PICK P, Q : P = PlacesOf(PendingRoots) /\ Q = PlacesOf(Remembered)'
    OBVIOUS
  <1>2. /\ Collecting("roots") /\ pc' = "roots" /\ UNCHANGED ev
        /\ x \in Writers /\ pc = "roots"
    BY DEF RestoreWriter, Collecting
  <1>3. RootsState(P)
    BY <1>1, <1>2, RootsIs
  <1>4. h.fault = "none" /\ VarShape(var) /\ Low(h) /\ P = PlacesOf(Remembered)
    BY <1>1, <1>2, <1>3 DEF RootsState, FInv, Remembered
  <1>5. PICK refcount, size : refcount = 0 /\ size = CHUNK_SIZE
    OBVIOUS
  <1>6. PICK c : c = FreshRegion(h, size, refcount)
    OBVIOUS
  <1>7. PICK n, ws, e2, d, e : /\ n = h' /\ ws = var' /\ e2 = ev'
                               /\ d = c.dst /\ e = c.dst_end
    OBVIOUS
  <1>8. n = c.h /\ CursorAt(var, x, d, e, ws)
    BY <1>5, <1>6, <1>7 DEF RestoreWriter, CursorAt
  <1>9. Footed(h, n) /\ FootKept(h, n) /\ (n.fault = "none" => EndOK(n, d, e))
    BY <1>4, <1>5, <1>6, <1>7, <1>8, SizesFit, FootFresh, CountsAre
  <1>10. /\ WritersIn(ws) = WritersIn(var)
         /\ x \in Var => ws[x].wptr = d /\ ws[x].wend = e
         /\ \A y \in Var \ {x} : ws[y] = var[y]
    BY <1>4, <1>8, CursorSet
  <1>11. ASSUME n.fault = "none", NEW y \in OldWritersIn(ws)
         PROVE  \/ /\ y \in OldWritersIn(var)
                   /\ ws[y].wptr = var[y].wptr /\ ws[y].wend = var[y].wend
                \/ EndOK(n, ws[y].wptr, ws[y].wend)
    <2>1. y \in Var /\ y \in WritersIn(var)
      BY <1>10 DEF OldWritersIn, WritersIn
    <2>2. CASE y = x
      BY <1>9, <1>10, <1>11, <2>1, <2>2
    <2>3. CASE y # x
      <3>1. ws[y] = var[y]
        BY <1>10, <2>1, <2>3
      <3> QED
        BY <2>1, <3>1 DEF OldWritersIn
    <2> QED
      BY <2>2, <2>3
  <1>12. Q = P
    <2>1. PICK R : R = PendingRoots' /\ R = PendingRoots
      BY <1>2 DEF PendingRoots
    <2> QED
      BY <1>1, <1>2, <2>1 DEF Remembered, PlacesOf
  <1>13. pc' # "evacuate_packed"
    BY <1>2
  <1> QED
    BY <1>1, <1>4, <1>7, <1>9, <1>11, <1>12, <1>13, StepFoot

\* A region less counted here and there.
LEMMA FreedLinks ==
    ASSUME NEW g, HeapShape(g), Linked(g), NEW f \in FootersOf(g), NEW n, n = free_region(g, f)
    PROVE  /\ Linked(n) /\ HeapShape(n) /\ n.mem = g.mem /\ n.old_zct = g.old_zct
           /\ DOMAIN n.regs = DOMAIN g.regs
  <1>1. PICK r, out : r = RegOf(g, f) /\ out = g.regs[r].outset
    OBVIOUS
  <1> DEFINE out0 == g.regs[RegOf(g, f)].outset
             q0 == [r1 \in DOMAIN g.regs |->
                      IF r1 \in out0 THEN [g.regs[r1] EXCEPT !.refcount = u16(@ - 1)] ELSE g.regs[r1]]
             zero0 == {r1 \in out0 : q0[r1].refcount = 0}
  <1>2. PICK handed : n = [g EXCEPT !.regs = q0, !.new_zct = @ \cup zero0, !.released = handed]
    BY Zenon DEF free_region
  <1>3. PICK q, zero :
          /\ q = [j \in DOMAIN g.regs |->
                    IF j \in out THEN [g.regs[j] EXCEPT !.refcount = u16(@ - 1)] ELSE g.regs[j]]
          /\ zero = {j \in out : q[j].refcount = 0}
          /\ q = q0 /\ zero = zero0
    BY <1>1, Zenon
  <1> HIDE DEF q0, zero0
  <1>4. n = [g EXCEPT !.regs = q, !.new_zct = @ \cup zero, !.released = handed]
    BY <1>2, <1>3
  <1>5. /\ HeapShape(n) /\ n.mem = g.mem /\ n.old_zct = g.old_zct /\ n.regs = q
        /\ n.new_zct = g.new_zct \cup zero
    BY <1>4 DEF HeapShape
  <1>6. r \in DOMAIN g.regs
    BY <1>1 DEF Linked, RegOf
  <1>7. out \subseteq DOMAIN g.regs
    BY <1>1, <1>6 DEF Linked
  <1>8. ASSUME NEW j \in DOMAIN g.regs
        PROVE  q[j] \in Infos /\ q[j].outset = g.regs[j].outset /\ q[j].first = g.regs[j].first
    <2>1. PICK o : o = g.regs[j]
      OBVIOUS
    <2>2. o \in Infos
      BY <2>1, RegionIs
    <2>3. PICK k : k = u16(o.refcount - 1)
      OBVIOUS
    <2>4. k \in Counts
      BY <2>2, <2>3, CountsAre DEF Infos
    <2>5. q[j] = o \/ q[j] = [o EXCEPT !.refcount = k]
      BY <1>3, <2>1, <2>3
    <2> QED
      BY <2>1, <2>2, <2>4, <2>5 DEF Infos
  <1>9. DOMAIN q = DOMAIN g.regs
    BY <1>3
  <1>10. q \in Seq(Infos)
    <2>1. PICK s : s = g.regs
      OBVIOUS
    <2>2. s \in Seq(Infos)
      BY <2>1 DEF Linked
    <2>3. DOMAIN s = 1 .. Len(s) /\ Len(s) \in Nat
      BY <2>2
    <2>4. PICK l \in Nat : l = Len(s)
      BY <2>3
    <2>5. q \in [1 .. l -> Infos]
      BY <1>3, <1>8, <1>9, <2>1, <2>3, <2>4
    <2> QED
      BY <2>4, <2>5, SeqDef
  <1>11. FootersOf(n) = FootersOf(g)
    BY <1>5 DEF FootersOf
  <1>12. \A j \in DOMAIN q : q[j].outset \subseteq DOMAIN q /\ q[j].first \in FootersOf(n)
    BY <1>8, <1>9, <1>11 DEF Linked
  <1>13. n.old_zct \cup n.new_zct \subseteq DOMAIN q
    BY <1>3, <1>5, <1>7, <1>9 DEF Linked
  <1>14. \A x \in FootersOf(n) : /\ n.mem[x].reg_info \in DOMAIN q
                                 /\ n.mem[x].next = 0 \/ n.mem[x].next \in FootersOf(n)
    BY <1>5, <1>9, <1>11 DEF Linked
  <1> QED
    BY <1>5, <1>9, <1>10, <1>12, <1>13, <1>14 DEF Linked

\* The zero-count table is swept one region at a time, in some order.
Visited(r, g) ==
    IF g.regs[r].refcount = 0 /\ r \notin g.new_zct
    THEN free_region(g, g.regs[r].first) ELSE g
\* The sweep of a heap's zero-count table, as a function of the entries left.
One(s) == CHOOSE x \in s : TRUE
SweptTo(f, g, D) == f = [s \in D |-> IF s = {} THEN g ELSE Visited(One(s), f[s \ {One(s)}])]
UpTo(S, n) == {s \in SUBSET S : Cardinality(s) <= n}

Sweep(g) == CHOOSE f : SweptTo(f, g, SUBSET g.old_zct)

\* There is such a sweep of every size.
LEMMA SweepExists ==
    ASSUME NEW S, IsFiniteSet(S), NEW g, NEW n \in Nat
    PROVE  \E f : SweptTo(f, g, UpTo(S, n))
  <1>1. PICK T : T = {m \in Nat : ~ \E f : SweptTo(f, g, UpTo(S, m))}
    OBVIOUS
  <1>2. \A s \in SUBSET S : IsFiniteSet(s) /\ Cardinality(s) \in Nat /\ (Cardinality(s) = 0 <=> s = {})
    BY FS_Subset, FS_CardinalityType, FS_EmptySet
  <1>3. ASSUME NEW s \in SUBSET S, s # {}
        PROVE  /\ One(s) \in s /\ s \ {One(s)} \in SUBSET S
               /\ Cardinality(s \ {One(s)}) = Cardinality(s) - 1
    <2>1. One(s) \in s
      BY <1>3 DEF One
    <2> QED
      BY <1>2, <2>1, FS_RemoveElement
  <1>4. ASSUME T # {} PROVE FALSE
    <2>1. T \in SUBSET Nat
      BY <1>1
    <2>2. PICK x \in T : \A y \in T : x <= y
      BY <1>4, <2>1, Least
    <2>3. x \in Nat /\ ~ \E f : SweptTo(f, g, UpTo(S, x))
      BY <1>1, <2>2
    <2>4. x # 0
      <3>1. PICK f : f = [s \in UpTo(S, 0) |-> g]
        OBVIOUS
      <3>2. \A s \in UpTo(S, 0) : s = {}
        BY <1>2 DEF UpTo
      <3>3. f = [s \in UpTo(S, 0) |-> IF s = {} THEN g ELSE Visited(One(s), f[s \ {One(s)}])]
        BY <3>1, <3>2
      <3>4. SweptTo(f, g, UpTo(S, 0))
        BY <3>3, Zenon DEF SweptTo
      <3> QED
        BY <2>3, <3>4
    <2>5. x - 1 \in Nat /\ ~(x <= x - 1)
      BY <2>3, <2>4
    <2>6. PICK f : SweptTo(f, g, UpTo(S, x - 1))
      BY <1>1, <2>2, <2>5
    <2>7. PICK A, B : A = UpTo(S, x) /\ B = UpTo(S, x - 1)
      OBVIOUS
    <2>8. \A s \in A : s # {} => s \ {One(s)} \in B
      BY <1>2, <1>3, <2>3, <2>7 DEF UpTo
    <2>9. PICK k : k = [s \in A |-> IF s \in B THEN f[s]
                                   ELSE IF s = {} THEN g ELSE Visited(One(s), f[s \ {One(s)}])]
      OBVIOUS
    <2>10. B \subseteq A
      BY <1>2, <2>3, <2>7 DEF UpTo
    <2>11. \A s \in B : k[s] = f[s]
      BY <2>9, <2>10
    <2>12. \A s \in B : f[s] = IF s = {} THEN g ELSE Visited(One(s), f[s \ {One(s)}])
      BY <2>6, <2>7, Zenon DEF SweptTo
    <2>13. ASSUME NEW s \in A
           PROVE  k[s] = IF s = {} THEN g ELSE Visited(One(s), k[s \ {One(s)}])
      <3>1. k[s] = IF s = {} THEN g ELSE Visited(One(s), f[s \ {One(s)}])
        BY <2>9, <2>12
      <3>2. s # {} => f[s \ {One(s)}] = k[s \ {One(s)}]
        BY <2>8, <2>11
      <3> QED
        BY <3>1, <3>2
    <2>14. k = [s \in A |-> IF s = {} THEN g ELSE Visited(One(s), k[s \ {One(s)}])]
      BY <2>9, <2>13
    <2>15. SweptTo(k, g, A)
      BY <2>14, Zenon DEF SweptTo
    <2> QED
      BY <2>3, <2>7, <2>15
  <1> QED
    BY <1>1, <1>4

LEMMA SweepIs ==
    ASSUME NEW g, NEW n, n = collect_regions(g), NEW w, w = Sweep(g)[g.old_zct]
    PROVE  n = [g EXCEPT !.regs = w.regs, !.released = w.released, !.old_zct = w.new_zct, !.new_zct = {}]
  BY Zenon DEF collect_regions, FoldSet, MapThenFoldSet, Sweep, SweptTo, One, Visited

\* What is freed is metadata that other metadata leads to (collect_regions).
LEMMA CollectLinks ==
    ASSUME NEW g, HeapShape(g), Linked(g), NEW n, n = collect_regions(g)
    PROVE  Linked(n)
  <1>1. PICK S : S = g.old_zct
    OBVIOUS
  <1>2. IsFiniteSet(S)
    <2>1. PICK s : s = g.regs
      OBVIOUS
    <2>2. s \in Seq(Infos)
      BY <2>1 DEF Linked
    <2>3. DOMAIN s = 1 .. Len(s) /\ Len(s) \in Nat
      BY <2>2
    <2>4. PICK l \in Nat : l = Len(s)
      BY <2>3
    <2>5. S \subseteq 1 .. l
      BY <1>1, <2>1, <2>3, <2>4 DEF Linked
    <2>6. IsFiniteSet(1 .. l)
      BY FS_Interval
    <2> QED
      BY <2>5, <2>6, FS_Subset
  <1>3. PICK N \in Nat : N = Cardinality(S)
    BY <1>2, FS_CardinalityType
  <1>4. UpTo(S, N) = SUBSET S
    BY <1>2, <1>3, FS_Subset DEF UpTo
  <1>5. PICK f : f = Sweep(g)
    OBVIOUS
  <1>6. SweptTo(f, g, SUBSET S)
    <2>1. \E f1 : SweptTo(f1, g, UpTo(S, N))
      BY <1>2, SweepExists
    <2>2. \E f1 : SweptTo(f1, g, SUBSET S)
      BY <1>4, <2>1, Zenon
    <2> QED
      BY <1>1, <1>5, <2>2, Zenon DEF Sweep
  <1> DEFINE OK(k) == /\ Linked(k) /\ HeapShape(k) /\ k.mem = g.mem /\ k.old_zct = g.old_zct
                      /\ DOMAIN k.regs = DOMAIN g.regs
  <1>7. ASSUME NEW k, OK(k), NEW r \in S
        PROVE  OK(Visited(r, k))
    <2>1. k.regs[r].first \in FootersOf(k)
      BY <1>1, <1>7 DEF Linked
    <2> QED
      BY <1>7, <2>1, FreedLinks DEF Visited
  <1>8. PICK T : T = {m \in Nat : ~ \A s \in UpTo(S, m) : OK(f[s])}
    OBVIOUS
  <1> HIDE DEF OK
  <1>9. \A s \in SUBSET S : IsFiniteSet(s) /\ Cardinality(s) \in Nat
    BY <1>2, FS_Subset, FS_CardinalityType
  <1>10. ASSUME T # {} PROVE FALSE
    <2>1. T \in SUBSET Nat
      BY <1>8
    <2>2. PICK x \in T : \A y \in T : x <= y
      BY <1>10, <2>1, Least
    <2>3. PICK s \in SUBSET S : x \in Nat /\ Cardinality(s) <= x /\ ~OK(f[s])
      BY <1>8, <2>2 DEF UpTo
    <2>4. f[s] = IF s = {} THEN g ELSE Visited(One(s), f[s \ {One(s)}])
      BY <1>6, Zenon DEF SweptTo
    <2>5. CASE s = {}
      BY <2>3, <2>4, <2>5 DEF OK
    <2>6. CASE s # {}
      <3>1. One(s) \in s
        BY <2>6 DEF One
      <3>2. PICK t : t = s \ {One(s)}
        OBVIOUS
      <3>3. t \in SUBSET S /\ Cardinality(t) = Cardinality(s) - 1
        BY <1>9, <3>1, <3>2, FS_RemoveElement
      <3>4. x - 1 \in Nat /\ ~(x <= x - 1) /\ t \in UpTo(S, x - 1)
        BY <1>9, <2>3, <3>3 DEF UpTo
      <3>5. OK(f[t])
        BY <1>8, <2>2, <3>4
      <3> QED
        BY <1>7, <2>3, <2>4, <2>6, <3>1, <3>2, <3>5
    <2> QED
      BY <2>5, <2>6
  <1>11. PICK w : w = f[g.old_zct] /\ w = f[S]
    BY <1>1
  <1>12. OK(w)
    <2>1. S \in UpTo(S, N)
      BY <1>3 DEF UpTo
    <2> QED
      BY <1>8, <1>10, <1>11, <2>1
  <1>13. n = [g EXCEPT !.regs = w.regs, !.released = w.released, !.old_zct = w.new_zct, !.new_zct = {}]
    BY <1>5, <1>11, SweepIs
  <1>14. n.mem = w.mem /\ n.regs = w.regs /\ n.old_zct = w.new_zct /\ n.new_zct = {}
    BY <1>12, <1>13 DEF HeapShape, OK
  <1>15. Linked(w) /\ FootersOf(n) = FootersOf(w)
    BY <1>12, <1>14 DEF FootersOf, OK
  <1> QED
    BY <1>14, <1>15 DEF Linked

\* The nursery is emptied; the footers are outside it.
LEMMA CollectRegionsFoot ==
    ASSUME GInv, FInv, CollectRegions
    PROVE  FInv' /\ FootKept(h, h')
  <1>1. PICK P, Q : P = PlacesOf(PendingRoots) /\ Q = PlacesOf(Remembered)'
    OBVIOUS
  <1>2. /\ Collecting("roots") /\ pc' = "resume" /\ UNCHANGED <<var, ev>> /\ ev.queue = {}
        /\ pc = "roots"
    BY DEF CollectRegions, Collecting
  <1>3. h.fault = "none" /\ Low(h) /\ P = PlacesOf(Remembered)
    BY <1>1, <1>2 DEF FInv, Remembered, Collecting
  <1>4. FootersOK(h) /\ HeapShape(h) /\ h.brk \in Nat /\ h.brk <= heap_start
    BY <1>3, Layout DEF Low, FootersOK, BrkOK
  <1>5. PICK m : m = [a \in OldAddresses |-> h.mem[a]]
    OBVIOUS
  <1>6. DOMAIN m \subseteq DOMAIN h.mem /\ \A a \in DOMAIN m : m[a] = h.mem[a]
    BY <1>5 DEF OldAddresses
  <1>7. PICK g : g = [h EXCEPT !.rem_set = {}, !.alloc = heap_end, !.mem = m]
    OBVIOUS
  <1>8. /\ HeapShape(g) /\ g.mem = m /\ g.brk = h.brk /\ g.fault = "none"
        /\ SameInfo(h, g)
    BY <1>3, <1>4, <1>7 DEF HeapShape, SameInfo
  <1>9. FootersOf(g) = FootersOf(h) /\ \A f \in FootersOf(h) : g.mem[f] = h.mem[f]
    <2>1. ASSUME NEW f \in FootersOf(h)
          PROVE  f \in FootersOf(g) /\ g.mem[f] = h.mem[f]
      <3>1. f \in DOMAIN h.mem /\ h.mem[f].tag = "footer" /\ f + FooterBytes <= h.brk /\ f \in Nat
        BY <1>4 DEF FootersOf, FootersOK
      <3>2. ~contains_addr(f)
        BY <1>4, <3>1, Layout DEF contains_addr, FooterBytes
      <3>3. f \in OldAddresses
        BY <3>1, <3>2 DEF OldAddresses
      <3> QED
        BY <1>5, <1>8, <3>1, <3>3 DEF FootersOf
    <2>2. FootersOf(g) \subseteq FootersOf(h)
      BY <1>6, <1>8 DEF FootersOf
    <2> QED
      BY <2>1, <2>2
  <1>10. Footed(h, g) /\ FootKept(h, g) /\ Low(g)
    <2>1. FootersOK(g)
      BY <1>4, <1>8, <1>9 DEF FootersOK
    <2>2. LinksKept(h, g)
      BY <1>8, <1>9, SameLinks
    <2> QED
      BY <1>3, <1>4, <1>8, <1>9, <2>1, <2>2 DEF Footed, FootKept, Low
  <1>11. PICK n : n = h'
    OBVIOUS
  <1>12. n = collect_regions(g)
    BY <1>5, <1>7, <1>11 DEF CollectRegions
  <1>13. SameMemory(g, n)
    BY <1>8, <1>12, CollectRegionsSame
  <1>14. Footed(h, n) /\ FootKept(h, n)
    <2>1. LinksKept(g, n)
      BY <1>8, <1>12, CollectLinks DEF LinksKept
    <2> QED
      BY <1>3, <1>10, <1>13, <2>1, FootSame, FootTrans
  <1>15. PICK e2, ws : e2 = ev' /\ ws = var /\ ws = var'
    BY <1>2
  <1>16. Q = P
    <2>1. PICK R : R = PendingRoots' /\ R = PendingRoots
      BY <1>2 DEF PendingRoots
    <2> QED
      BY <1>1, <1>2, <2>1 DEF Remembered, PlacesOf
  <1>17. pc' # "evacuate_packed"
    BY <1>2
  <1>18. \A y \in OldWritersIn(ws) : /\ y \in OldWritersIn(var)
                                     /\ ws[y].wptr = var[y].wptr /\ ws[y].wend = var[y].wend
    BY <1>15
  <1> QED
    BY <1>1, <1>3, <1>11, <1>14, <1>15, <1>16, <1>17, <1>18, StepFoot

\* The allocation that asked for the collection (gib_alloc_region).
LEMMA ResumeFoot ==
    ASSUME GInv, FInv, Resume
    PROVE  FInv' /\ FootKept(h, h')
  <1>1. pc = "resume" /\ h.fault = "none" /\ pc' = "mutator"
    BY DEF Resume, Collecting
  <1>2. Good /\ HeapShape(h) /\ VarShape(var) /\ Low(h)
    BY <1>1 DEF GInv, FInv
  <1>3. ev.queue = {} /\ h.rem_set = {} /\ request.x \in Var /\ request.size \in RegionSizes
    BY <1>1, <1>2 DEF Good
  <1>4. Remembered = {} /\ PlacesOf({}) = {}
    BY <1>1, <1>3 DEF Remembered, PendingRoots, PlacesOf
  <1>5. HeapOK(h, {}) /\ h.alloc \in heap_start .. heap_end
    BY <1>2, <1>4 DEF Good
  <1>6. PICK size, x, n, ws, e2 : size = request.size /\ x = request.x /\ n = h' /\ ws = var' /\ e2 = ev'
    OBVIOUS
  <1>7. PICK P, Q : P = PlacesOf(Remembered) /\ Q = PlacesOf(Remembered)'
    OBVIOUS
  <1>8. pc' # "evacuate_packed"
    BY <1>1
  <1>9. CASE Fits(size)
    <2>1. n = NurseryChunk(size)
      BY <1>6, <1>9 DEF Resume
    <2>2. /\ n.rem_set = {} /\ contains_addr(h.alloc - size - NurseryFooterBytes)
      BY <1>1, <1>3, <1>5, <1>6, <1>9, <2>1, NurseryChunkOK
    <2>3. Footed(h, n) /\ FootKept(h, n)
      BY <1>1, <1>2, <1>3, <1>5, <1>6, <1>9, <2>1, NurseryFoot
    <2>4. PICK a, e : a = h.alloc - size - NurseryFooterBytes /\ e = h.alloc - NurseryFooterBytes
      OBVIOUS
    <2>5. PICK w : w = [ptr |-> 0, endptr |-> 0, wptr |-> a, wend |-> e, todo |-> 1]
      OBVIOUS
    <2>6. Assigned(var, x, w, ws)
      <3>1. ws = OpenRegion(x, a, e)
        BY <1>6, <2>4 DEF Resume
      <3>2. [Unused EXCEPT !.wptr = a, !.wend = e, !.todo = 1] = w
        BY <2>5, OpenRecord
      <3> QED
        BY <3>1, <3>2 DEF OpenRegion, Assigned
    <2>7. ws[x] = w /\ \A y \in Var \ {x} : ws[y] = var[y]
      <3>1. RecShape(w)
        BY <2>5 DEF RecShape
      <3>2. Put(var, x, w, ws)
        BY <1>2, <2>6, <3>1, PutShape
      <3> QED
        BY <1>3, <1>6, <3>2 DEF Put
    <2>8. \A y \in OldWritersIn(ws) : /\ y \in OldWritersIn(var)
                                      /\ ws[y].wptr = var[y].wptr /\ ws[y].wend = var[y].wend
      <3>1. x \notin OldWritersIn(ws)
        BY <2>2, <2>4, <2>5, <2>7 DEF OldWritersIn
      <3> QED
        BY <2>7, <3>1 DEF OldWritersIn, WritersIn
    <2>9. Q = {}
      <3>1. Remembered' = {}
        BY <1>1, <1>6, <2>2 DEF Remembered
      <3> QED
        BY <1>7, <3>1 DEF PlacesOf
    <2> QED
      BY <1>1, <1>6, <1>7, <1>8, <2>3, <2>8, <2>9, StepFoot
  <1>10. CASE ~Fits(size)
    <2>1. n = Fail(h, "exit: no space")
      BY <1>6, <1>10 DEF Resume
    <2>2. SameMemory(h, n) /\ n.fault # "none"
      BY <1>2, <2>1, FailSame
    <2>3. Footed(h, n) /\ FootKept(h, n)
      BY <1>2, <2>2, FootFail
    <2> QED
      BY <1>1, <1>6, <1>7, <2>2, <2>3, StepFoot
  <1> QED
    BY <1>9, <1>10

\* Cauterizing the writers in the nursery leaves the footers (cauterize_writers).
LEMMA CauterizedFoot ==
    ASSUME Low(h), h.fault = "none", NEW m, m = cauterize_writers(h.mem),
           \A b \in DOMAIN h.mem : h.mem[b].tag = "footer" => SizeOf(h.mem[b]) = FooterBytes,
           NEW n, HeapShape(n), n.mem = m, n.brk = h.brk, n.fault = h.fault,
           SameInfo(h, n)
    PROVE  Footed(h, n) /\ FootKept(h, n)
  <1> DEFINE young == {x \in Writers : contains_addr(var[x].wptr)}
             at == {var[x].wptr : x \in young}
             hit == {b \in DOMAIN h.mem : \E a \in at : b < a + PtrBytes /\ a < b + SizeOf(h.mem[b])}
  <1>0. m = [b \in (DOMAIN h.mem \ hit) \cup at |->
               IF b \in at THEN CauterizedCell(CHOOSE x \in young : var[x].wptr = b) ELSE h.mem[b]]
    BY Zenon DEF cauterize_writers
  <1>1. young = {x \in Writers : contains_addr(var[x].wptr)}
    OBVIOUS
  <1>2. at = {var[x].wptr : x \in young}
    OBVIOUS
  <1>3. hit = {b \in DOMAIN h.mem : \E a \in at : b < a + PtrBytes /\ a < b + SizeOf(h.mem[b])}
    OBVIOUS
  <1> HIDE DEF young, at, hit
  <1>4. \A a \in at : a \in Int /\ heap_start <= a
    BY <1>1, <1>2, Layout DEF contains_addr
  <1>5. FootersOK(h) /\ h.brk \in Nat /\ h.brk < heap_start
    BY Layout DEF Low, FootersOK, BrkOK
  <1>6. ASSUME NEW f \in FootersOf(h)
        PROVE  f \in FootersOf(n) /\ n.mem[f] = h.mem[f]
    <2>1. f \in DOMAIN h.mem /\ h.mem[f].tag = "footer" /\ f + FooterBytes <= h.brk /\ f \in Nat
      BY <1>5 DEF FootersOf, FootersOK
    <2>2. SizeOf(h.mem[f]) = FooterBytes
      BY <2>1
    <2>3. f \notin at /\ f \notin hit
      BY <1>3, <1>4, <1>5, <2>1, <2>2, Layout DEF FooterBytes
    <2>4. m[f] = h.mem[f] /\ f \in DOMAIN m
      BY <1>0, <2>1, <2>3
    <2> QED
      BY <2>1, <2>4 DEF FootersOf
  <1>7. ASSUME NEW f \in FootersOf(n)
        PROVE  f \in FootersOf(h)
    <2>1. f \in DOMAIN m /\ m[f].tag = "footer"
      BY <1>7 DEF FootersOf
    <2>2. CASE f \in at
      <3>1. PICK x : m[f] = CauterizedCell(x)
        BY <1>0, <2>1, <2>2
      <3>2. m[f].tag = "CAUTERIZED"
        BY <3>1 DEF CauterizedCell
      <3> QED
        BY <2>1, <3>2
    <2>3. CASE f \notin at
      <3>1. f \in DOMAIN h.mem /\ m[f] = h.mem[f]
        BY <1>0, <2>1, <2>3
      <3> QED
        BY <2>1, <3>1 DEF FootersOf
    <2> QED
      BY <2>2, <2>3
  <1>8. FootersOf(n) = FootersOf(h) /\ \A f \in FootersOf(h) : n.mem[f] = h.mem[f]
    BY <1>6, <1>7
  <1>9. FootersOK(n)
    BY <1>5, <1>8 DEF FootersOK
  <1>10. LinksKept(h, n)
    BY <1>8, SameLinks
  <1> QED
    BY <1>5, <1>8, <1>9, <1>10 DEF Footed, FootKept, Low

\* The collection begins: the remembered set becomes roots (garbage_collect).
LEMMA StartCollectionFoot ==
    ASSUME GInv, FInv, NEW x \in Var, NEW size \in RegionSizes, StartCollection(x, size)
    PROVE  FInv' /\ FootKept(h, h')
  <1>1. PICK P, Q : P = PlacesOf(h.rem_set) /\ Q = PlacesOf(Remembered)'
    OBVIOUS
  <1>2. /\ Mutating /\ pc' = "roots" /\ UNCHANGED var
        /\ h' = [h EXCEPT !.mem = cauterize_writers(h.mem)]
        /\ ev' = [queue |-> Roots, fwd_env |-> <<>>, so_env |-> <<>>]
    BY DEF StartCollection, Mutating
  <1>3. /\ h.fault = "none" /\ HeapShape(h) /\ MemOK(h.mem, P, h.brk) /\ Low(h)
        /\ IsFiniteSet(h.rem_set) /\ Apart(h.rem_set) /\ VarShape(var) /\ P = PlacesOf(Remembered)
    BY <1>1, <1>2, MutatorIs DEF FInv, Mutating, Remembered
  <1>4. PICK m : m = cauterize_writers(h.mem)
    OBVIOUS
  <1>5. PICK n, ws, e2 : n = h' /\ ws = var /\ ws = var' /\ e2 = ev'
    BY <1>2
  <1>6. HeapShape(n) /\ n.mem = m /\ n.brk = h.brk /\ n.fault = h.fault /\ SameInfo(h, n)
    BY <1>2, <1>3, <1>4, <1>5 DEF HeapShape, SameInfo
  <1>7. Footed(h, n) /\ FootKept(h, n)
    <2>1. \A b \in DOMAIN h.mem : h.mem[b].tag = "footer" => SizeOf(h.mem[b]) = FooterBytes
      BY DEF SizeOf
    <2> QED
      BY <1>3, <1>4, <1>6, <2>1, CauterizedFoot
  <1>8. Q = P
    <2>1. PICK R : R = {r \in Roots : r.prov = "RemSet"}
      OBVIOUS
    <2>2. Remembered' = R
      BY <1>2, <2>1 DEF Remembered, PendingRoots
    <2>3. PlacesOf(R) = P
      BY <1>1, <1>3, <2>1, RootsAre
    <2> QED
      BY <1>1, <2>2, <2>3 DEF PlacesOf
  <1>9. pc' # "evacuate_packed"
    BY <1>2
  <1>10. \A y \in OldWritersIn(ws) : /\ y \in OldWritersIn(var)
                                     /\ ws[y].wptr = var[y].wptr /\ ws[y].wend = var[y].wend
    BY <1>5
  <1> QED
    BY <1>1, <1>3, <1>5, <1>7, <1>8, <1>9, <1>10, StepFoot

\* There is no footer yet.
LEMMA FootInit == Init => FInv
  <1> SUFFICES ASSUME Init PROVE FInv
    OBVIOUS
  <1>1. /\ HeapShape(h) /\ h.mem = <<>> /\ h.brk = OldBase
        /\ h.rem_set = {} /\ h.fault = "none" /\ pc = "mutator"
    BY DEF Init, HeapShape
  <1>2. WritersIn(var) = {}
    BY DEF Init, WritersIn, Unused
  <1>3. FootersOf(h) = {}
    BY <1>1 DEF FootersOf
  <1>4. Low(h)
    BY <1>1, <1>3, Layout DEF Low, FootersOK, BrkOK
  <1>5. PlacesClear(h, PlacesOf(Remembered))
    BY <1>1 DEF PlacesClear, Remembered, PlacesOf
  <1>6. WritersEnd(h, var)
    BY <1>2 DEF WritersEnd, OldWritersIn
  <1> QED
    BY <1>1, <1>4, <1>5, <1>6 DEF FInv

\* Every iteration of evacuate_packed keeps the footers.
LEMMA EvacuateFoot ==
    ASSUME GInv, FInv, Evacuate
    PROVE  FInv' /\ FootKept(h, h')
  <1>1. CASE SkipOldRoot
    BY <1>1, SkipOldRootFoot
  <1>2. CASE evacuate_copied
    BY <1>2, EvacuateCopiedFoot
  <1>3. CASE StartRoot
    BY <1>3, StartRootFoot
  <1>4. CASE RestoreSource
    BY <1>4, RestoreSourceFoot
  <1>5. CASE WriteSkipover
    BY <1>5, WriteSkipoverFoot
  <1>6. CASE Uncauterize
    BY <1>6, UncauterizeFoot
  <1>7. CASE PointToCopy
    BY <1>7, PointToCopyFoot
  <1>8. CASE InlineIndirection
    BY <1>8, InlineIndirectionFoot
  <1>9. CASE KeepIndirection
    BY <1>9, KeepIndirectionFoot
  <1>10. CASE AbortInlining
    BY <1>10, AbortInliningFoot
  <1>11. CASE ReconcileRegions
    BY <1>11, ReconcileRegionsFoot
  <1>12. CASE CopyConstructor
    BY <1>12, CopyConstructorFoot
  <1>13. CASE FinishRoot
    BY <1>13, FinishRootFoot
  <1> QED
    BY <1>1, <1>2, <1>3, <1>4, <1>5, <1>6, <1>7, <1>8, <1>9, <1>10, <1>11, <1>12, <1>13 DEF Evacuate

\* A step keeps the footers if it is the collector's, and otherwise if what is checked
\* for is enough.
FootStep == (pc # "mutator" \/ pc' # "mutator" \/ Wide) => FootKept(h, h')

\* A stuttering step does.
LEMMA StutterFoot ==
    ASSUME FInv, UNCHANGED vars
    PROVE  FInv' /\ FootStep
  BY DEF vars, FInv, Remembered, PendingRoots, FootStep, FootKept, LinksKept

\* Every step does.
LEMMA NextFoot ==
    ASSUME GInv, FInv, Next
    PROVE  FInv' /\ FootStep
  <1>1. ASSUME NEW x \in Var, NEW size \in RegionSizes, AllocFast(x, size)
        PROVE  FInv' /\ FootStep
    <2>1. pc = "mutator" /\ pc' = "mutator"
      BY <1>1 DEF AllocFast, Mutating
    <2> QED
      BY <1>1, <2>1, AllocFastFoot DEF FootStep
  <1>2. ASSUME NEW x \in Var, NEW size \in RegionSizes, AllocOnHeap(x, size)
        PROVE  FInv' /\ FootStep
    <2>1. pc = "mutator" /\ pc' = "mutator"
      BY <1>2 DEF AllocOnHeap, Mutating
    <2> QED
      BY <1>2, <2>1, AllocOnHeapFoot DEF FootStep
  <1>3. ASSUME NEW x \in Var, NEW size \in RegionSizes, StartCollection(x, size)
        PROVE  FInv' /\ FootStep
    BY <1>3, StartCollectionFoot DEF FootStep
  <1>4. ASSUME NEW x \in Var, NEW con \in Con, NEW b \in BOOLEAN, WriteCon(x, con, b)
        PROVE  FInv' /\ FootStep
    <2>1. pc = "mutator" /\ pc' = "mutator"
      BY <1>4 DEF WriteCon, Mutating
    <2> QED
      BY <1>4, <2>1, WriteConFoot DEF FootStep
  <1>5. ASSUME NEW x \in Var, NEW y \in Var, NEW b \in BOOLEAN, WriteIndirection(x, y, b)
        PROVE  FInv' /\ FootStep
    <2>1. pc = "mutator" /\ pc' = "mutator"
      BY <1>5 DEF WriteIndirection, Mutating
    <2> QED
      BY <1>5, <2>1, WriteIndirectionFoot DEF FootStep
  <1>6. ASSUME NEW x \in Var, NEW y \in Var, NEW i \in 1 .. Fuel, ReadPart(x, y, i)
        PROVE  FInv' /\ FootStep
    <2>1. pc = "mutator" /\ pc' = "mutator"
      BY <1>6 DEF ReadPart, Mutating
    <2> QED
      BY <1>6, <2>1, ReadPartFoot DEF FootStep
  <1>7. ASSUME NEW x \in Var, Drop(x)
        PROVE  FInv' /\ FootStep
    <2>1. pc = "mutator" /\ pc' = "mutator"
      BY <1>7 DEF Drop, Mutating
    <2> QED
      BY <1>7, <2>1, DropFoot DEF FootStep
  <1>8. ASSUME NEW x \in Var, RestoreWriter(x)
        PROVE  FInv' /\ FootStep
    BY <1>8, RestoreWriterFoot DEF FootStep
  <1>9. CASE Evacuate
    BY <1>9, EvacuateFoot DEF FootStep
  <1>10. CASE CollectRegions
    BY <1>10, CollectRegionsFoot DEF FootStep
  <1>11. CASE Resume
    BY <1>11, ResumeFoot DEF FootStep
  <1> QED
    BY <1>1, <1>2, <1>3, <1>4, <1>5, <1>6, <1>7, <1>8, <1>9, <1>10, <1>11 DEF Next

\* In every reachable state the footers of the old generation have their fields and lie
\* below what malloc has handed out, what is remembered is clear of them, and every end
\* that the copy is given or goes back to is one (check_bounds, evacuate_packed), as
\* long as an inlining that is undone finds room for its indirection.
THEOREM FootersAreClear == Spec /\ []UndoneInPlace => []FInv
  <1>1. Spec /\ []UndoneInPlace => []GInv
    BY InvariantHolds
  <1>2. Init => FInv
    BY FootInit
  <1>3. GInv /\ FInv /\ [Next]_vars => FInv'
    BY NextFoot, StutterFoot
  <1> QED
    BY <1>1, <1>2, <1>3, PTL DEF Spec

\* On the same condition the collector never writes over the footer of a chunk, whatever
\* it copies, inlines or redirects, and whatever the type (check_bounds, evacuate_packed,
\* evacuate_packed_simpl, allocate_next_chunk).  Without it the copy goes on beyond
\* dst_end with nothing to stop it.
THEOREM CollectorLeavesFooters == Spec /\ []UndoneInPlace => CollectorKeepsFooters
  <1>1. Spec /\ []UndoneInPlace => []GInv
    BY InvariantHolds
  <1>2. Spec /\ []UndoneInPlace => []FInv
    BY FootersAreClear
  <1>3. GInv /\ FInv /\ [Next]_vars
          => [pc # "mutator" \/ pc' # "mutator" => KeepsFooters]_vars
    BY NextFoot, KeptIs DEF FootStep
  <1> QED
    BY <1>1, <1>2, <1>3, PTL DEF Spec, CollectorKeepsFooters

\* If the bounds check of a function that writes an indirection asks for what an
\* indirection and a redirection take, the program does not either, on that condition of
\* the collections before; the boundsCheck of
\* the compiler asks for that only if the type has enough scalars.
THEOREM ProgramLeavesFooters == ASSUME Wide PROVE Spec /\ []UndoneInPlace => FootersIntact
  <1>1. Spec /\ []UndoneInPlace => []GInv
    BY InvariantHolds
  <1>2. Spec /\ []UndoneInPlace => []FInv
    BY FootersAreClear
  <1>3. GInv /\ FInv /\ [Next]_vars => [KeepsFooters]_vars
    BY NextFoot, KeptIs DEF FootStep
  <1> QED
    BY <1>1, <1>2, <1>3, PTL DEF Spec, FootersIntact

\* Then every end that gib_grow_region or check_bounds is given in the old generation
\* is a footer, also after an inlining is undone in its place, with the end of before.
THEOREM GrowthFindsFooters == ASSUME Wide PROVE Spec /\ []UndoneInPlace => []EndsAreFooters
  <1>1. Spec /\ []UndoneInPlace => []FInv
    BY FootersAreClear
  <1>2. FInv => EndsAreFooters
    <2> SUFFICES ASSUME FInv, h.fault = "none"
                 PROVE  /\ \A x \in Writers : ~contains_addr(var[x].wptr) => IsFooter(h, var[x].wend)
                        /\ pc = "evacuate_packed" /\ ev.worklist # <<>> => IsFooter(h, ev.dst_end)
      BY DEF EndsAreFooters
    <2>1. WritersEnd(h, var) /\ (pc = "evacuate_packed" => CopyEnds(h, ev))
      BY DEF FInv
    <2> QED
      BY <2>1 DEF WritersEnd, OldWritersIn, Writers, WritersIn, CopyEnds, EndOK
  <1> QED
    BY <1>1, <1>2, PTL

\* A program that has stopped takes no step.
LEMMA StoppedStays == Next => h.fault = "none"
  <1>1. ASSUME NEW x \in Var, NEW size \in RegionSizes,
               AllocFast(x, size) \/ AllocOnHeap(x, size) \/ StartCollection(x, size)
        PROVE  h.fault = "none"
    BY <1>1 DEF AllocFast, AllocOnHeap, StartCollection, Mutating
  <1>2. ASSUME NEW x \in Var, NEW con \in Con, NEW b \in BOOLEAN, WriteCon(x, con, b)
        PROVE  h.fault = "none"
    BY <1>2 DEF WriteCon, Mutating
  <1>3. ASSUME NEW x \in Var, NEW y \in Var, NEW b \in BOOLEAN, WriteIndirection(x, y, b)
        PROVE  h.fault = "none"
    BY <1>3 DEF WriteIndirection, Mutating
  <1>4. ASSUME NEW x \in Var, NEW y \in Var, NEW i \in 1 .. Fuel, ReadPart(x, y, i)
        PROVE  h.fault = "none"
    BY <1>4 DEF ReadPart, Mutating
  <1>5. ASSUME NEW x \in Var, Drop(x) \/ RestoreWriter(x)
        PROVE  h.fault = "none"
    BY <1>5 DEF Drop, RestoreWriter, Mutating, Collecting
  <1>6. CASE SkipOldRoot \/ evacuate_copied \/ StartRoot \/ FinishRoot
    BY <1>6 DEF SkipOldRoot, evacuate_copied, StartRoot, FinishRoot, Collecting
  <1>7. CASE RestoreSource \/ WriteSkipover \/ Uncauterize \/ PointToCopy \/ InlineIndirection
    BY <1>7 DEF RestoreSource, WriteSkipover, Uncauterize, PointToCopy, InlineIndirection,
                Acting, AtTag, Collecting
  <1>8. CASE KeepIndirection \/ AbortInlining \/ ReconcileRegions \/ CopyConstructor
    BY <1>8 DEF KeepIndirection, AbortInlining, ReconcileRegions, CopyConstructor,
                Acting, AtTag, Collecting
  <1>9. CASE CollectRegions \/ Resume
    BY <1>9 DEF CollectRegions, Resume, Collecting
  <1> QED
    BY <1>1, <1>2, <1>3, <1>4, <1>5, <1>6, <1>7, <1>8, <1>9 DEF Next, Evacuate

\* The metadata of regions hangs together as long as the program runs.
KInv == h.fault = "none" => Linked(h)

\* With that check, and on the same condition, the metadata of regions hangs together,
\* whatever is grown, merged, counted, swept or freed: a footer has a region and leads to
\* a footer or to none, a region starts at one, and the outsets and the zero-count tables
\* are of regions (gib_grow_region, add_old_to_old_indirection, collect_regions,
\* free_region).
THEOREM MetadataStaysLinked == ASSUME Wide PROVE Spec /\ []UndoneInPlace => []MetadataLinked
  <1>1. Spec /\ []UndoneInPlace => []GInv
    BY InvariantHolds
  <1>2. Spec /\ []UndoneInPlace => []FInv
    BY FootersAreClear
  <1>3. Init => KInv
    BY DEF Init, KInv, Linked, FootersOf
  <1>4. GInv /\ FInv /\ KInv /\ [Next]_vars => KInv'
    <2>1. ASSUME GInv, FInv, KInv, Next
          PROVE  KInv'
      <3>1. FootKept(h, h') /\ h.fault = "none"
        BY <2>1, NextFoot, StoppedStays DEF FootStep
      <3> QED
        BY <2>1, <3>1 DEF KInv, FootKept, LinksKept
    <2>2. ASSUME KInv, UNCHANGED vars
          PROVE  KInv'
      BY <2>2 DEF KInv, vars
    <2> QED
      BY <2>1, <2>2
  <1>5. KInv => MetadataLinked
    <2> SUFFICES ASSUME KInv, h.fault = "none"
                 PROVE  MetadataLinked
      BY DEF MetadataLinked
    <2>1. Linked(h)
      BY DEF KInv
    <2>2. \A f \in FootersOf(h) : IsFooter(h, f)
      BY DEF FootersOf, IsFooter, Tag
    <2>3. \A f \in OldFooters : /\ h.mem[f].reg_info \in DOMAIN h.regs
                                /\ h.mem[f].next = 0 \/ IsFooter(h, h.mem[f].next)
      BY <2>1, <2>2 DEF Linked, OldFooters, FootersOf
    <2>4. ASSUME NEW r \in DOMAIN h.regs
          PROVE  /\ h.regs[r].refcount \in Counts
                 /\ h.regs[r].outset \subseteq DOMAIN h.regs
                 /\ IsFooter(h, h.regs[r].first)
      <3>1. PICK o : o = h.regs[r]
        OBVIOUS
      <3>2. o \in Infos /\ o.first \in FootersOf(h) /\ o.outset \subseteq DOMAIN h.regs
        BY <2>1, <3>1 DEF Linked
      <3>3. o.refcount \in Counts
        BY <3>2 DEF Infos
      <3> QED
        BY <2>2, <3>1, <3>2, <3>3
    <2>5. h.old_zct \cup h.new_zct \subseteq DOMAIN h.regs
      BY <2>1 DEF Linked
    <2> QED
      BY <2>3, <2>4, <2>5 DEF MetadataLinked
  <1> QED
    BY <1>1, <1>2, <1>3, <1>4, <1>5, PTL DEF Spec
=============================================================================

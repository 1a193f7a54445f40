----------------------------- MODULE GenGCProofs -----------------------------
(***************************************************************************)
(* That the old generation points into the nursery only through what is    *)
(* remembered, and that a collection ends, for all values of the           *)
(* constants.  Both rest on one inductive invariant, GInv: where the       *)
(* collector and the program write, nothing is that they do not mean to    *)
(* overwrite.                                                              *)
(***************************************************************************)
EXTENDS GenGC, OldgenProofs, SequenceTheorems, WellFoundedInduction

-----------------------------------------------------------------------------
(***************************************************************************)
(* The program's variables vs.                                             *)
(***************************************************************************)
RecShape(w) ==
    /\ w = [ptr |-> w.ptr, endptr |-> w.endptr, wptr |-> w.wptr, wend |-> w.wend, todo |-> w.todo]
    /\ w.todo \in Nat
VarShape(vs) == DOMAIN vs = Var /\ \A x \in Var : RecShape(vs[x])

WritersIn(vs) == {x \in Var : vs[x].todo > 0}
OldWritersIn(vs) == {x \in WritersIn(vs) : ~contains_addr(vs[x].wptr)}
YoungWritersIn(vs) == {x \in WritersIn(vs) : contains_addr(vs[x].wptr)}

\* Where the memory ends that the writer w may still write to.
Top(w) == IF w.wptr + PtrBytes > w.wend + FooterBytes
          THEN w.wptr + PtrBytes ELSE w.wend + FooterBytes

WriterOK(w, brk) ==
    /\ w.wptr \in Nat /\ w.wend \in Int
    /\ IF contains_addr(w.wptr) THEN contains_addr(w.wend)
       ELSE OldBase <= w.wptr /\ Top(w) <= brk
Beside(p, w) == p + PtrBytes <= w.wptr \/ Top(w) <= p

\* Writers in the old generation have memory of their own, where nothing is
\* remembered.
ProgramOK(vs, P, brk) ==
    /\ \A x \in WritersIn(vs) : WriterOK(vs[x], brk)
    /\ \A x \in OldWritersIn(vs) :
         /\ \A y \in OldWritersIn(vs) \ {x} : Top(vs[x]) <= vs[y].wptr \/ Top(vs[y]) <= vs[x].wptr
         /\ \A p \in P : Beside(p, vs[x])

\* What a step does to one writer, x.
LEMMA ProgramStep ==
    ASSUME NEW vs, NEW P, NEW brk \in Nat, ProgramOK(vs, P, brk),
           NEW ws, NEW Q, NEW brk2 \in Nat, brk <= brk2, NEW x,
           \A y \in WritersIn(ws) \ {x} :
             y \in WritersIn(vs) /\ ws[y].wptr = vs[y].wptr /\ ws[y].wend = vs[y].wend,
           x \in WritersIn(ws) => WriterOK(ws[x], brk2),
           x \in OldWritersIn(ws) =>
             /\ \A y \in OldWritersIn(vs) \ {x} : Top(ws[x]) <= vs[y].wptr \/ Top(vs[y]) <= ws[x].wptr
             /\ \A q \in Q : Beside(q, ws[x]),
           \A q \in Q \ P : \A y \in OldWritersIn(vs) \ {x} : Beside(q, vs[y])
    PROVE  ProgramOK(ws, Q, brk2)
  <1>1. ASSUME NEW y \in WritersIn(ws), y # x
        PROVE  /\ WriterOK(ws[y], brk2) /\ Top(ws[y]) = Top(vs[y]) /\ ws[y].wptr = vs[y].wptr
               /\ y \in OldWritersIn(ws) => y \in OldWritersIn(vs)
               /\ \A q \in Q : Beside(q, vs[y]) => Beside(q, ws[y])
    <2>1. WriterOK(vs[y], brk) /\ ws[y].wptr = vs[y].wptr /\ ws[y].wend = vs[y].wend
          /\ y \in WritersIn(vs)
      BY <1>1 DEF ProgramOK
    <2>2. Top(ws[y]) = Top(vs[y])
      BY <2>1 DEF Top
    <2>3. Top(vs[y]) \in Int
      BY <2>1 DEF WriterOK, Top, PtrBytes, FooterBytes
    <2>4. WriterOK(ws[y], brk2)
      BY <2>1, <2>2, <2>3 DEF WriterOK
    <2> QED
      BY <2>1, <2>2, <2>4 DEF OldWritersIn, Beside
  <1>2. \A y \in WritersIn(ws) : WriterOK(ws[y], brk2)
    BY <1>1
  <1>3. ASSUME NEW y \in OldWritersIn(ws), NEW z \in OldWritersIn(ws) \ {y}
        PROVE  Top(ws[y]) <= ws[z].wptr \/ Top(ws[z]) <= ws[y].wptr
    <2>1. y \in WritersIn(ws) /\ z \in WritersIn(ws)
      BY DEF OldWritersIn
    <2>2. CASE y = x
      BY <1>1, <2>1, <2>2
    <2>3. CASE z = x
      BY <1>1, <2>1, <2>3
    <2>4. CASE y # x /\ z # x
      BY <1>1, <2>1, <2>4 DEF ProgramOK
    <2> QED
      BY <2>2, <2>3, <2>4
  <1>4. ASSUME NEW y \in OldWritersIn(ws), NEW q \in Q
        PROVE  Beside(q, ws[y])
    <2>1. y \in WritersIn(ws)
      BY DEF OldWritersIn
    <2>2. CASE y = x
      BY <2>2
    <2>3. CASE y # x
      <3>1. y \in OldWritersIn(vs) \ {x} /\ (Beside(q, vs[y]) => Beside(q, ws[y]))
        BY <1>1, <2>1, <2>3
      <3>2. Beside(q, vs[y])
        BY <3>1 DEF ProgramOK
      <3> QED
        BY <3>1, <3>2
    <2> QED
      BY <2>2, <2>3
  <1> QED
    BY <1>2, <1>3, <1>4 DEF ProgramOK

\* The cursors of the writers stay, or fewer are left.
LEMMA ProgramStays ==
    ASSUME NEW vs, NEW P, NEW brk \in Nat, ProgramOK(vs, P, brk),
           NEW ws, NEW Q, Q \subseteq P, NEW brk2 \in Nat, brk <= brk2,
           \A y \in WritersIn(ws) :
             y \in WritersIn(vs) /\ ws[y].wptr = vs[y].wptr /\ ws[y].wend = vs[y].wend
    PROVE  ProgramOK(ws, Q, brk2)
  <1>1. PICK x : x \notin WritersIn(ws)
    <2>1. PICK x : x = {y \in WritersIn(ws) : y \notin y}
      OBVIOUS
    <2>2. x \notin WritersIn(ws)
      BY <2>1
    <2> QED
      BY <2>2
  <1>2. x \notin OldWritersIn(ws)
    BY <1>1 DEF OldWritersIn
  <1> QED
    BY <1>1, <1>2, ProgramStep

\* A writer in new memory: above what malloc had handed out.
LEMMA ProgramMoves ==
    ASSUME NEW vs, NEW P, NEW brk \in Nat, ProgramOK(vs, P, brk),
           \A p \in P : p \in Nat /\ p + PtrBytes <= brk,
           NEW ws, NEW brk2 \in Nat, brk <= brk2, NEW x,
           \A y \in WritersIn(ws) \ {x} :
             y \in WritersIn(vs) /\ ws[y].wptr = vs[y].wptr /\ ws[y].wend = vs[y].wend,
           x \in WritersIn(ws) => WriterOK(ws[x], brk2),
           x \in OldWritersIn(ws) => brk <= ws[x].wptr
    PROVE  ProgramOK(ws, P, brk2)
  <1>1. ASSUME x \in OldWritersIn(ws)
        PROVE  /\ \A y \in OldWritersIn(vs) \ {x} : Top(vs[y]) <= ws[x].wptr
               /\ \A q \in P : Beside(q, ws[x])
    <2>1. ws[x].wptr \in Nat /\ brk <= ws[x].wptr
      BY <1>1 DEF OldWritersIn, WriterOK
    <2>2. ASSUME NEW y \in OldWritersIn(vs)
          PROVE  Top(vs[y]) <= ws[x].wptr
      <3>1. WriterOK(vs[y], brk) /\ ~contains_addr(vs[y].wptr)
        BY DEF ProgramOK, OldWritersIn
      <3>2. Top(vs[y]) \in Int /\ Top(vs[y]) <= brk
        BY <3>1 DEF WriterOK, Top, PtrBytes, FooterBytes
      <3> QED
        BY <2>1, <3>2
    <2>3. ASSUME NEW q \in P
          PROVE  Beside(q, ws[x])
      BY <2>1 DEF Beside, PtrBytes
    <2> QED
      BY <2>2, <2>3
  <1> QED
    BY <1>1, ProgramStep

-----------------------------------------------------------------------------
(***************************************************************************)
(* The invariant.                                                          *)
(***************************************************************************)
\* The pointers from the old generation that have to be changed: those of the
\* remembered set, during a collection those that it has not come to yet.
PendingRoots ==
    {r \in (IF pc = "evacuate_packed" THEN ev.queue \cup {ev.root} ELSE ev.queue) : r.prov = "RemSet"}
Remembered == IF pc = "mutator" THEN h.rem_set ELSE PendingRoots
PlacesOf(R) == {f.ptr - 1 : f \in R}
Apart(R) ==
    /\ \A f \in R : f.ptr \in Int
    /\ \A f, g \in R : f # g => f.ptr + PtrBytes <= g.ptr \/ g.ptr + PtrBytes <= f.ptr

\* Data is copied from the nursery and from what has been burned behind it; 0 is
\* where nothing follows.
Src == {n \in Int : n = 0 \/ heap_start <= n}
PlaceOK(d, e, lo, brk) ==
    /\ d \in Nat /\ lo <= d /\ d + PtrBytes <= brk
    /\ e \in Int /\ d <= e /\ e + FooterBytes <= brk
Actions(lo, brk) ==
    {ProcessTy} \cup [act : {"SkipoverEnvWrite"}, at : Int]
    \cup {a \in [act : {"RestoreSrc"}, src : Src, dst : Nat, dst_end : Int] :
             PlaceOK(a.dst, a.dst_end, lo, brk)}

QueueOK(e) ==
    /\ IsFiniteSet(e.queue)
    /\ \A r \in e.queue : r.prov \in {"Stk", "RemSet"}
    /\ \A k \in DOMAIN e.so_env : e.so_env[k] \in Src
    /\ \A k \in DOMAIN e.fwd_env : e.fwd_env[k].to \in Int /\ e.fwd_env[k].to < heap_start

\* The root that is being evacuated: its copy starts at orig_dst, above all that was
\* there before, and has the memory from there on to itself until it meets a writer.
RootOK(e, P, vs, brk) ==
    /\ e.root \notin e.queue /\ e.root.prov \in {"Stk", "RemSet"}
    /\ e.src \in Src /\ e.burn
    /\ e.orig_dst \in Nat /\ OldBase <= e.orig_dst /\ Above(P, e.orig_dst)
    /\ e.dst \in Nat /\ e.orig_dst <= e.dst /\ e.dst <= brk
    /\ e.worklist \in Seq(Actions(e.orig_dst, brk))
    /\ e.worklist # <<>> => /\ PlaceOK(e.dst, e.dst_end, e.orig_dst, brk)
                            /\ \A x \in OldWritersIn(vs) : Top(vs[x]) <= e.orig_dst

QueueShape(e) == e = [queue |-> e.queue, fwd_env |-> e.fwd_env, so_env |-> e.so_env]
RootShape(e) ==
    e = [queue |-> e.queue, fwd_env |-> e.fwd_env, so_env |-> e.so_env,
         root |-> e.root, orig_src |-> e.orig_src, orig_dst |-> e.orig_dst,
         orig_dst_end |-> e.orig_dst_end, loc0 |-> e.loc0,
         src |-> e.src, dst |-> e.dst, dst_end |-> e.dst_end,
         inlining_underway |-> e.inlining_underway,
         inlining_underway_upto |-> e.inlining_underway_upto,
         burn |-> e.burn, forwarded |-> e.forwarded, worklist |-> e.worklist]

Good ==
    /\ HeapOK(h, PlacesOf(Remembered))
    /\ h.alloc \in heap_start .. heap_end
    /\ IsFiniteSet(h.rem_set)
    /\ Apart(Remembered)
    /\ ProgramOK(var, PlacesOf(Remembered), h.brk)
    /\ pc # "mutator" => QueueOK(ev) /\ request.x \in Var /\ request.size \in RegionSizes
    /\ pc \in {"roots", "resume"} => QueueShape(ev)
    /\ pc = "evacuate_packed" => RootShape(ev) /\ RootOK(ev, PlacesOf(Remembered), var, h.brk)
    /\ pc = "resume" => ev.queue = {} /\ h.rem_set = {}
GInv ==
    /\ HeapShape(h) /\ VarShape(var)
    /\ pc \in {"mutator", "roots", "evacuate_packed", "resume"}
    /\ pc = "mutator" => /\ PointersOK(h.mem, PlacesOf(h.rem_set))
                         /\ \A f \in h.rem_set : f.ptr \in Int
    /\ h.fault = "none" => Good

\* The invariant says of pointers from the old generation what the property says.
LEMMA InvRemembered == GInv => YoungPointersRemembered
  <1> SUFFICES ASSUME GInv, pc = "mutator", NEW a \in DOMAIN h.mem,
                      ~contains_addr(a), h.mem[a].tag \in {"INDIRECTION", "REDIRECTION"},
                      contains_addr(h.mem[a].to)
               PROVE  h.mem[a].tag = "INDIRECTION" /\ \E f \in h.rem_set : f.ptr = a + 1
    BY DEF YoungPointersRemembered
  <1>1. h.mem[a].tag = "INDIRECTION" /\ a \in PlacesOf(h.rem_set)
    BY DEF GInv, PointersOK, Pointers
  <1>2. PICK f \in h.rem_set : a = f.ptr - 1
    BY <1>1 DEF PlacesOf
  <1>3. f.ptr \in Int
    BY DEF GInv
  <1> QED
    BY <1>1, <1>2, <1>3

\* It holds before the program starts (gib_storage_initialize).
LEMMA InitInv == Init => GInv
  <1> SUFFICES ASSUME Init PROVE GInv
    OBVIOUS
  <1>1. /\ HeapShape(h) /\ h.mem = <<>> /\ h.alloc = heap_end /\ h.brk = OldBase
        /\ h.rem_set = {} /\ h.fault = "none" /\ pc = "mutator"
    BY DEF Init, HeapShape
  <1>2. VarShape(var) /\ WritersIn(var) = {}
    BY DEF Init, VarShape, RecShape, WritersIn, Unused
  <1>3. DOMAIN h.mem = {}
    BY <1>1
  <1>4. Remembered = {} /\ PlacesOf({}) = {}
    BY <1>1 DEF Remembered, PlacesOf
  <1>5. HeapOK(h, {})
    BY <1>1, <1>3, FS_EmptySet, Layout DEF HeapOK, MemOK, RememberedOK, BrkOK
  <1>6. ProgramOK(var, {}, h.brk)
    BY <1>2 DEF ProgramOK, OldWritersIn
  <1>7. PointersOK(h.mem, {}) /\ Apart({}) /\ IsFiniteSet({})
    BY <1>3, FS_EmptySet DEF PointersOK, Apart
  <1>8. h.alloc \in heap_start .. heap_end
    BY <1>1, Layout
  <1>9. Good
    BY <1>1, <1>4, <1>5, <1>6, <1>7, <1>8 DEF Good
  <1> QED
    BY <1>1, <1>2, <1>4, <1>7, <1>9 DEF GInv

\* A set of naturals has a least element.
LEMMA Least ==
    ASSUME NEW T \in SUBSET Nat, T # {}
    PROVE  \E x \in T : \A y \in T : x <= y
  <1> DEFINE S == {1 .. n : n \in T}
  <1>1. S \subseteq FiniteSubsetsOf(Nat) /\ S # {}
    <2>1. \A n \in T : 1 .. n \in SUBSET Nat /\ IsFiniteSet(1 .. n)
      BY FS_Interval
    <2> QED
      BY <2>1 DEF FiniteSubsetsOf
  <1>2. PICK s \in S : \A t \in S : <<t, s>> \notin StrictSubsetOrdering(Nat)
    BY <1>1, WFMin, FS_StrictSubsetOrderingWellFounded
  <1>3. PICK x \in T : s = 1 .. x
    BY <1>2
  <1>4. ASSUME NEW y \in T, y < x
        PROVE  FALSE
    <2>1. 1 .. y \in SUBSET Nat /\ 1 .. x \in SUBSET Nat /\ 1 .. y \subseteq 1 .. x
      BY <1>4
    <2>2. 1 .. y # 1 .. x
      <3>1. x \in 1 .. x /\ x \notin 1 .. y
        BY <1>4
      <3> QED
        BY <3>1
    <2>3. <<1 .. y, 1 .. x>> \in StrictSubsetOrdering(Nat)
      BY <2>1, <2>2, Zenon DEF StrictSubsetOrdering
    <2> QED
      BY <1>2, <1>3, <2>3
  <1> QED
    BY <1>3, <1>4

\* The images of finitely many.
LEMMA FiniteImage ==
    ASSUME NEW S, IsFiniteSet(S), NEW f, NEW T, T = {f[x] : x \in S}
    PROVE  IsFiniteSet(T)
  <1>1. PICK g : g = [x \in S |-> f[x]]
    OBVIOUS
  <1>2. g \in Surjection(S, T)
    BY <1>1 DEF Surjection
  <1> QED
    BY <1>2, FS_Surjection

\* One variable is assigned a record.
Assigned(vs, x, w, ws) == ws = [vs EXCEPT ![x] = w]
Put(vs, x, w, ws) ==
    /\ VarShape(ws)
    /\ x \in Var => ws[x] = w
    /\ \A y \in Var \ {x} : ws[y] = vs[y]

\* Assigning a well-formed record to one variable leaves the others as they are.
LEMMA PutShape ==
    ASSUME NEW vs, VarShape(vs), NEW x, NEW w, x \in Var => RecShape(w), NEW ws, Assigned(vs, x, w, ws)
    PROVE  Put(vs, x, w, ws)
  <1>1. DOMAIN ws = Var
    BY DEF VarShape, Assigned
  <1>2. x \in Var => ws[x] = w
    BY DEF VarShape, Assigned
  <1>3. \A y \in Var \ {x} : ws[y] = vs[y]
    BY DEF VarShape, Assigned
  <1>4. ASSUME NEW y \in Var
        PROVE  RecShape(ws[y])
    <2>1. CASE y = x
      BY <1>2, <2>1
    <2>2. CASE y # x
      BY <1>3, <2>2 DEF VarShape
    <2> QED
      BY <2>1, <2>2
  <1> QED
    BY <1>1, <1>2, <1>3, <1>4 DEF VarShape, Put

\* The record of a variable that is not used,
LEMMA UnusedShape == RecShape(Unused) /\ Unused.todo = 0
  BY DEF Unused, RecShape

\* of one with a fresh write cursor,
LEMMA OpenRecord ==
    ASSUME NEW a, NEW e
    PROVE  [Unused EXCEPT !.wptr = a, !.wend = e, !.todo = 1]
             = [ptr |-> 0, endptr |-> 0, wptr |-> a, wend |-> e, todo |-> 1]
  <1>1. PICK u : u = [Unused EXCEPT !.wptr = a]
    OBVIOUS
  <1>2. u = [ptr |-> 0, endptr |-> 0, wptr |-> a, wend |-> 0, todo |-> 0]
    BY <1>1 DEF Unused
  <1>3. PICK v : v = [u EXCEPT !.wend = e]
    OBVIOUS
  <1>4. v = [ptr |-> 0, endptr |-> 0, wptr |-> a, wend |-> e, todo |-> 0]
    BY <1>2, <1>3
  <1>5. PICK w : w = [v EXCEPT !.todo = 1]
    OBVIOUS
  <1>6. w = [ptr |-> 0, endptr |-> 0, wptr |-> a, wend |-> e, todo |-> 1]
    BY <1>4, <1>5
  <1> QED
    BY <1>1, <1>3, <1>5, <1>6

\* and of one that reads only.
LEMMA ReadRecord ==
    ASSUME NEW a, NEW e
    PROVE  [Unused EXCEPT !.ptr = a, !.endptr = e]
             = [ptr |-> a, endptr |-> e, wptr |-> 0, wend |-> 0, todo |-> 0]
  <1>1. PICK u : u = [Unused EXCEPT !.ptr = a]
    OBVIOUS
  <1>2. u = [ptr |-> a, endptr |-> 0, wptr |-> 0, wend |-> 0, todo |-> 0]
    BY <1>1 DEF Unused
  <1>3. PICK v : v = [u EXCEPT !.endptr = e]
    OBVIOUS
  <1>4. v = [ptr |-> a, endptr |-> e, wptr |-> 0, wend |-> 0, todo |-> 0]
    BY <1>2, <1>3
  <1> QED
    BY <1>1, <1>3, <1>4

\* Burned data leads to the old generation.
LEMMA FindForwarding ==
    ASSUME NEW P, MemOK(h.mem, P, h.brk), QueueOK(ev), NEW a \in Int,
           NEW fwd, fwd = find_forwarding_pointer(a), fwd.fault = "none"
    PROVE  fwd.to \in Int /\ fwd.to < heap_start
  <1>1. PICK N \in Nat : N = Cardinality(DOMAIN h.mem)
    BY FS_CardinalityType DEF MemOK
  <1>2. PICK T : T = {n \in 0 .. N : Tag(h.mem, a + n) # "COPIED"}
    OBVIOUS
  <1>3. T \in SUBSET Nat /\ T # {}
    <2>1. T \in SUBSET Nat
      BY <1>1, <1>2
    <2>2. ASSUME T = {}
          PROVE  FALSE
      <3>1. ASSUME NEW b \in a .. a + N
            PROVE  b \in DOMAIN h.mem
        <4>1. b - a \in 0 .. N /\ a + (b - a) = b
          BY <1>1, <3>1
        <4>2. Tag(h.mem, b) = "COPIED"
          <5>1. PICK n \in 0 .. N : n = b - a
            BY <4>1
          <5>2. a + n = b
            BY <4>1, <5>1
          <5> QED
            BY <1>2, <2>2, <5>2
        <4> QED
          BY <4>2 DEF Tag
      <3>2. a .. a + N \in SUBSET DOMAIN h.mem
        BY <3>1
      <3>3. Cardinality(a .. a + N) <= N
        BY <1>1, <3>2, FS_Subset DEF MemOK
      <3>4. Cardinality(a .. a + N) = N + 1
        <4>1. a + N \in Int /\ ~(a > a + N) /\ (a + N) - a + 1 = N + 1
          BY <1>1
        <4> QED
          BY <4>1, FS_Interval
      <3> QED
        BY <1>1, <3>3, <3>4
    <2> QED
      BY <2>1, <2>2
  <1>4. PICK d \in Nat : d = Min(T)
    <2>1. \E x \in T : \A y \in T : x <= y
      BY <1>3, Least
    <2>2. Min(T) \in T
      BY <2>1 DEF Min
    <2> QED
      BY <1>3, <2>2
  <1>5. PICK s : s = a + d
    OBVIOUS
  <1>6. PICK f : f = IF Tag(h.mem, s) = "CAUTERIZED" THEN s + PtrBytes ELSE s
    OBVIOUS
  <1>7. fwd = IF Tag(h.mem, f) = "COPIED_TO" THEN FwdAt(f, s - a)
              ELSE IF Tag(h.mem, s) = "CAUTERIZED" THEN NoFwd("wild")
              ELSE IF a + 1 \in DOMAIN ev.fwd_env THEN ev.fwd_env[a + 1]
              ELSE NoFwd("panic: unexpected tag")
    BY <1>1, <1>2, <1>4, <1>5, <1>6, Zenon DEF find_forwarding_pointer
  <1>8. NoFwd("wild").fault # "none" /\ NoFwd("panic: unexpected tag").fault # "none"
    BY DEF NoFwd
  <1>9. CASE Tag(h.mem, f) = "COPIED_TO"
    <2>1. f \in DOMAIN h.mem /\ h.mem[f].tag = "COPIED_TO"
      BY <1>9 DEF Tag
    <2>2. h.mem[f].to \in Int /\ h.mem[f].to < heap_start
      BY <2>1 DEF MemOK, GoodCell
    <2>3. fwd = FwdAt(f, s - a)
      BY <1>7, <1>9
    <2>4. fwd.to = h.mem[f].to - (s - a)
      BY <2>3 DEF FwdAt
    <2>5. s - a = d
      BY <1>5
    <2> QED
      BY <2>2, <2>4, <2>5, Layout
  <1>10. CASE Tag(h.mem, f) # "COPIED_TO"
    <2>1. a + 1 \in DOMAIN ev.fwd_env /\ fwd = ev.fwd_env[a + 1]
      BY <1>7, <1>8, <1>10
    <2> QED
      BY <2>1 DEF QueueOK
  <1> QED
    BY <1>9, <1>10

\* The order of CollectionEnds.
LEMMA LessTuple ==
    ASSUME NEW a1, NEW a2, NEW a3, NEW a4, NEW b1, NEW b2, NEW b3, NEW b4,
           \/ a1 < b1
           \/ a1 <= b1 /\ a2 < b2
           \/ a1 <= b1 /\ a2 <= b2 /\ a3 < b3
           \/ a1 <= b1 /\ a2 <= b2 /\ a3 <= b3 /\ a4 < b4
    PROVE  Less(<<a1, a2, a3, a4>>, <<b1, b2, b3, b4>>)
  <1> DEFINE s == <<a1, a2, a3, a4>>
             t == <<b1, b2, b3, b4>>
  <1> SUFFICES Less(s, t)
    OBVIOUS
  <1>1. /\ s[1] = a1 /\ s[2] = a2 /\ s[3] = a3 /\ s[4] = a4
        /\ t[1] = b1 /\ t[2] = b2 /\ t[3] = b3 /\ t[4] = b4
        /\ DOMAIN s = {1, 2, 3, 4}
    OBVIOUS
  <1> HIDE DEF s, t
  <1>2. CASE a1 < b1
    <2>1. \A j \in 1 .. 1 - 1 : s[j] <= t[j]
      OBVIOUS
    <2> QED
      BY <1>1, <1>2, <2>1 DEF Less
  <1>3. CASE a1 <= b1 /\ a2 < b2
    <2>1. \A j \in 1 .. 2 - 1 : j = 1
      OBVIOUS
    <2>2. \A j \in 1 .. 2 - 1 : s[j] <= t[j]
      BY <1>1, <1>3, <2>1
    <2> QED
      BY <1>1, <1>3, <2>2 DEF Less
  <1>4. CASE a1 <= b1 /\ a2 <= b2 /\ a3 < b3
    <2>1. \A j \in 1 .. 3 - 1 : j = 1 \/ j = 2
      OBVIOUS
    <2>2. \A j \in 1 .. 3 - 1 : s[j] <= t[j]
      BY <1>1, <1>4, <2>1
    <2> QED
      BY <1>1, <1>4, <2>2 DEF Less
  <1>5. CASE a1 <= b1 /\ a2 <= b2 /\ a3 <= b3 /\ a4 < b4
    <2>1. \A j \in 1 .. 4 - 1 : j = 1 \/ j = 2 \/ j = 3
      OBVIOUS
    <2>2. \A j \in 1 .. 4 - 1 : s[j] <= t[j]
      BY <1>1, <1>5, <2>1
    <2> QED
      BY <1>1, <1>5, <2>2 DEF Less
  <1> QED
    BY <1>2, <1>3, <1>4, <1>5

(***************************************************************************)
(* evacuate_packed_simpl.                                                  *)
(***************************************************************************)
\* The state s of its loop, where it began with heap g: it reads behind lo, and so
\* behind everything that is remembered.
SimplOK(s, g, P, lo) ==
    /\ s = [h |-> s.h, src |-> s.src, dst |-> s.dst, dst_end |-> s.dst_end, k |-> s.k]
    /\ LaterOld(g, s.h, P)
    /\ s.h.fault = "none" /\ s.k # 0 =>
         /\ s.src \in Nat /\ lo <= s.src /\ s.src <= s.h.brk
         /\ Cursor(s.h, P, s.dst, s.dst_end)

\* After a write to where there is room for it and a pointer, the cursor is again one
\* where a pointer can be written.
LEMMA CursorMoves ==
    ASSUME NEW g, NEW P, HeapOK(g, P), g.fault = "none", NEW n \in Nat, NEW d, Room(g, P, d, n),
           Above(P, d), NEW k \in Nat, k + PtrBytes <= n,
           NEW e \in Int, d + n <= e, e + FooterBytes <= g.brk
    PROVE  Cursor(g, P, d + k, e)
  <1>1. g.brk \in Nat /\ d \in Nat /\ OldBase <= d /\ d + n <= g.brk
    BY DEF Room, HeapOK, BrkOK
  <1>2. d + k \in Nat /\ OldBase <= d + k /\ d + k + PtrBytes <= g.brk /\ d + k <= e
    BY <1>1, Layout DEF PtrBytes
  <1>3. \A p \in P : p + PtrBytes <= d + k
    <2>1. \A p \in P : p \in Nat
      BY DEF HeapOK, MemOK, RememberedOK
    <2> QED
      BY <1>1, <2>1 DEF Above, PtrBytes
  <1> QED
    BY <1>2, <1>3 DEF Cursor, Room, Above

\* Where there is room for n bytes there is room for fewer.
LEMMA RoomLess ==
    ASSUME NEW g, NEW P, HeapOK(g, P), g.fault = "none", NEW n \in Nat, NEW d, Room(g, P, d, n),
           Above(P, d), NEW k \in Nat, k <= n
    PROVE  Room(g, P, d, k)
  BY DEF Room, Above, HeapOK, BrkOK

\* What is read behind lo may be copied anywhere.
LEMMA ReadOld ==
    ASSUME NEW g, NEW P, HeapOK(g, P), g.fault = "none",
           NEW lo \in Nat, Above(P, lo),
           NEW a \in Nat, lo <= a, a <= g.brk, a \in DOMAIN g.mem,
           g.mem[a].tag \in Con \cup Pointers
    PROVE  OldCell(g.mem[a]) /\ a + SizeOf(g.mem[a]) <= g.brk
  <1>1. GoodCell(a, g.mem[a], P, g.brk) /\ g.brk \in Nat /\ g.brk < heap_start
    BY DEF HeapOK, MemOK, BrkOK
  <1>2. a \notin P
    BY DEF Above, PtrBytes
  <1>3. ~contains_addr(a)
    BY <1>1, Layout DEF contains_addr
  <1>4. g.mem[a].tag \in Pointers => ~contains_addr(g.mem[a].to)
    BY <1>1, <1>2, <1>3 DEF GoodCell
  <1>5. a < heap_start
    BY <1>1, Layout
  <1>6. a + SizeOf(g.mem[a]) <= g.brk
    BY <1>1, <1>5 DEF GoodCell
  <1> QED
    BY <1>4, <1>6 DEF OldCell

\* Copy a cell behind a bounds check.
LEMMA CheckedCopy ==
    ASSUME NEW g, NEW P, HeapOK(g, P), NEW n, Space(n), NEW d, NEW e,
           g.fault = "none" => Cursor(g, P, d, e),
           NEW c, c = check_bounds(g, n, d, e),
           NEW cell, OldCell(cell), SizeOf(cell) + PtrBytes <= n,
           NEW k, k = Store(c.h, c.dst, cell)
    PROVE  /\ LaterOld(g, k, P) /\ HeapShape(k)
           /\ k.fault = c.h.fault
           /\ k.fault = "none" => /\ Cursor(k, P, c.dst + SizeOf(cell), c.dst_end)
                                  /\ d <= c.dst + SizeOf(cell)
                                  /\ c.dst + SizeOf(cell) \in Nat
  <1>1. n \in Nat /\ SizeOf(cell) \in Nat
    BY SpaceFits, SizeOfCell
  <1>2. /\ LaterOld(g, c.h, P)
        /\ c.h.fault = "none" => /\ Room(c.h, P, c.dst, n) /\ Above(P, c.dst) /\ d <= c.dst
                                 /\ c.dst + n <= c.dst_end
                                 /\ c.dst_end \in Int /\ c.dst_end + FooterBytes <= c.h.brk
    BY CheckBoundsLater
  <1>3. HeapOK(c.h, P)
    BY <1>2 DEF LaterOld, Later
  <1>4. c.h.fault = "none" => Room(c.h, P, c.dst, SizeOf(cell))
    <2>1. SizeOf(cell) <= n
      BY <1>1 DEF PtrBytes
    <2> QED
      BY <1>1, <1>2, <1>3, <2>1, RoomLess
  <1>5. LaterOld(c.h, k, P) /\ k.brk = c.h.brk /\ k.fault = c.h.fault
    BY <1>3, <1>4, CopyLater
  <1>6. LaterOld(g, k, P)
    BY <1>2, <1>5, LaterTrans DEF LaterOld
  <1>7. ASSUME k.fault = "none"
        PROVE  /\ Cursor(k, P, c.dst + SizeOf(cell), c.dst_end)
               /\ d <= c.dst + SizeOf(cell) /\ c.dst + SizeOf(cell) \in Nat
    <2>1. Cursor(c.h, P, c.dst + SizeOf(cell), c.dst_end)
      BY <1>1, <1>2, <1>3, <1>5, <1>7, CursorMoves
    <2>2. d \in Nat /\ c.dst \in Nat
      BY <1>2, <1>5, <1>7 DEF Cursor, Room, LaterOld, Later
    <2> QED
      BY <1>1, <1>2, <1>5, <1>7, <2>1, <2>2 DEF Cursor, Room
  <1>8. HeapShape(k)
    BY <1>5 DEF LaterOld, Later, HeapOK
  <1> QED
    BY <1>5, <1>6, <1>7, <1>8

\* One iteration of evacuate_packed_simpl keeps what is known of its state.
LEMMA SimplKeeps ==
    ASSUME NEW g, NEW P, HeapOK(g, P), NEW lo \in Nat, Above(P, lo),
           NEW s, SimplOK(s, g, P, lo), NEW src_end
    PROVE  SimplOK(SimplStep(s, src_end), g, P, lo)
  <1>1. PICK n : n = SimplStep(s, src_end)
    OBVIOUS
  <1>2. PICK hp, tag, cell : hp = s.h /\ tag = Tag(s.h.mem, s.src) /\ cell = s.h.mem[s.src]
    OBVIOUS
  <1>3. HeapOK(hp, P) /\ LaterOld(g, hp, P)
    BY <1>2 DEF SimplOK, LaterOld, Later
  <1>4. CASE s.k = 0 \/ s.h.fault # "none"
    <2>1. n = s
      BY <1>1, <1>4 DEF SimplStep
    <2> QED
      BY <1>1, <2>1
  <1>5. CASE s.k # 0 /\ hp.fault = "none"
    <2>1. /\ s.src \in Nat /\ lo <= s.src /\ s.src <= hp.brk
          /\ Cursor(hp, P, s.dst, s.dst_end) /\ hp.brk \in Nat
      BY <1>2, <1>3, <1>5 DEF SimplOK, HeapOK, BrkOK
    <2>2. n = CASE tag = "REDIRECTION" -> [s EXCEPT !.h = Store(hp, s.dst, cell), !.k = 0]
                [] tag = "INDIRECTION" ->
                     LET c == check_bounds(hp, 32, s.dst, s.dst_end)
                         footer == cell.to + cell.offset
                         h1 == add_old_to_old_indirection(Store(c.h, c.dst, cell), s.dst_end, footer)
                     IN [h |-> remove_old_to_old_indirection(h1, src_end, footer),
                         src |-> s.src + PtrBytes, dst |-> c.dst + PtrBytes,
                         dst_end |-> c.dst_end, k |-> s.k]
                [] tag \in Con ->
                     LET c == check_bounds(hp, 32 + ScalarBytes[tag], s.dst, s.dst_end)
                     IN [h |-> Store(c.h, c.dst, cell),
                         src |-> s.src + SizeOf(cell), dst |-> c.dst + SizeOf(cell),
                         dst_end |-> c.dst_end, k |-> s.k - 1 + Fields[tag]]
                [] OTHER -> [s EXCEPT !.h = Fail(hp, "panic: unexpected tag in simpl"), !.k = 0]
      BY <1>1, <1>2, <1>5, Zenon DEF SimplStep
    <2>3. tag # "garbage" => s.src \in DOMAIN hp.mem /\ cell.tag = tag
      BY <1>2 DEF Tag
    <2>4. "garbage" \notin Con /\ "REDIRECTION" \notin Con /\ "INDIRECTION" \notin Con
      BY TagsApart
    <2>5. tag \in Con \cup Pointers => OldCell(cell) /\ s.src + SizeOf(cell) <= hp.brk
      <3>1. tag \in Con \cup Pointers => tag # "garbage"
        BY <2>4 DEF Pointers
      <3> QED
        BY <1>2, <1>3, <1>5, <2>1, <2>3, <3>1, ReadOld
    <2>6. CASE tag = "REDIRECTION"
      <3>1. PICK k : k = Store(hp, s.dst, cell)
        OBVIOUS
      <3>2. n = [s EXCEPT !.h = k, !.k = 0]
        BY <2>2, <2>4, <2>6, <3>1
      <3>3. n = [h |-> k, src |-> s.src, dst |-> s.dst, dst_end |-> s.dst_end, k |-> 0]
        BY <3>2 DEF SimplOK
      <3>4. OldCell(cell) /\ SizeOf(cell) = PtrBytes
        BY <2>3, <2>5, <2>6, SizeOfCell DEF Pointers
      <3>5. LaterOld(hp, k, P)
        <4>1. Room(hp, P, s.dst, SizeOf(cell))
          BY <2>1, <3>4 DEF Cursor
        <4> QED
          BY <1>3, <3>1, <3>4, <4>1, CopyLater
      <3>6. LaterOld(g, k, P)
        BY <1>3, <3>5, LaterTrans DEF LaterOld
      <3> QED
        BY <1>1, <3>3, <3>6 DEF SimplOK
    <2>7. CASE tag = "INDIRECTION"
      <3>1. PICK c : c = check_bounds(hp, 32, s.dst, s.dst_end)
        OBVIOUS
      <3>2. PICK k : k = Store(c.h, c.dst, cell)
        OBVIOUS
      <3>3. PICK footer : footer = cell.to + cell.offset
        OBVIOUS
      <3>4. PICK k1 : k1 = add_old_to_old_indirection(k, s.dst_end, footer)
        OBVIOUS
      <3>5. PICK k2 : k2 = remove_old_to_old_indirection(k1, src_end, footer)
        OBVIOUS
      <3>6. n = [h |-> k2, src |-> s.src + PtrBytes, dst |-> c.dst + PtrBytes,
                 dst_end |-> c.dst_end, k |-> s.k]
        BY <2>2, <2>4, <2>7, <3>1, <3>2, <3>3, <3>4, <3>5
      <3>7. OldCell(cell) /\ SizeOf(cell) = PtrBytes /\ s.src + PtrBytes <= hp.brk
        BY <2>3, <2>5, <2>7, SizeOfCell DEF Pointers
      <3>8. /\ LaterOld(hp, k, P) /\ HeapShape(k)
            /\ k.fault = "none" => Cursor(k, P, c.dst + PtrBytes, c.dst_end)
        <4>1. Space(32) /\ SizeOf(cell) + PtrBytes <= 32
          BY <3>7 DEF Space, PtrBytes
        <4> QED
          BY <1>3, <2>1, <3>1, <3>2, <3>7, <4>1, CheckedCopy
      <3>9. SameMemory(k, k1)
        BY <3>4, <3>8, MetadataSame
      <3>10. SameMemory(k1, k2)
        BY <3>5, <3>9, MetadataSame DEF SameMemory
      <3>11. SameMemory(k, k2)
        BY <3>9, <3>10 DEF SameMemory
      <3>12. LaterOld(k, k2, P)
        BY <3>8, <3>11, SameLater DEF LaterOld, Later
      <3>13. LaterOld(hp, k2, P)
        BY <1>3, <3>8, <3>12, LaterTrans DEF LaterOld
      <3>14. LaterOld(g, k2, P)
        BY <1>3, <3>13, LaterTrans DEF LaterOld
      <3>15. ASSUME k2.fault = "none"
             PROVE  /\ s.src + PtrBytes \in Nat /\ lo <= s.src + PtrBytes /\ s.src + PtrBytes <= k2.brk
                    /\ Cursor(k2, P, c.dst + PtrBytes, c.dst_end)
        <4>1. hp.brk <= k2.brk /\ k2.brk \in Nat
          BY <3>13, <3>15 DEF LaterOld, Later, HeapOK, BrkOK
        <4>2. Cursor(k, P, c.dst + PtrBytes, c.dst_end) /\ k2.brk = k.brk
          BY <3>8, <3>11, <3>15 DEF SameMemory
        <4> QED
          BY <2>1, <3>7, <4>1, <4>2 DEF PtrBytes, Cursor, Room
      <3> QED
        BY <1>1, <3>6, <3>14, <3>15 DEF SimplOK
    <2>8. CASE tag \in Con
      <3>1. PICK c : c = check_bounds(hp, 32 + ScalarBytes[tag], s.dst, s.dst_end)
        OBVIOUS
      <3>2. PICK k : k = Store(c.h, c.dst, cell)
        OBVIOUS
      <3>3. PICK left : left = s.k - 1 + Fields[tag]
        OBVIOUS
      <3>4. n = [h |-> k, src |-> s.src + SizeOf(cell), dst |-> c.dst + SizeOf(cell),
                 dst_end |-> c.dst_end, k |-> left]
        BY <2>2, <2>4, <2>8, <3>1, <3>2, <3>3
      <3>5. cell.tag = tag /\ OldCell(cell) /\ s.src + SizeOf(cell) <= hp.brk
        BY <2>3, <2>4, <2>5, <2>8
      <3>6. SizeOf(cell) = 1 + ScalarBytes[tag] /\ ScalarBytes[tag] \in Nat
        BY <2>8, <3>5, SizeOfCell, InfoTable
      <3>7. /\ LaterOld(hp, k, P) /\ HeapShape(k)
            /\ k.fault = "none" => Cursor(k, P, c.dst + SizeOf(cell), c.dst_end)
        <4>1. Space(32 + ScalarBytes[tag]) /\ SizeOf(cell) + PtrBytes <= 32 + ScalarBytes[tag]
          BY <2>8, <3>6 DEF Space, PtrBytes
        <4> QED
          BY <1>3, <2>1, <3>1, <3>2, <3>5, <4>1, CheckedCopy
      <3>8. LaterOld(g, k, P)
        BY <1>3, <3>7, LaterTrans DEF LaterOld
      <3>9. ASSUME k.fault = "none"
            PROVE  /\ s.src + SizeOf(cell) \in Nat /\ lo <= s.src + SizeOf(cell)
                   /\ s.src + SizeOf(cell) <= k.brk
        <4>1. hp.brk <= k.brk /\ k.brk \in Nat
          BY <3>7, <3>9 DEF LaterOld, Later, HeapOK, BrkOK
        <4> QED
          BY <2>1, <3>5, <3>6, <4>1
      <3> QED
        BY <1>1, <3>4, <3>7, <3>8, <3>9 DEF SimplOK
    <2>9. CASE tag # "REDIRECTION" /\ tag # "INDIRECTION" /\ tag \notin Con
      <3>1. PICK k : k = Fail(hp, "panic: unexpected tag in simpl")
        OBVIOUS
      <3>2. n = [s EXCEPT !.h = k, !.k = 0]
        BY <2>2, <2>9, <3>1
      <3>3. n = [h |-> k, src |-> s.src, dst |-> s.dst, dst_end |-> s.dst_end, k |-> 0]
        BY <3>2 DEF SimplOK
      <3>4. SameMemory(hp, k)
        BY <1>3, <3>1, FailSame DEF HeapOK
      <3>5. LaterOld(hp, k, P)
        BY <1>3, <3>4, SameLater
      <3>6. LaterOld(g, k, P)
        BY <1>3, <3>5, LaterTrans DEF LaterOld
      <3> QED
        BY <1>1, <3>3, <3>6 DEF SimplOK
    <2> QED
      BY <2>6, <2>7, <2>8, <2>9
  <1> QED
    BY <1>2, <1>4, <1>5

\* Its loop is a function on the iterations: each is made from the one before.
RunTo(f, i, e, n) ==
    f = [k \in 0 .. n |-> IF k = 0 THEN i ELSE SimplStep(f[k - 1], e)]

\* Two runs of its loop agree where both are defined.
LEMMA RunsAgree ==
    ASSUME NEW i, NEW e, NEW n \in Nat, NEW m \in Nat, n <= m, NEW f, RunTo(f, i, e, n),
           NEW g, RunTo(g, i, e, m), NEW k \in 0 .. n
    PROVE  f[k] = g[k]
  <1>1. PICK T : T = {j \in 0 .. n : f[j] # g[j]}
    OBVIOUS
  <1>2. ASSUME T # {} PROVE FALSE
    <2>1. T \in SUBSET Nat
      BY <1>1
    <2>2. PICK x \in T : \A y \in T : x <= y
      BY <1>2, <2>1, Least
    <2>3. x \in 0 .. n /\ x \in 0 .. m /\ f[x] # g[x]
      BY <1>1, <2>2
    <2>4. CASE x = 0
      <3>1. f[0] = i /\ g[0] = i
        BY <2>3, <2>4 DEF RunTo
      <3> QED
        BY <2>3, <2>4, <3>1
    <2>5. CASE x # 0
      <3>1. x - 1 \in 0 .. n /\ ~(x <= x - 1)
        BY <2>3, <2>5
      <3>2. f[x - 1] = g[x - 1]
        BY <1>1, <2>2, <3>1
      <3>3. f[x] = SimplStep(f[x - 1], e) /\ g[x] = SimplStep(g[x - 1], e)
        BY <2>3, <2>5 DEF RunTo
      <3> QED
        BY <2>3, <3>2, <3>3
    <2> QED
      BY <2>4, <2>5
  <1> QED
    BY <1>1, <1>2

\* There is a run of every length,
LEMMA RunExists ==
    ASSUME NEW i, NEW e, NEW n \in Nat
    PROVE  \E f : RunTo(f, i, e, n)
  <1>1. PICK T : T = {m \in Nat : ~ \E f : RunTo(f, i, e, m)}
    OBVIOUS
  <1>2. ASSUME T # {} PROVE FALSE
    <2>1. T \in SUBSET Nat
      BY <1>1
    <2>2. PICK x \in T : \A y \in T : x <= y
      BY <1>2, <2>1, Least
    <2>3. x \in Nat /\ ~ \E f : RunTo(f, i, e, x)
      BY <1>1, <2>2
    <2>4. x # 0
      <3>1. PICK f : f = [k \in 0 .. 0 |-> i]
        OBVIOUS
      <3>2. f = [k \in 0 .. 0 |-> IF k = 0 THEN i ELSE SimplStep(f[k - 1], e)]
        BY <3>1
      <3>3. RunTo(f, i, e, 0)
        BY <3>2 DEF RunTo
      <3> QED
        BY <2>3, <3>3
    <2>5. x - 1 \in Nat /\ ~(x <= x - 1)
      BY <2>3, <2>4
    <2>6. PICK f : RunTo(f, i, e, x - 1)
      BY <1>1, <2>2, <2>5
    <2>7. PICK g : g = [k \in 0 .. x |-> IF k = x THEN SimplStep(f[x - 1], e) ELSE f[k]]
      OBVIOUS
    <2>8. ASSUME NEW k \in 0 .. x
          PROVE  g[k] = IF k = 0 THEN i ELSE SimplStep(g[k - 1], e)
      <3>1. CASE k = 0
        <4>1. 0 \in 0 .. x - 1
          BY <2>5
        <4>2. f[0] = i
          BY <2>6, <4>1 DEF RunTo
        <4> QED
          BY <2>3, <2>4, <2>7, <3>1, <4>2
      <3>2. CASE k = x
        <4>1. g[x] = SimplStep(f[x - 1], e)
          BY <2>3, <2>7
        <4>2. x - 1 \in 0 .. x /\ x - 1 # x
          BY <2>3, <2>4
        <4>3. g[x - 1] = f[x - 1]
          BY <2>7, <4>2
        <4> QED
          BY <2>4, <3>2, <4>1, <4>3
      <3>3. CASE k # 0 /\ k # x
        <4>1. k \in 0 .. x - 1 /\ k - 1 \in 0 .. x /\ k - 1 # x
          BY <2>3, <3>3
        <4>2. f[k] = SimplStep(f[k - 1], e)
          BY <2>6, <3>3, <4>1 DEF RunTo
        <4>3. g[k] = f[k] /\ g[k - 1] = f[k - 1]
          BY <2>7, <3>3, <4>1
        <4> QED
          BY <3>3, <4>2, <4>3
      <3> QED
        BY <3>1, <3>2, <3>3
    <2>9. g = [k \in 0 .. x |-> IF k = 0 THEN i ELSE SimplStep(g[k - 1], e)]
      BY <2>7, <2>8
    <2>10. RunTo(g, i, e, x)
      BY <2>9, Zenon DEF RunTo
    <2> QED
      BY <2>3, <2>10
  <1> QED
    BY <1>1, <1>2

SimplLoop(f, i, e) == f = [n \in Nat |-> IF n = 0 THEN i ELSE SimplStep(f[n - 1], e)]

\* and so one that goes on for ever.
LEMMA SimplRun ==
    ASSUME NEW i, NEW e
    PROVE  \E f : SimplLoop(f, i, e)
  <1>1. PICK r : r = [n \in Nat |-> CHOOSE f : RunTo(f, i, e, n)]
    OBVIOUS
  <1>2. \A n \in Nat : RunTo(r[n], i, e, n)
    BY <1>1, RunExists
  <1>3. PICK f : f = [n \in Nat |-> r[n][n]]
    OBVIOUS
  <1>4. ASSUME NEW n \in Nat
        PROVE  f[n] = IF n = 0 THEN i ELSE SimplStep(f[n - 1], e)
    <2>1. f[n] = r[n][n] /\ RunTo(r[n], i, e, n) /\ n \in 0 .. n
      BY <1>2, <1>3
    <2>2. CASE n = 0
      BY <2>1, <2>2 DEF RunTo
    <2>3. CASE n # 0
      <3>1. n - 1 \in Nat /\ n - 1 <= n /\ n - 1 \in 0 .. n - 1
        BY <2>3
      <3>2. f[n - 1] = r[n - 1][n - 1] /\ RunTo(r[n - 1], i, e, n - 1)
        BY <1>2, <1>3, <3>1
      <3>3. r[n - 1][n - 1] = r[n][n - 1]
        <4>1. PICK j \in Nat : j = n - 1
          BY <3>1
        <4>2. PICK s, t : s = r[j] /\ t = r[n]
          OBVIOUS
        <4>3. RunTo(s, i, e, j) /\ RunTo(t, i, e, n) /\ j <= n /\ j \in 0 .. j
          BY <2>1, <3>1, <3>2, <4>1, <4>2
        <4>4. s[j] = t[j]
          BY <4>3, RunsAgree
        <4> QED
          BY <4>1, <4>2, <4>4
      <3>4. r[n][n] = SimplStep(r[n][n - 1], e)
        BY <2>1, <2>3 DEF RunTo
      <3> QED
        BY <2>1, <2>3, <3>2, <3>3, <3>4
    <2> QED
      BY <2>2, <2>3
  <1>5. f = [n \in Nat |-> IF n = 0 THEN i ELSE SimplStep(f[n - 1], e)]
    BY <1>3, <1>4
  <1> QED
    BY <1>5 DEF SimplLoop

\* evacuate_packed_simpl copies to the old generation behind what is remembered.
LEMMA SimplLater ==
    ASSUME NEW g, NEW P, HeapOK(g, P), NEW lo \in Nat, Above(P, lo),
           NEW src, NEW src_end, NEW dst, NEW dst_end,
           g.fault = "none" => /\ src \in Nat /\ lo <= src /\ src <= g.brk
                               /\ Cursor(g, P, dst, dst_end),
           NEW n, n = evacuate_packed_simpl(g, src, src_end, dst, dst_end)
    PROVE  LaterOld(g, n, P)
  <1>1. PICK i : i = [h |-> g, src |-> src, dst |-> dst, dst_end |-> dst_end, k |-> 1]
    OBVIOUS
  <1>2. PICK f : f = CHOOSE s : SimplLoop(s, i, src_end)
    OBVIOUS
  <1>3. f = [k \in Nat |-> IF k = 0 THEN i ELSE SimplStep(f[k - 1], src_end)]
    <2>1. SimplLoop(f, i, src_end)
      BY <1>2, SimplRun
    <2> QED
      BY <2>1, Zenon DEF SimplLoop
  <1>4. n = f[Fuel].h
    BY <1>1, <1>2, Zenon DEF evacuate_packed_simpl, SimplLoop
  <1>5. SimplOK(i, g, P, lo)
    <2>1. LaterOld(g, g, P)
      BY LaterRefl
    <2> QED
      BY <1>1, <2>1 DEF SimplOK
  <1>6. PICK T : T = {k \in Nat : ~SimplOK(f[k], g, P, lo)}
    OBVIOUS
  <1>7. ASSUME T # {} PROVE FALSE
    <2>1. T \in SUBSET Nat
      BY <1>6
    <2>2. PICK x \in T : \A y \in T : x <= y
      BY <1>7, <2>1, Least
    <2>3. x \in Nat /\ ~SimplOK(f[x], g, P, lo)
      BY <1>6, <2>2
    <2>4. x # 0
      BY <1>3, <1>5, <2>3
    <2>5. x - 1 \in Nat /\ ~(x <= x - 1)
      BY <2>3, <2>4
    <2>6. SimplOK(f[x - 1], g, P, lo)
      BY <1>6, <2>2, <2>5
    <2>7. f[x] = SimplStep(f[x - 1], src_end)
      BY <1>3, <2>3, <2>4
    <2> QED
      BY <2>3, <2>6, <2>7, SimplKeeps
  <1>8. SimplOK(f[Fuel], g, P, lo)
    BY <1>6, <1>7, ProgramAssumption
  <1> QED
    BY <1>4, <1>8 DEF SimplOK

(***************************************************************************)
(* What the actions do to the heap.                                        *)
(***************************************************************************)
\* A chunk of the nursery; places of P are in the old generation.
LEMMA NurseryChunkOK ==
    ASSUME NEW P, HeapOK(h, P), h.fault = "none",
           h.alloc \in heap_start .. heap_end,
           NEW size \in RegionSizes, Fits(size), NEW n, n = NurseryChunk(size)
    PROVE  /\ HeapOK(n, P) /\ n.fault = "none" /\ n.brk = h.brk /\ n.rem_set = h.rem_set
           /\ n.alloc \in heap_start .. heap_end
           /\ contains_addr(h.alloc - size - NurseryFooterBytes)
           /\ contains_addr(h.alloc - NurseryFooterBytes)
  <1>1. PICK a \in Int : a = h.alloc - NurseryFooterBytes
    BY DEF NurseryFooterBytes
  <1>2. PICK low \in Int : low = h.alloc - size - NurseryFooterBytes
    BY ProgramAssumption DEF NurseryFooterBytes
  <1>3. size \in Nat /\ GoodSize(size)
    BY ProgramAssumption DEF GoodSize
  <1>4. /\ heap_start <= a /\ a <= heap_end /\ heap_start <= low /\ low <= heap_end
        /\ heap_start \in Nat /\ heap_end \in Nat /\ 0 < heap_start
    BY <1>1, <1>2, <1>3, Layout DEF Fits, NurseryFooterBytes
  <1>5. PICK cell : cell = NurseryFooter(size)
    OBVIOUS
  <1>6. cell.tag = "nursery_footer" /\ cell.size = size
    BY <1>5 DEF NurseryFooter
  <1>7. PICK m : m = Write(h.mem, a, cell)
    OBVIOUS
  <1>8. /\ HeapShape(n) /\ n.mem = m /\ n.fault = h.fault /\ n.brk = h.brk
        /\ n.rem_set = h.rem_set /\ n.alloc = low
    <2>1. n = [h EXCEPT !.alloc = low, !.mem = m]
      BY <1>1, <1>2, <1>5, <1>7 DEF NurseryChunk
    <2> QED
      BY <2>1 DEF HeapOK, HeapShape
  <1>9. MemOK(h.mem, P, h.brk) /\ h.brk \in Nat /\ h.brk < heap_start
    BY DEF HeapOK, BrkOK
  <1>10. GoodCell(a, cell, P, h.brk)
    BY <1>3, <1>4, <1>6 DEF GoodCell, contains_addr, Pointers
  <1>11. \A p \in P : p + PtrBytes <= a
    BY <1>4, <1>9 DEF MemOK, RememberedOK, PtrBytes
  <1>12. MemOK(m, P, h.brk)
    BY <1>7, <1>9, <1>10, <1>11, WriteOK
  <1>13. contains_addr(a) /\ contains_addr(low)
    BY <1>4 DEF contains_addr
  <1>14. HeapOK(n, P)
    BY <1>8, <1>12 DEF HeapOK
  <1> QED
    BY <1>1, <1>2, <1>4, <1>8, <1>13, <1>14

\* A tag and a pointer at the write cursors of the nursery.
LEMMA CauterizeOK ==
    ASSUME NEW P, NEW brk, MemOK(h.mem, P, brk), BrkOK(brk), VarShape(var),
           NEW m, m = cauterize_writers(h.mem)
    PROVE  MemOK(m, P, brk)
  <1> DEFINE young == {x \in Writers : contains_addr(var[x].wptr)}
             at == {var[x].wptr : x \in young}
             hit == {b \in DOMAIN h.mem : \E a \in at : b < a + PtrBytes /\ a < b + SizeOf(h.mem[b])}
  <1>0. m = [b \in (DOMAIN h.mem \ hit) \cup at |->
               IF b \in at THEN CauterizedCell(CHOOSE x \in young : var[x].wptr = b) ELSE h.mem[b]]
    BY Zenon DEF cauterize_writers
  <1>1. young = {x \in Writers : contains_addr(var[x].wptr)}
    OBVIOUS
  <1>2. at = {var[x].wptr : x \in young}
    OBVIOUS
  <1>3. hit = {b \in DOMAIN h.mem : \E a \in at : b < a + PtrBytes /\ a < b + SizeOf(h.mem[b])}
    OBVIOUS
  <1> HIDE DEF young, at, hit
  <1>5. \A a \in at : a \in heap_start .. heap_end
    BY <1>1, <1>2 DEF contains_addr
  <1>6. IsFiniteSet(DOMAIN m)
    <2>1. IsFiniteSet(at)
      <3>1. young \subseteq Var
        BY <1>1 DEF Writers
      <3>2. IsFiniteSet(young)
        BY <3>1, FS_Subset, ProgramAssumption
      <3>3. PICK f : f = [x \in young |-> var[x].wptr]
        OBVIOUS
      <3>4. at = {f[x] : x \in young}
        BY <1>2, <3>3
      <3> QED
        BY <3>2, <3>4, FiniteImage
    <2>2. IsFiniteSet(DOMAIN h.mem \ hit)
      BY FS_Subset DEF MemOK
    <2>3. DOMAIN m = (DOMAIN h.mem \ hit) \cup at
      BY <1>0
    <2> QED
      BY <2>1, <2>2, <2>3, FS_Union
  <1>7. ASSUME NEW a \in DOMAIN m
        PROVE  GoodCell(a, m[a], P, brk)
    <2>1. CASE a \in at
      <3>1. PICK x : m[a] = CauterizedCell(x)
        BY <1>0, <2>1
      <3>2. m[a].tag = "CAUTERIZED"
        BY <3>1 DEF CauterizedCell
      <3>3. a \in Nat \ {0} /\ heap_start <= a /\ a <= heap_end
        BY <1>5, <2>1, Layout
      <3> QED
        BY <3>2, <3>3, Layout DEF GoodCell, contains_addr, Pointers
    <2>2. CASE a \notin at
      <3>1. a \in DOMAIN h.mem /\ m[a] = h.mem[a]
        BY <1>0, <2>2
      <3> QED
        BY <3>1 DEF MemOK
    <2> QED
      BY <2>1, <2>2
  <1>8. ASSUME NEW p \in P
        PROVE  p \in DOMAIN m /\ m[p] = h.mem[p]
    <2>1. /\ p \in DOMAIN h.mem /\ YoungPointer(h.mem[p]) /\ p \in Nat /\ p + PtrBytes <= brk
          /\ brk \in Nat /\ brk < heap_start
      BY DEF MemOK, RememberedOK, BrkOK
    <2>2. SizeOf(h.mem[p]) = PtrBytes
      BY <2>1, SizeOfCell DEF YoungPointer
    <2>3. \A a \in at : ~(a < p + PtrBytes) /\ a # p
      BY <1>5, <2>1, Layout DEF PtrBytes
    <2>4. p \notin hit /\ p \notin at
      BY <1>3, <2>2, <2>3
    <2> QED
      BY <1>0, <2>1, <2>4
  <1>9. RememberedOK(m, P, brk)
    <2>1. RememberedOK(h.mem, P, brk)
      BY DEF MemOK
    <2> QED
      BY <1>8, <2>1 DEF RememberedOK
  <1> QED
    BY <1>6, <1>7, <1>9 DEF MemOK

\* A region for the copy of a root.
LEMMA RootChunkLater ==
    ASSUME NEW P, HeapOK(h, P), h.fault = "none", NEW src, NEW src_end, NEW refcount,
           NEW c, c = root_first_chunk(src, src_end, refcount)
    PROVE  /\ LaterOld(h, c.h, P)
           /\ c.h.fault = "none" => /\ c.dst = h.brk /\ c.dst \in Nat /\ c.dst + PtrBytes <= c.h.brk
                                    /\ c.dst_end \in Int /\ c.dst <= c.dst_end /\ c.dst_end + FooterBytes <= c.h.brk
  <1>1. MemOK(h.mem, P, h.brk) /\ BrkOK(h.brk) /\ HeapShape(h)
    BY DEF HeapOK
  <1>2. PICK wild : wild = Fail(h, "wild")
    OBVIOUS
  <1>3. LaterOld(h, wild, P) /\ wild.fault # "none"
    BY <1>1, <1>2, FailSame, SameLater
  <1>4. CASE contains_addr(src_end)
    <2>1. CASE Tag(h.mem, src_end) # "nursery_footer"
      <3>1. c.h = wild
        BY <1>2, <1>4, <2>1 DEF root_first_chunk
      <3> QED
        BY <1>3, <3>1
    <2>2. CASE Tag(h.mem, src_end) = "nursery_footer"
      <3>1. PICK size : size = h.mem[src_end].size + FooterBytes
        OBVIOUS
      <3>2. PICK f : f = FreshRegion(h, size, refcount)
        OBVIOUS
      <3>3. c.h = f.h /\ c.dst = f.dst /\ c.dst_end = f.dst_end
        BY <1>4, <2>2, <3>1, <3>2 DEF root_first_chunk
      <3>4. GoodSize(size)
        <4>1. src_end \in DOMAIN h.mem /\ h.mem[src_end].tag = "nursery_footer"
          BY <2>2 DEF Tag
        <4>2. GoodSize(h.mem[src_end].size)
          BY <1>1, <4>1 DEF MemOK, GoodCell
        <4> QED
          BY <3>1, <4>2, SizesFit
      <3>5. LaterOld(h, f.h, P) /\ (f.h.fault = "none" => NewChunk(h, f, size))
        BY <3>2, <3>4, FreshRegionLater
      <3>6. size \in Nat /\ size >= 56
        BY <3>4, SizesFit
      <3>7. f.h.fault = "none" => f.h.brk \in Nat
        BY <3>5 DEF LaterOld, Later, HeapOK, BrkOK
      <3> QED
        BY <1>1, <3>3, <3>5, <3>6, <3>7 DEF NewChunk, PtrBytes, FooterBytes, BrkOK
    <2> QED
      BY <2>1, <2>2
  <1>5. CASE ~contains_addr(src_end) /\ ~IsFooter(h, src_end)
    <2>1. c.h = wild
      BY <1>2, <1>5 DEF root_first_chunk
    <2> QED
      BY <1>3, <2>1
  <1>6. CASE ~contains_addr(src_end) /\ IsFooter(h, src_end)
    <2>1. PICK size, r : size = h.mem[src_end].size /\ r = RegOf(h, src_end)
      OBVIOUS
    <2>2. PICK a : a = allocate(h, size)
      OBVIOUS
    <2>3. PICK f : f = a.start + size - FooterBytes
      OBVIOUS
    <2>4. PICK k : k = Store(a.h, f, Footer(r, CHUNK_SIZE - FooterBytes, h.regs[r].first))
      OBVIOUS
    <2>0. PICK info : info = [k.regs[r] EXCEPT !.first = f, !.refcount = u16(@ + refcount)]
      OBVIOUS
    <2>5. PICK n : n = [k EXCEPT !.regs[r] = info]
      OBVIOUS
    <2>6. c.h = n /\ c.dst = a.start /\ c.dst_end = f
      BY <1>6, <2>1, <2>2, <2>3, <2>4, <2>5, <2>0 DEF root_first_chunk
    <2>7. size \in Nat /\ size >= 32
      <3>1. src_end \in DOMAIN h.mem /\ h.mem[src_end].tag = "footer"
        BY <1>6 DEF IsFooter, Tag
      <3>2. size \in Nat /\ GoodSize(size + FooterBytes)
        BY <1>1, <2>1, <3>1, FooterIs
      <3>3. size + FooterBytes >= 56
        BY <3>2, SizesFit
      <3> QED
        BY <3>2, <3>3 DEF FooterBytes
    <2>8. /\ LaterOld(h, a.h, P) /\ a.start = h.brk
          /\ a.h.fault = "none" => a.start + size + 8 <= a.h.brk
      BY <2>2, <2>7, AllocateLater
    <2>9. HeapOK(a.h, P)
      BY <2>8 DEF LaterOld, Later
    <2>10. LaterOld(a.h, k, P) /\ k.brk = a.h.brk /\ HeapShape(k) /\ k.fault = a.h.fault
      <3>1. ASSUME a.h.fault = "none"
            PROVE  /\ GoodSize(CHUNK_SIZE)
                   /\ f \in Nat /\ OldBase <= f /\ f + FooterBytes <= a.h.brk
                   /\ \A p \in P : p + PtrBytes <= f
        <4>1. a.h.brk \in Nat
          BY <2>9, <3>1 DEF HeapOK, BrkOK
        <4>2. f \in Nat /\ OldBase <= f /\ f + FooterBytes <= a.h.brk /\ h.brk <= f
          BY <1>1, <2>3, <2>7, <2>8, <3>1, <4>1, Layout DEF BrkOK, FooterBytes
        <4>3. \A p \in P : p + PtrBytes <= f
          BY <1>1, <4>2 DEF MemOK, RememberedOK, BrkOK, PtrBytes
        <4> QED
          BY <4>2, <4>3, SizesFit
      <3>2. LaterOld(a.h, k, P)
        BY <2>4, <2>9, <3>1, FooterStored
      <3>3. HeapShape(a.h)
        BY <2>9 DEF HeapOK
      <3> QED
        BY <2>4, <3>2, <3>3, StoreShape
    <2>11. SameMemory(k, n)
      BY <2>5, <2>10 DEF SameMemory, HeapShape
    <2>12. LaterOld(k, n, P)
      BY <2>10, <2>11, SameLater DEF LaterOld, Later
    <2>13. LaterOld(h, k, P)
      BY <2>8, <2>10, LaterTrans DEF LaterOld
    <2>14. LaterOld(h, n, P)
      BY <2>12, <2>13, LaterTrans DEF LaterOld
    <2>15. ASSUME n.fault = "none"
           PROVE  /\ h.brk \in Nat /\ n.brk \in Nat /\ h.brk + size + 8 <= n.brk
      <3>1. n.brk = a.h.brk /\ a.h.fault = "none"
        BY <2>10, <2>11, <2>15 DEF SameMemory
      <3>2. n.brk \in Nat
        BY <2>14, <2>15 DEF LaterOld, Later, HeapOK, BrkOK
      <3> QED
        BY <1>1, <2>8, <3>1, <3>2 DEF BrkOK
    <2> QED
      BY <2>3, <2>6, <2>7, <2>8, <2>14, <2>15 DEF PtrBytes, FooterBytes
  <1> QED
    BY <1>4, <1>5, <1>6

\* A remembered pointer is changed to one into the old generation.
Forgot(g, R, f, n) ==
    /\ HeapOK(n, PlacesOf(R \ {f})) /\ PlacesOf(R \ {f}) \subseteq PlacesOf(R)
    /\ n.rem_set = g.rem_set /\ n.alloc = g.alloc /\ n.fault = "none" /\ n.brk = g.brk
    /\ IntactIn(n.mem) \subseteq IntactIn(g.mem)
\* A remembered pointer may be redirected to the old generation and be forgotten.
LEMMA ForgetOK ==
    ASSUME NEW g, NEW R, HeapOK(g, PlacesOf(R)), g.fault = "none", Apart(R),
           NEW f \in R, NEW p \in PlacesOf({f}), NEW to \in Int, to < heap_start, NEW offset,
           NEW n, n = Store(g, p, PtrCell("INDIRECTION", to, offset))
    PROVE  Forgot(g, R, f, n)
  <1>0. p = f.ptr - 1
    BY DEF PlacesOf
  <1>1. PICK P, Q : P = PlacesOf(R) /\ Q = PlacesOf(R \ {f})
    OBVIOUS
  <1>2. MemOK(g.mem, P, g.brk) /\ BrkOK(g.brk) /\ HeapShape(g)
    BY <1>1 DEF HeapOK
  <1>3. p \in P /\ P \ {p} = Q /\ p \notin Q
    <2>1. p \in P
      BY <1>0, <1>1 DEF PlacesOf
    <2>2. \A q \in Q : q \in P /\ q # p
      BY <1>0, <1>1 DEF PlacesOf, Apart, PtrBytes
    <2>3. \A q \in P : q # p => q \in Q
      BY <1>0, <1>1 DEF PlacesOf
    <2> QED
      BY <2>1, <2>2, <2>3
  <1>4. PICK cell : cell = PtrCell("INDIRECTION", to, offset)
    OBVIOUS
  <1>5. cell.tag = "INDIRECTION" /\ cell.to = to /\ SizeOf(cell) = PtrBytes
    BY <1>4, PtrShape
  <1>6. p \in DOMAIN g.mem /\ p \in Nat /\ p + PtrBytes <= g.brk
        /\ GoodCell(p, g.mem[p], P, g.brk)
    BY <1>2, <1>3 DEF MemOK, RememberedOK
  <1>7. g.brk \in Nat /\ g.brk < heap_start /\ ~contains_addr(p) /\ ~contains_addr(to)
    BY <1>2, <1>6, Layout DEF BrkOK, contains_addr, PtrBytes
  <1>8. GoodCell(p, cell, Q, g.brk)
    BY <1>5, <1>6, <1>7, Layout DEF GoodCell, Pointers, PtrBytes
  <1>9. \A q \in Q : q + PtrBytes <= p \/ p + PtrBytes <= q
    BY <1>0, <1>1 DEF PlacesOf, Apart, PtrBytes
  <1>10. MemOK(Write(g.mem, p, cell), Q, g.brk)
    <2>1. P \ {p} \subseteq Q /\ Q \subseteq P \cup {p}
      BY <1>3
    <2>2. \A q \in Q \ {p} : q + PtrBytes <= p \/ p + SizeOf(cell) <= q
      BY <1>5, <1>9
    <2> QED
      BY <1>2, <1>3, <1>8, <2>1, <2>2, UpdateOK
  <1>11. n = Store(g, p, cell)
    BY <1>1, <1>4
  <1>12. /\ HeapShape(n) /\ n.mem = Write(g.mem, p, cell)
         /\ n.brk = g.brk /\ n.alloc = g.alloc /\ n.rem_set = g.rem_set /\ n.fault = g.fault
    BY <1>2, <1>11, StoreShape
  <1>13. HeapOK(n, Q)
    BY <1>2, <1>10, <1>12 DEF HeapOK
  <1>14. IntactIn(n.mem) \subseteq IntactIn(g.mem)
    BY <1>7, <1>12, WriteIntact
  <1> QED
    BY <1>1, <1>3, <1>12, <1>13, <1>14 DEF Forgot

(***************************************************************************)
(* The program's steps.                                                    *)
(***************************************************************************)
\* x writes at d, where its chunk ends in e: where it was, or in new memory.
Cleared(w, d, e, brk, brk2) ==
    \/ d = w.wptr /\ e = w.wend
    \/ d = brk /\ e + FooterBytes <= brk2

\* Then n bytes may be written there, and the cursor goes on behind them.
ClearFor(vs, P, x, d, e, n, brk2) ==
    /\ contains_addr(d) => contains_addr(e) /\ contains_addr(d + n)
    /\ ~contains_addr(d) => /\ OldBase <= d /\ e + FooterBytes <= brk2
                            /\ \A p \in P : p + PtrBytes <= d \/ e + FooterBytes <= p
                            /\ \A y \in OldWritersIn(vs) \ {x} :
                                 Top(vs[y]) <= d \/ e + FooterBytes <= vs[y].wptr

\* Where a writer has moved after its bounds check it may write: no other writer and
\* nothing remembered is there.
LEMMA ClearedRoom ==
    ASSUME NEW vs, NEW P, NEW brk \in Nat, ProgramOK(vs, P, brk), BrkOK(brk),
           \A p \in P : p \in Nat /\ p + PtrBytes <= brk,
           NEW brk2, BrkOK(brk2), brk <= brk2, NEW x \in WritersIn(vs),
           NEW d \in Nat, NEW e \in Int, Cleared(vs[x], d, e, brk, brk2),
           NEW n \in Nat, d + n <= e
    PROVE  ClearFor(vs, P, x, d, e, n, brk2)
  <1>1. PICK w : w = vs[x]
    OBVIOUS
  <1>2. WriterOK(w, brk) /\ (~contains_addr(w.wptr) => x \in OldWritersIn(vs))
    BY <1>1 DEF ProgramOK, OldWritersIn
  <1>3. /\ brk2 \in Nat /\ brk2 < heap_start /\ OldBase <= brk
        /\ heap_start \in Nat /\ heap_end \in Nat /\ OldBase \in Nat
    BY Layout DEF BrkOK
  <1>4. \A y \in OldWritersIn(vs) : vs[y].wptr \in Nat /\ Top(vs[y]) \in Int /\ Top(vs[y]) <= brk
    BY DEF ProgramOK, OldWritersIn, WriterOK, Top, PtrBytes, FooterBytes
  <1>5. CASE d = w.wptr /\ e = w.wend
    <2>1. contains_addr(d) => contains_addr(e)
      BY <1>2, <1>5 DEF WriterOK
    <2>2. contains_addr(d) => contains_addr(d + n)
      BY <2>1, <1>3 DEF contains_addr, PtrBytes
    <2>3. ASSUME ~contains_addr(d)
          PROVE  /\ OldBase <= d /\ e + FooterBytes <= brk2
                 /\ Top(w) = e + FooterBytes
      BY <1>2, <1>3, <1>5, <2>3 DEF WriterOK, Top, PtrBytes, FooterBytes
    <2>4. ASSUME ~contains_addr(d), NEW p \in P
          PROVE  p + PtrBytes <= d \/ e + FooterBytes <= p
      BY <1>1, <1>2, <1>5, <2>3, <2>4 DEF ProgramOK, Beside
    <2>5. ASSUME ~contains_addr(d), NEW y \in OldWritersIn(vs) \ {x}
          PROVE  Top(vs[y]) <= d \/ e + FooterBytes <= vs[y].wptr
      BY <1>1, <1>2, <1>5, <2>3, <2>5 DEF ProgramOK
    <2> QED
      BY <2>1, <2>2, <2>3, <2>4, <2>5 DEF ClearFor
  <1>6. CASE d = brk /\ e + FooterBytes <= brk2
    <2>1. ~contains_addr(d)
      BY <1>3, <1>6 DEF contains_addr
    <2> QED
      BY <1>3, <1>4, <1>6, <2>1 DEF ClearFor
  <1> QED
    BY <1>1, <1>5, <1>6 DEF Cleared

\* The place d that has been written may now be remembered.
LEMMA ProgramAdvances ==
    ASSUME NEW vs, NEW P, NEW brk \in Nat, ProgramOK(vs, P, brk), BrkOK(brk),
           \A p \in P : p \in Nat /\ p + PtrBytes <= brk,
           NEW brk2, BrkOK(brk2), brk <= brk2, NEW x \in WritersIn(vs),
           NEW d \in Nat, NEW e \in Int, Cleared(vs[x], d, e, brk, brk2),
           NEW n \in Nat, d + n <= e,
           NEW Q, Q = P \/ (Q = P \cup {d} /\ n >= PtrBytes /\ ~contains_addr(d)),
           NEW ws, x \in WritersIn(ws) => ws[x].wptr = d + n /\ ws[x].wend = e,
           \A y \in WritersIn(ws) \ {x} :
             y \in WritersIn(vs) /\ ws[y].wptr = vs[y].wptr /\ ws[y].wend = vs[y].wend
    PROVE  ProgramOK(ws, Q, brk2)
  <1>1. /\ contains_addr(d) => contains_addr(e) /\ contains_addr(d + n)
        /\ ~contains_addr(d) => /\ OldBase <= d /\ e + FooterBytes <= brk2
                                /\ \A p \in P : p + PtrBytes <= d \/ e + FooterBytes <= p
                                /\ \A y \in OldWritersIn(vs) \ {x} :
                                     Top(vs[y]) <= d \/ e + FooterBytes <= vs[y].wptr
    <2>1. ClearFor(vs, P, x, d, e, n, brk2)
      BY ClearedRoom
    <2> QED
      BY <2>1 DEF ClearFor
  <1>2. /\ brk2 \in Nat /\ brk2 < heap_start /\ heap_start \in Nat /\ heap_end \in Nat
        /\ OldBase \in Nat
    BY Layout DEF BrkOK
  <1>3. ~contains_addr(d) => ~contains_addr(d + n)
    BY <1>1, <1>2 DEF contains_addr, PtrBytes, FooterBytes
  <1>4. \A y \in OldWritersIn(vs) : vs[y].wptr \in Nat /\ Top(vs[y]) \in Int
    BY DEF ProgramOK, OldWritersIn, WriterOK, Top, PtrBytes, FooterBytes
  <1>5. ASSUME x \in WritersIn(ws)
        PROVE  WriterOK(ws[x], brk2) /\ (~contains_addr(d) => Top(ws[x]) = e + FooterBytes)
    <2>1. ws[x].wptr = d + n /\ ws[x].wend = e
      BY <1>5
    <2>2. Top(ws[x]) = e + FooterBytes
      BY <2>1 DEF Top, PtrBytes, FooterBytes
    <2> QED
      BY <1>1, <1>2, <1>3, <2>1, <2>2 DEF WriterOK
  <1>6. ASSUME x \in OldWritersIn(ws)
        PROVE  /\ \A y \in OldWritersIn(vs) \ {x} :
                    Top(ws[x]) <= vs[y].wptr \/ Top(vs[y]) <= ws[x].wptr
               /\ \A q \in Q : Beside(q, ws[x])
    <2>1. ws[x].wptr = d + n /\ ws[x].wend = e /\ ~contains_addr(d + n) /\ x \in WritersIn(ws)
      BY <1>6 DEF OldWritersIn
    <2>2. ~contains_addr(d) /\ Top(ws[x]) = e + FooterBytes
      BY <1>1, <1>5, <2>1
    <2>3. ASSUME NEW q \in Q
          PROVE  Beside(q, ws[x])
      <3>1. CASE q \in P
        BY <1>1, <2>1, <2>2, <3>1 DEF Beside, PtrBytes
      <3>2. CASE q = d /\ n >= PtrBytes
        BY <2>1, <3>2 DEF Beside, PtrBytes
      <3> QED
        BY <3>1, <3>2
    <2>4. ASSUME NEW y \in OldWritersIn(vs) \ {x}
          PROVE  Top(ws[x]) <= vs[y].wptr \/ Top(vs[y]) <= ws[x].wptr
      BY <1>1, <1>4, <2>1, <2>2
    <2> QED
      BY <2>3, <2>4
  <1>7. ASSUME NEW q \in Q \ P, NEW y \in OldWritersIn(vs) \ {x}
        PROVE  Beside(q, vs[y])
    <2>1. q = d /\ ~contains_addr(d)
      OBVIOUS
    <2> QED
      BY <1>1, <1>4, <2>1 DEF Beside, PtrBytes, FooterBytes
  <1> QED
    BY <1>2, <1>5, <1>6, <1>7, ProgramStep

\* The bounds check leaves room for the largest constructor and a pointer.
LEMMA BoundIs ==
    Bound \in Nat /\ \A c \in Con : 1 + ScalarBytes[c] + PtrBytes <= Bound
  <1>1. PICK T : T = {ScalarBytes[c] : c \in Con}
    OBVIOUS
  <1>2. T \subseteq Nat
    BY <1>1, InfoTable
  <1>3. \E m \in T : \A k \in T : m >= k
    BY <1>1, <1>2, ProgramAssumption, InfoTable
  <1>4. PICK m : m = Max(T)
    OBVIOUS
  <1>5. m \in T /\ \A k \in T : m >= k
    BY <1>3, <1>4 DEF Max
  <1>6. Bound = 1 + ReservedBytes + m
    BY <1>1, <1>4 DEF Bound
  <1> QED
    BY <1>1, <1>2, <1>5, <1>6, ProgramAssumption DEF PtrBytes

\* The bounds check of the compiled program, and the growth behind it: there is room
\* for any constructor at the new cursor (boundsCheck, gib_grow_region).
LEMMA CheckedLater ==
    ASSUME GInv, Mutating, NEW x \in Writers, NEW P, P = PlacesOf(h.rem_set),
           NEW c, c = CheckedCursor(x)
    PROVE  /\ Later(h, c.h, P) /\ PointersOK(c.h.mem, P)
           /\ c.h.fault = "none" => /\ c.dst \in Nat /\ c.dst_end \in Int
                                    /\ \A d \in Con : c.dst + 1 + ScalarBytes[d] + PtrBytes <= c.dst_end
                                    /\ Cleared(var[x], c.dst, c.dst_end, h.brk, c.h.brk)
  <1>1. /\ h.fault = "none" /\ HeapOK(h, P) /\ ProgramOK(var, P, h.brk) /\ PointersOK(h.mem, P)
        /\ MemOK(h.mem, P, h.brk) /\ BrkOK(h.brk)
    BY DEF GInv, Good, Mutating, Remembered, HeapOK
  <1>2. PICK a, e : a = var[x].wptr /\ e = var[x].wend
    OBVIOUS
  <1>3. /\ WriterOK(var[x], h.brk)
        /\ ~contains_addr(a) => \A p \in P : Beside(p, var[x])
    BY <1>1, <1>2 DEF Writers, WritersIn, OldWritersIn, ProgramOK
  <1>4. /\ a \in Nat /\ e \in Int /\ h.brk \in Nat /\ h.brk < heap_start
        /\ heap_start \in Nat /\ heap_end \in Nat
    BY <1>1, <1>2, <1>3, Layout DEF WriterOK, BrkOK
  <1>5. CASE a + Bound > e
    <2>1. PICK k : k = gib_grow_region(h, a, e)
      OBVIOUS
    <2>2. c = k
      BY <1>2, <1>5, <2>1 DEF CheckedCursor
    <2>3. contains_addr(a) <=> contains_addr(e)
      <3>1. ~contains_addr(a) => e + FooterBytes <= h.brk
        BY <1>2, <1>3, <1>4 DEF WriterOK, Top, PtrBytes, FooterBytes
      <3> QED
        BY <1>2, <1>3, <1>4, <3>1 DEF WriterOK, contains_addr, FooterBytes
    <2>4. ~contains_addr(a) => Room(h, P, a, PtrBytes)
      <3>1. ASSUME ~contains_addr(a)
            PROVE  Room(h, P, a, PtrBytes)
        <4>1. OldBase <= a /\ Top(var[x]) <= h.brk /\ a + PtrBytes <= Top(var[x]) /\ Top(var[x]) \in Int
          BY <1>2, <1>3, <1>4, <3>1 DEF WriterOK, Top, PtrBytes, FooterBytes
        <4>2. \A p \in P : p \in Nat
          BY <1>1 DEF MemOK, RememberedOK
        <4>3. \A p \in P : p + PtrBytes <= a \/ a + PtrBytes <= p
          BY <1>2, <1>3, <1>4, <3>1, <4>1, <4>2 DEF Beside, PtrBytes
        <4> QED
          BY <1>4, <4>1, <4>3 DEF Room, PtrBytes
      <3> QED
        BY <3>1
    <2>5. /\ Later(h, k.h, P) /\ PointersOK(k.h.mem, P)
          /\ k.h.fault = "none" => \E size : Roomy(size) /\ NewChunk(h, k, size)
      BY <1>1, <2>1, <2>3, <2>4, GrowLater
    <2>6. ASSUME k.h.fault = "none"
          PROVE  /\ k.dst \in Nat /\ k.dst_end \in Int
                 /\ \A d \in Con : k.dst + 1 + ScalarBytes[d] + PtrBytes <= k.dst_end
                 /\ Cleared(var[x], k.dst, k.dst_end, h.brk, k.h.brk)
      <3>1. PICK size : Roomy(size) /\ NewChunk(h, k, size)
        BY <2>5, <2>6
      <3>2. k.dst = h.brk /\ k.dst_end = k.dst + size - FooterBytes /\ k.dst_end + FooterBytes <= k.h.brk
        BY <3>1 DEF NewChunk
      <3>3. size \in Nat
        BY <3>1 DEF Roomy, GoodSize
      <3>4. \A d \in Con : k.dst + 1 + ScalarBytes[d] + PtrBytes <= k.dst_end
        BY <1>4, <3>1, <3>2, <3>3, InfoTable DEF Roomy, RoomFor, PtrBytes, FooterBytes
      <3> QED
        BY <1>4, <3>2, <3>3, <3>4 DEF Cleared, FooterBytes
    <2> QED
      BY <2>2, <2>5, <2>6
  <1>6. CASE ~(a + Bound > e)
    <2>1. c.h = h /\ c.dst = a /\ c.dst_end = e
      BY <1>2, <1>6 DEF CheckedCursor
    <2>2. Later(h, h, P)
      BY <1>1, LaterRefl DEF LaterOld
    <2>3. \A d \in Con : a + 1 + ScalarBytes[d] + PtrBytes <= e
      BY <1>4, <1>6, BoundIs, InfoTable DEF PtrBytes
    <2> QED
      BY <1>1, <1>2, <1>4, <2>1, <2>2, <2>3 DEF Cleared
  <1> QED
    BY <1>5, <1>6

\* What the invariant says while the program runs.
LEMMA MutatorIs ==
    ASSUME GInv, Mutating, NEW P, P = PlacesOf(h.rem_set)
    PROVE  /\ h.fault = "none" /\ HeapShape(h) /\ HeapOK(h, P) /\ MemOK(h.mem, P, h.brk)
           /\ BrkOK(h.brk) /\ h.brk \in Nat
           /\ PointersOK(h.mem, P) /\ \A f \in h.rem_set : f.ptr \in Int
           /\ h.alloc \in heap_start .. heap_end /\ IsFiniteSet(h.rem_set) /\ Apart(h.rem_set)
           /\ VarShape(var) /\ ProgramOK(var, P, h.brk)
           /\ \A p \in P : p \in Nat /\ p + PtrBytes <= h.brk
  <1>1. /\ h.fault = "none" /\ HeapOK(h, P) /\ ProgramOK(var, P, h.brk) /\ PointersOK(h.mem, P)
        /\ \A f \in h.rem_set : f.ptr \in Int
        /\ h.alloc \in heap_start .. heap_end /\ IsFiniteSet(h.rem_set) /\ Apart(h.rem_set)
        /\ VarShape(var)
    BY DEF GInv, Good, Mutating, Remembered
  <1>2. HeapShape(h) /\ MemOK(h.mem, P, h.brk) /\ BrkOK(h.brk) /\ h.brk \in Nat
    BY <1>1 DEF HeapOK, BrkOK
  <1> QED
    BY <1>1, <1>2 DEF MemOK, RememberedOK

\* ... and after a step of it that remembers nothing new.
LEMMA MutatorKeeps ==
    ASSUME GInv, Mutating, NEW P, P = PlacesOf(h.rem_set),
           pc' = "mutator", VarShape(var)',
           HeapOK(h, P)', PointersOK(h.mem, P)', h'.rem_set = h.rem_set,
           h'.fault = "none" => h'.alloc \in heap_start .. heap_end /\ ProgramOK(var, P, h.brk)'
    PROVE  GInv'
  <1>1. IsFiniteSet(h.rem_set) /\ Apart(h.rem_set) /\ \A f \in h.rem_set : f.ptr \in Int
    BY MutatorIs
  <1>2. HeapShape(h') /\ (h'.fault = "none" => HeapOK(h', P))
    BY DEF HeapOK
  <1>3. Remembered' = h.rem_set
    BY DEF Remembered
  <1>4. h'.fault = "none" => Good'
    BY <1>1, <1>2, <1>3 DEF Good
  <1> QED
    BY <1>1, <1>2, <1>4 DEF GInv

\* A region in the nursery (gib_alloc_region_in_nursery_fast),
LEMMA AllocFastInv ==
    ASSUME GInv, NEW x \in Var, NEW size \in RegionSizes, AllocFast(x, size)
    PROVE  GInv'
  <1>1. PICK P : P = PlacesOf(h.rem_set)
    OBVIOUS
  <1>2. Mutating /\ x \in Free /\ Fits(size) /\ pc' = "mutator"
    BY DEF AllocFast, Mutating
  <1>3. PICK n : n = NurseryChunk(size)
    OBVIOUS
  <1>4. h' = n
    BY <1>3 DEF AllocFast
  <1>5. PICK a, e : a = h.alloc - size - NurseryFooterBytes /\ e = h.alloc - NurseryFooterBytes
    OBVIOUS
  <1>6. /\ HeapOK(n, P) /\ n.fault = "none" /\ n.brk = h.brk /\ n.rem_set = h.rem_set
        /\ n.alloc \in heap_start .. heap_end /\ contains_addr(a) /\ contains_addr(e)
    BY <1>1, <1>2, <1>3, <1>5, NurseryChunkOK, MutatorIs
  <1>7. PointersOK(n.mem, P)
    BY <1>6, PointersAre DEF HeapOK
  <1>8. PICK w : w = [ptr |-> 0, endptr |-> 0, wptr |-> a, wend |-> e, todo |-> 1]
    OBVIOUS
  <1>9. var' = [var EXCEPT ![x] = w]
    <2>1. var' = OpenRegion(x, a, e)
      BY <1>5 DEF AllocFast
    <2>2. [Unused EXCEPT !.wptr = a, !.wend = e, !.todo = 1] = w
      BY <1>8, OpenRecord
    <2> QED
      BY <2>1, <2>2 DEF OpenRegion
  <1>10. PICK ws : ws = [var EXCEPT ![x] = w]
    OBVIOUS
  <1>11. VarShape(ws) /\ ws[x] = w /\ \A y \in Var \ {x} : ws[y] = var[y]
    <2>1. VarShape(var) /\ RecShape(w) /\ Assigned(var, x, w, ws)
      BY <1>8, <1>10 DEF GInv, RecShape, Assigned
    <2>2. Put(var, x, w, ws)
      BY <2>1, PutShape
    <2> QED
      BY <2>2 DEF Put
  <1>12. ProgramOK(ws, P, h.brk)
    <2>1. a \in Nat /\ e \in Int
      BY <1>6, Layout DEF contains_addr
    <2>2. WriterOK(ws[x], h.brk) /\ x \notin OldWritersIn(ws)
      BY <1>6, <1>8, <1>11, <2>1 DEF WriterOK, OldWritersIn
    <2>3. \A y \in WritersIn(ws) \ {x} :
            y \in WritersIn(var) /\ ws[y].wptr = var[y].wptr /\ ws[y].wend = var[y].wend
      BY <1>11 DEF WritersIn
    <2>4. h.brk \in Nat /\ ProgramOK(var, P, h.brk) /\ \A p \in P : p \in Nat /\ p + PtrBytes <= h.brk
      BY <1>1, <1>2, MutatorIs
    <2>5. h.brk <= h.brk
      BY <2>4
    <2> QED
      BY <2>2, <2>3, <2>4, <2>5, ProgramMoves
  <1> QED
    BY <1>1, <1>2, <1>4, <1>6, <1>7, <1>9, <1>10, <1>11, <1>12, MutatorKeeps

\* and in the old generation (gib_alloc_region_on_heap).
LEMMA AllocOnHeapInv ==
    ASSUME GInv, NEW x \in Var, NEW size \in RegionSizes, AllocOnHeap(x, size)
    PROVE  GInv'
  <1>1. PICK P : P = PlacesOf(h.rem_set)
    OBVIOUS
  <1>2. Mutating /\ x \in Free /\ pc' = "mutator"
    BY DEF AllocOnHeap, Mutating
  <1>3. PICK s : s = AlignUp(size)
    OBVIOUS
  <1>4. GoodSize(s)
    BY <1>3, ProgramAssumption, SizesFit DEF GoodSize
  <1>5. PICK c : c = allocate_first_chunk(h, s, 1)
    OBVIOUS
  <1>6. h' = c.h /\ var' = OpenRegion(x, c.dst, c.dst_end)
    BY <1>3, <1>5 DEF AllocOnHeap
  <1>7. /\ LaterOld(h, c.h, P) /\ c.dst = h.brk
        /\ c.h.fault = "none" => NewChunk(h, c, s)
    BY <1>1, <1>2, <1>4, <1>5, FirstChunkLater, MutatorIs
  <1>8. PointersOK(c.h.mem, P)
    BY <1>1, <1>2, <1>5, FreshPointers, MutatorIs
  <1>9. HeapOK(c.h, P) /\ c.h.rem_set = h.rem_set /\ c.h.alloc = h.alloc
    BY <1>7 DEF LaterOld, Later
  <1>10. PICK w : w = [ptr |-> 0, endptr |-> 0, wptr |-> c.dst, wend |-> c.dst_end, todo |-> 1]
    OBVIOUS
  <1>11. var' = [var EXCEPT ![x] = w]
    <2>1. PICK a, e : a = c.dst /\ e = c.dst_end
      OBVIOUS
    <2>2. var' = OpenRegion(x, a, e) /\ [Unused EXCEPT !.wptr = a, !.wend = e, !.todo = 1] = w
      BY <1>6, <1>10, <2>1, OpenRecord
    <2> QED
      BY <2>2 DEF OpenRegion
  <1>12. PICK ws : ws = [var EXCEPT ![x] = w]
    OBVIOUS
  <1>13. VarShape(ws) /\ ws[x] = w /\ \A y \in Var \ {x} : ws[y] = var[y]
    <2>1. VarShape(var) /\ RecShape(w) /\ Assigned(var, x, w, ws)
      BY <1>10, <1>12 DEF GInv, RecShape, Assigned
    <2>2. Put(var, x, w, ws)
      BY <2>1, PutShape
    <2> QED
      BY <2>2 DEF Put
  <1>14. ASSUME c.h.fault = "none"
         PROVE  ProgramOK(ws, P, c.h.brk)
    <2>1. /\ h.brk \in Nat /\ OldBase <= h.brk /\ h.brk < heap_start
          /\ c.h.brk \in Nat /\ c.h.brk < heap_start /\ h.brk <= c.h.brk
      BY <1>1, <1>2, <1>7, <1>9, <1>14, MutatorIs DEF LaterOld, Later, HeapOK, BrkOK
    <2>2. s \in Nat /\ s >= 56
      BY <1>4, SizesFit
    <2>3. c.dst = h.brk /\ c.dst_end = h.brk + s - FooterBytes /\ c.dst_end + FooterBytes <= c.h.brk
      BY <1>7, <1>14 DEF NewChunk
    <2>4. WriterOK(ws[x], c.h.brk) /\ h.brk <= ws[x].wptr
      BY <1>10, <1>13, <2>1, <2>2, <2>3, Layout
         DEF WriterOK, Top, contains_addr, PtrBytes, FooterBytes
    <2>5. \A y \in WritersIn(ws) \ {x} :
            y \in WritersIn(var) /\ ws[y].wptr = var[y].wptr /\ ws[y].wend = var[y].wend
      BY <1>13 DEF WritersIn
    <2>6. ProgramOK(var, P, h.brk) /\ \A p \in P : p \in Nat /\ p + PtrBytes <= h.brk
      BY <1>1, <1>2, MutatorIs
    <2> QED
      BY <2>1, <2>4, <2>5, <2>6, ProgramMoves
  <1>15. h.alloc \in heap_start .. heap_end
    BY <1>2, MutatorIs
  <1> QED
    BY <1>1, <1>2, <1>6, <1>8, <1>9, <1>11, <1>12, <1>13, <1>14, <1>15, MutatorKeeps

\* Nothing is written, and fewer variables may write.
LEMMA ReaderStep ==
    ASSUME GInv, Mutating, pc' = "mutator", UNCHANGED h, VarShape(var)',
           \A y \in WritersIn(var') :
             y \in WritersIn(var) /\ var'[y].wptr = var[y].wptr /\ var'[y].wend = var[y].wend
    PROVE  GInv'
  <1>1. PICK P : P = PlacesOf(h.rem_set)
    OBVIOUS
  <1>2. PICK ws : ws = var'
    OBVIOUS
  <1>3. ProgramOK(ws, P, h.brk)
    <2>1. h.brk \in Nat /\ ProgramOK(var, P, h.brk) /\ h.brk <= h.brk /\ P \subseteq P
      BY <1>1, MutatorIs
    <2> QED
      BY <1>2, <2>1, ProgramStays
  <1>4. HeapOK(h, P) /\ PointersOK(h.mem, P) /\ h.alloc \in heap_start .. heap_end
    BY <1>1, MutatorIs
  <1> QED
    BY <1>1, <1>2, <1>3, <1>4, MutatorKeeps

\* The program takes a value apart.
LEMMA ReadPartInv ==
    ASSUME GInv, NEW x \in Var, NEW y \in Var, NEW i, ReadPart(x, y, i)
    PROVE  GInv'
  <1>1. Mutating /\ pc' = "mutator" /\ UNCHANGED h /\ VarShape(var)
    BY DEF ReadPart, Mutating, GInv
  <1>2. PICK vs : vs = IF Sharing = "linear" THEN UsedUp(x) ELSE var
    OBVIOUS
  <1>3. VarShape(vs) /\ \A z \in WritersIn(vs) : z \in WritersIn(var) /\ vs[z] = var[z]
    <2>1. CASE vs = var
      BY <1>1, <2>1
    <2>2. CASE vs = UsedUp(x)
      <3>1. PICK w : w = Unused
        OBVIOUS
      <3>2. vs = [var EXCEPT ![x] = w]
        BY <2>2, <3>1 DEF UsedUp
      <3>3. VarShape(vs) /\ vs[x] = w /\ \A z \in Var \ {x} : vs[z] = var[z]
        <4>1. RecShape(w) /\ Assigned(var, x, w, vs)
          BY <3>1, <3>2, UnusedShape DEF Assigned
        <4>2. Put(var, x, w, vs)
          BY <1>1, <4>1, PutShape
        <4> QED
          BY <4>2 DEF Put
      <3>4. x \notin WritersIn(vs)
        BY <3>1, <3>3, UnusedShape DEF WritersIn
      <3> QED
        BY <3>3, <3>4 DEF WritersIn
    <2> QED
      BY <1>2, <2>1, <2>2
  <1>4. PICK tokens : tokens = ValueOf(h, var, x)
    OBVIOUS
  <1>5. PICK w : w = [ptr |-> tokens[i].at, endptr |-> tokens[i].end, wptr |-> 0, wend |-> 0, todo |-> 0]
    OBVIOUS
  <1>6. var' = [vs EXCEPT ![y] = w]
    <2>1. var' = [vs EXCEPT ![y] = [Unused EXCEPT !.ptr = tokens[i].at, !.endptr = tokens[i].end]]
      BY <1>2, <1>4 DEF ReadPart
    <2>2. [Unused EXCEPT !.ptr = tokens[i].at, !.endptr = tokens[i].end] = w
      BY <1>5, ReadRecord
    <2> QED
      BY <2>1, <2>2
  <1>7. PICK ws : ws = var'
    OBVIOUS
  <1>8. VarShape(ws) /\ ws[y] = w /\ \A z \in Var \ {y} : ws[z] = vs[z]
    <2>1. RecShape(w) /\ Assigned(vs, y, w, ws)
      BY <1>5, <1>6, <1>7 DEF RecShape, Assigned
    <2>2. Put(vs, y, w, ws)
      BY <1>3, <2>1, PutShape
    <2> QED
      BY <2>2 DEF Put
  <1>9. \A z \in WritersIn(ws) : z \in WritersIn(var) /\ ws[z] = var[z]
    <2>1. y \notin WritersIn(ws)
      BY <1>5, <1>8 DEF WritersIn
    <2> QED
      BY <1>3, <1>8, <2>1 DEF WritersIn
  <1> QED
    BY <1>1, <1>7, <1>8, <1>9, ReaderStep

\* The program forgets a variable.
LEMMA DropInv ==
    ASSUME GInv, NEW x \in Var, Drop(x)
    PROVE  GInv'
  <1>1. Mutating /\ pc' = "mutator" /\ UNCHANGED h /\ VarShape(var)
    BY DEF Drop, Mutating, GInv
  <1>2. PICK w, ws : w = Unused /\ ws = var'
    OBVIOUS
  <1>3. ws = [var EXCEPT ![x] = w]
    BY <1>2 DEF Drop
  <1>4. VarShape(ws) /\ ws[x] = w /\ \A z \in Var \ {x} : ws[z] = var[z]
    <2>1. RecShape(w) /\ Assigned(var, x, w, ws)
      BY <1>2, <1>3, UnusedShape DEF Assigned
    <2>2. Put(var, x, w, ws)
      BY <1>1, <2>1, PutShape
    <2> QED
      BY <2>2 DEF Put
  <1>5. x \notin WritersIn(ws)
    BY <1>2, <1>4, UnusedShape DEF WritersIn
  <1>6. \A z \in WritersIn(ws) : z \in WritersIn(var) /\ ws[z] = var[z]
    BY <1>4, <1>5 DEF WritersIn
  <1> QED
    BY <1>1, <1>2, <1>4, <1>6, ReaderStep

\* x's cursor has moved on to d, in the chunk with footer e, if it still writes.
Moved(vs, ws, x, d, e) ==
    /\ VarShape(ws)
    /\ x \in WritersIn(ws) => ws[x].wptr = d /\ ws[x].wend = e
    /\ \A y \in WritersIn(ws) \ {x} : y \in WritersIn(vs) /\ ws[y] = vs[y]

\* A write moves the cursor behind what was written.
LEMMA AdvanceIs ==
    ASSUME VarShape(var), NEW vs, VarShape(vs), NEW x \in Writers, NEW c, NEW n, NEW k \in Nat,
           NEW b, Advance(x, vs, c, n, k, b), NEW ws, ws = var'
    PROVE  Moved(vs, ws, x, c.dst + n, c.dst_end)
  <1>1. PICK todo : todo = var[x].todo - 1 + k
    OBVIOUS
  <1>2. x \in Var /\ todo \in Nat
    BY <1>1 DEF VarShape, RecShape, Writers
  <1>3. PICK w : /\ RecShape(w) /\ ws = [vs EXCEPT ![x] = w]
                 /\ w.todo > 0 => w.wptr = c.dst + n /\ w.wend = c.dst_end
    <2>1. PICK p, e, wp, we :
               /\ ws = [vs EXCEPT ![x] = [ptr |-> p, endptr |-> e, wptr |-> wp, wend |-> we, todo |-> todo]]
               /\ wp = (IF todo = 0 THEN 0 ELSE c.dst + n)
               /\ we = (IF todo = 0 THEN 0 ELSE c.dst_end)
      BY <1>1, <1>2 DEF Advance, VarShape
    <2>2. PICK w : w = [ptr |-> p, endptr |-> e, wptr |-> wp, wend |-> we, todo |-> todo]
      OBVIOUS
    <2>3. RecShape(w)
      BY <1>2, <2>2 DEF RecShape
    <2>4. w.todo > 0 => w.wptr = c.dst + n /\ w.wend = c.dst_end
      BY <2>1, <2>2
    <2> QED
      BY <2>1, <2>2, <2>3, <2>4
  <1>4. Put(vs, x, w, ws)
    <2>1. Assigned(vs, x, w, ws)
      BY <1>3 DEF Assigned
    <2> QED
      BY <1>3, <2>1, PutShape
  <1>5. VarShape(ws) /\ ws[x] = w /\ \A y \in Var \ {x} : ws[y] = vs[y]
    BY <1>2, <1>4 DEF Put
  <1> QED
    BY <1>3, <1>5 DEF WritersIn, Moved

\* The cell of a constructor is neither a pointer nor burned, nor a footer.
LEMMA ConShape ==
    ASSUME NEW con \in Con, NEW id, NEW cell, cell = ConCell(con, id)
    PROVE  /\ cell.tag = con /\ SizeOf(cell) = 1 + ScalarBytes[con] /\ SizeOf(cell) \in Nat
           /\ con \notin Burnt /\ con \notin Pointers
           /\ con # "nursery_footer" /\ con # "footer"
  <1>1. cell.tag = con
    BY DEF ConCell
  <1>2. /\ con # "INDIRECTION" /\ con # "REDIRECTION" /\ con # "COPIED" /\ con # "COPIED_TO"
        /\ con # "nursery_footer" /\ con # "footer"
    BY TagsApart
  <1> QED
    BY <1>1, <1>2, SizeOfCell, InfoTable DEF Burnt, Pointers

\* Where the checked cursor is, the program may write.
LEMMA CheckedClear ==
    ASSUME GInv, Mutating, NEW x \in Writers, NEW P, P = PlacesOf(h.rem_set),
           NEW c, c = CheckedCursor(x), c.h.fault = "none",
           NEW n \in Nat, c.dst + n <= c.dst_end
    PROVE  /\ ClearFor(var, P, x, c.dst, c.dst_end, n, c.h.brk)
           /\ c.dst \in Nat /\ c.dst_end \in Int /\ BrkOK(c.h.brk) /\ h.brk <= c.h.brk
           /\ x \in WritersIn(var)
           /\ ~contains_addr(c.dst) => Room(c.h, P, c.dst, n)
           /\ contains_addr(c.dst) => \A p \in P : p + PtrBytes <= c.dst
  <1>1. PICK d, e, brk, brk2 : d = c.dst /\ e = c.dst_end /\ brk = h.brk /\ brk2 = c.h.brk
    OBVIOUS
  <1>2. /\ Later(h, c.h, P) /\ d \in Nat /\ e \in Int /\ Cleared(var[x], d, e, brk, brk2)
    BY <1>1, CheckedLater
  <1>3. BrkOK(brk2) /\ brk <= brk2 /\ x \in WritersIn(var) /\ h.fault = "none"
    BY <1>1, <1>2 DEF Later, HeapOK, Writers, WritersIn
  <1>4. /\ brk \in Nat /\ BrkOK(brk) /\ ProgramOK(var, P, brk)
        /\ \A p \in P : p \in Nat /\ p + PtrBytes <= brk
    BY <1>1, MutatorIs
  <1>5. d + n <= e
    BY <1>1
  <1>6. ClearFor(var, P, x, d, e, n, brk2)
    BY <1>2, <1>3, <1>4, <1>5, ClearedRoom
  <1>7. brk2 \in Nat /\ brk2 < heap_start /\ heap_start \in Nat /\ heap_end \in Nat
    BY <1>3, Layout DEF BrkOK
  <1>8. ASSUME ~contains_addr(d)
        PROVE  Room(c.h, P, d, n)
    <2>1. /\ OldBase <= d /\ e + FooterBytes <= brk2
          /\ \A p \in P : p + PtrBytes <= d \/ e + FooterBytes <= p
      BY <1>6, <1>8 DEF ClearFor
    <2>2. d + n <= brk2
      BY <1>2, <1>5, <1>7, <2>1 DEF PtrBytes, FooterBytes
    <2>3. \A p \in P : p + PtrBytes <= d \/ d + n <= p
      BY <1>2, <1>4, <1>5, <2>1 DEF PtrBytes, FooterBytes
    <2> QED
      BY <1>1, <1>2, <2>1, <2>2, <2>3 DEF Room
  <1>9. ASSUME contains_addr(d), NEW p \in P
        PROVE  p + PtrBytes <= d
    <2>1. heap_start <= d
      BY <1>9 DEF contains_addr
    <2> QED
      BY <1>2, <1>3, <1>4, <1>7, <2>1 DEF PtrBytes
  <1> QED
    BY <1>1, <1>2, <1>3, <1>6, <1>8, <1>9

\* The program writes a constructor, after its bounds check.
LEMMA WriteConInv ==
    ASSUME GInv, NEW x \in Var, NEW con \in Con, NEW b, WriteCon(x, con, b)
    PROVE  GInv'
  <1>1. PICK P : P = PlacesOf(h.rem_set)
    OBVIOUS
  <1>2. Mutating /\ x \in Writers /\ pc' = "mutator"
    BY DEF WriteCon, Mutating
  <1>3. PICK c : c = CheckedCursor(x)
    OBVIOUS
  <1>4. PICK id : id = IF ScalarBytes[con] = 0 THEN 0 ELSE count.writes
    OBVIOUS
  <1>5. PICK cell : cell = ConCell(con, id)
    OBVIOUS
  <1>6. h' = Store(c.h, c.dst, cell) /\ Advance(x, var, c, SizeOf(cell), Fields[con], b)
    BY <1>3, <1>4, <1>5 DEF WriteCon
  <1>7. PICK n : n = SizeOf(cell)
    OBVIOUS
  <1>8. /\ cell.tag = con /\ n = 1 + ScalarBytes[con] /\ n \in Nat
        /\ con \notin Burnt /\ con \notin Pointers /\ con # "nursery_footer" /\ con # "footer"
    BY <1>5, <1>7, ConShape
  <1>9. /\ Later(h, c.h, P) /\ PointersOK(c.h.mem, P)
        /\ c.h.fault = "none" => /\ c.dst + 1 + ScalarBytes[con] + PtrBytes <= c.dst_end
                                 /\ c.dst \in Nat /\ c.dst_end \in Int
                                 /\ Cleared(var[x], c.dst, c.dst_end, h.brk, c.h.brk)
    BY <1>1, <1>2, <1>3, CheckedLater
  <1>10. HeapOK(c.h, P) /\ c.h.rem_set = h.rem_set /\ c.h.alloc = h.alloc
    BY <1>9 DEF Later
  <1>11. ASSUME c.h.fault = "none"
         PROVE  c.dst + n <= c.dst_end
    BY <1>8, <1>9, <1>11, InfoTable DEF PtrBytes
  <1>12. ASSUME c.h.fault = "none"
         PROVE  /\ GoodCell(c.dst, cell, P, c.h.brk)
                /\ \A p \in P : p + PtrBytes <= c.dst \/ c.dst + SizeOf(cell) <= p
    <2>1. /\ ClearFor(var, P, x, c.dst, c.dst_end, n, c.h.brk)
          /\ c.dst \in Nat /\ c.dst_end \in Int /\ BrkOK(c.h.brk)
          /\ ~contains_addr(c.dst) => Room(c.h, P, c.dst, n)
          /\ contains_addr(c.dst) => \A p \in P : p + PtrBytes <= c.dst
      BY <1>1, <1>2, <1>3, <1>8, <1>11, <1>12, CheckedClear
    <2>2. \A p \in P : p + PtrBytes <= c.dst \/ c.dst + SizeOf(cell) <= p
      BY <1>7, <2>1 DEF Room
    <2>3. CASE contains_addr(c.dst)
      <3>1. heap_start <= c.dst /\ c.dst <= heap_end
        BY <2>3 DEF contains_addr
      <3> QED
        BY <1>8, <2>1, <2>2, <2>3, <3>1, Layout DEF GoodCell, Burnt
    <2>4. CASE ~contains_addr(c.dst)
      <3>1. OldBase <= c.dst /\ c.dst + n <= c.h.brk
        BY <2>1, <2>4 DEF Room
      <3>2. c.dst < heap_start /\ c.dst # 0
        BY <1>8, <2>1, <3>1, Layout DEF BrkOK
      <3> QED
        BY <1>7, <1>8, <2>1, <2>2, <3>1, <3>2, Layout DEF GoodCell, Burnt
    <2> QED
      BY <2>3, <2>4
  <1>13. PICK k : k = Store(c.h, c.dst, cell)
    OBVIOUS
  <1>14. Later(c.h, k, P)
    BY <1>10, <1>12, <1>13, StoreLater
  <1>15. k.mem = Write(c.h.mem, c.dst, cell) /\ k.brk = c.h.brk /\ k.fault = c.h.fault
    BY <1>10, <1>13, StoreShape DEF HeapOK
  <1>16. PointersOK(k.mem, P)
    BY <1>8, <1>9, <1>15, PointersWrite
  <1>17. HeapOK(k, P) /\ k.rem_set = h.rem_set /\ k.alloc = h.alloc
    BY <1>10, <1>14 DEF Later
  <1>18. PICK ws : ws = var'
    OBVIOUS
  <1>19. VarShape(var)
    BY DEF GInv
  <1>20. /\ VarShape(ws)
         /\ x \in WritersIn(ws) => ws[x].wptr = c.dst + n /\ ws[x].wend = c.dst_end
         /\ \A y \in WritersIn(ws) \ {x} : y \in WritersIn(var) /\ ws[y] = var[y]
    <2>1. Fields[con] \in Nat
      BY InfoTable
    <2>2. Moved(var, ws, x, c.dst + n, c.dst_end)
      BY <1>2, <1>6, <1>7, <1>18, <1>19, <2>1, AdvanceIs
    <2> QED
      BY <2>2 DEF Moved
  <1>21. ASSUME k.fault = "none"
         PROVE  ProgramOK(ws, P, k.brk)
    <2>1. PICK d, e, brk, brk2 : d = c.dst /\ e = c.dst_end /\ brk = h.brk /\ brk2 = k.brk
      OBVIOUS
    <2>2. c.h.fault = "none" /\ brk2 = c.h.brk
      BY <1>15, <1>21, <2>1
    <2>3. d \in Nat /\ e \in Int /\ BrkOK(brk2) /\ brk <= brk2 /\ x \in WritersIn(var)
      BY <1>1, <1>2, <1>3, <1>8, <1>11, <2>1, <2>2, CheckedClear
    <2>4. Cleared(var[x], d, e, brk, brk2) /\ d + n <= e
      BY <1>9, <1>11, <2>1, <2>2
    <2>5. /\ brk \in Nat /\ BrkOK(brk) /\ ProgramOK(var, P, brk)
          /\ \A p \in P : p \in Nat /\ p + PtrBytes <= brk
      BY <1>1, <1>2, <2>1, MutatorIs
    <2>6. /\ x \in WritersIn(ws) => ws[x].wptr = d + n /\ ws[x].wend = e
          /\ \A y \in WritersIn(ws) \ {x} :
               y \in WritersIn(var) /\ ws[y].wptr = var[y].wptr /\ ws[y].wend = var[y].wend
      BY <1>20, <2>1
    <2>7. P = P
      OBVIOUS
    <2>8. ProgramOK(ws, P, brk2)
      BY <1>8, <2>3, <2>4, <2>5, <2>6, <2>7, ProgramAdvances
    <2> QED
      BY <2>1, <2>8
  <1>22. h.alloc \in heap_start .. heap_end
    BY <1>2, MutatorIs
  <1>23. h' = k /\ var' = ws
    BY <1>6, <1>13, <1>18
  <1> QED
    BY <1>1, <1>2, <1>16, <1>17, <1>20, <1>21, <1>22, <1>23, MutatorKeeps

\* A region goes on where it was, or in new memory (gib_grow_region).
LEMMA GrowDst ==
    ASSUME NEW g, NEW a, NEW f, NEW c, c = gib_grow_region(g, a, f)
    PROVE  c.dst = a \/ c.dst = g.brk
  <1>1. ASSUME NEW size, NEW k, k = LinkChunk(g, a, f, size)
        PROVE  k.dst = g.brk
    BY <1>1 DEF LinkChunk, allocate
  <1>2. ASSUME NEW size, NEW k, k = FreshRegion(g, size, 0)
        PROVE  k.dst = g.brk
    <2>1. PICK t : t = allocate_first_chunk(g, size, 0)
      OBVIOUS
    <2>2. t.dst = g.brk
      BY <2>1 DEF allocate_first_chunk, allocate
    <2>3. k.dst = t.dst
      BY <1>2, <2>1 DEF FreshRegion, allocate_first_chunk
    <2> QED
      BY <2>2, <2>3
  <1>3. CASE Tag(g.mem, f) # (IF contains_addr(f) THEN "nursery_footer" ELSE "footer")
    <2>1. PICK t : t = Fail(g, "wild")
      OBVIOUS
    <2>2. c = [h |-> t, dst |-> a, dst_end |-> f]
      BY <1>3, <2>1 DEF gib_grow_region
    <2> QED
      BY <2>2
  <1>4. CASE Tag(g.mem, f) = "nursery_footer" /\ contains_addr(f)
    <2>1. PICK size : size = AlignUp(2 * g.mem[f].size)
      OBVIOUS
    <2>2. PICK k : k = FreshRegion(g, size, 0)
      OBVIOUS
    <2>3. PICK t : t = Store(k.h, a, PtrCell("REDIRECTION", k.dst, k.dst_end - k.dst))
      OBVIOUS
    <2>4. c = [k EXCEPT !.h = t]
      BY <1>4, <2>1, <2>2, <2>3 DEF gib_grow_region
    <2>5. c.dst = k.dst
      BY <2>4
    <2> QED
      BY <1>2, <2>2, <2>5
  <1>5. CASE Tag(g.mem, f) = "footer" /\ ~contains_addr(f)
    <2>1. PICK size : size = AlignUp(NextChunkSize(g, f))
      OBVIOUS
    <2>2. c = LinkChunk(g, a, f, size)
      BY <1>5, <2>1 DEF gib_grow_region
    <2> QED
      BY <1>1, <2>2
  <1> QED
    BY <1>3, <1>4, <1>5

\* The invariant after a step of the program that remembers the pointer at a.
LEMMA MutatorRemembers ==
    ASSUME GInv, Mutating, NEW P, P = PlacesOf(h.rem_set),
           pc' = "mutator", VarShape(var)', NEW a \in Int, NEW e,
           HeapOK(h', P \cup {a}), PointersOK(h'.mem, P \cup {a}),
           h'.rem_set = h.rem_set \cup {[ptr |-> a + 1, endptr |-> e]},
           h'.fault = "none" =>
             /\ h'.alloc \in heap_start .. heap_end
             /\ ProgramOK(var', P \cup {a}, h'.brk)
             /\ \A p \in P : p + PtrBytes <= a \/ a + PtrBytes <= p
    PROVE  GInv'
  <1>1. IsFiniteSet(h.rem_set) /\ Apart(h.rem_set) /\ \A f \in h.rem_set : f.ptr \in Int
    BY MutatorIs
  <1>2. PICK f, R : f = [ptr |-> a + 1, endptr |-> e] /\ R = h'.rem_set
    OBVIOUS
  <1>3. f.ptr = a + 1 /\ R = h.rem_set \cup {f} /\ f.ptr - 1 = a
    BY <1>2
  <1>4. PlacesOf(R) = P \cup {a}
    BY <1>3 DEF PlacesOf
  <1>5. \A g \in R : g.ptr \in Int
    BY <1>1, <1>3
  <1>6. ASSUME h'.fault = "none"
        PROVE  Apart(R)
    <2>1. ASSUME NEW g \in h.rem_set
          PROVE  g.ptr + PtrBytes <= f.ptr \/ f.ptr + PtrBytes <= g.ptr
      <3>1. PICK p : p = g.ptr - 1
        OBVIOUS
      <3>2. p \in P
        BY <3>1 DEF PlacesOf
      <3>3. p + PtrBytes <= a \/ a + PtrBytes <= p
        BY <1>6, <3>2
      <3> QED
        BY <1>1, <1>3, <3>1, <3>3 DEF PtrBytes
    <2> QED
      BY <1>1, <1>3, <1>5, <2>1 DEF Apart
  <1>7. IsFiniteSet(R)
    BY <1>1, <1>3, FS_AddElement
  <1>8. Remembered' = R
    BY <1>2 DEF Remembered
  <1>9. h'.fault = "none" => Good'
    BY <1>2, <1>4, <1>6, <1>7, <1>8 DEF Good
  <1>10. HeapShape(h')
    BY DEF HeapOK
  <1> QED
    BY <1>2, <1>4, <1>5, <1>9, <1>10 DEF GInv

\* The program writes an indirection through the barrier (gib_indirection_barrier).
LEMMA WriteIndirectionInv ==
    ASSUME GInv, NEW x \in Var, NEW y \in Var, NEW b, WriteIndirection(x, y, b)
    PROVE  GInv'
  <1>1. PICK P : P = PlacesOf(h.rem_set)
    OBVIOUS
  <1>2. Mutating /\ x \in Writers /\ x # y /\ pc' = "mutator"
    BY DEF WriteIndirection, Mutating
  <1>3. PICK c : c = CheckedCursor(x)
    OBVIOUS
  <1>4. PICK vs : vs = IF Sharing = "free" THEN var ELSE UsedUp(y)
    OBVIOUS
  <1>5. /\ h' = gib_indirection_barrier(c.h, c.dst, c.dst_end, var[y].ptr, var[y].endptr)
        /\ Advance(x, vs, c, PtrBytes, 0, b)
    BY <1>3, <1>4 DEF WriteIndirection
  <1>6. VarShape(var)
    BY DEF GInv
  <1>7. VarShape(vs) /\ \A z \in WritersIn(vs) : z \in WritersIn(var) /\ vs[z] = var[z]
    <2>1. CASE vs = var
      BY <1>6, <2>1
    <2>2. CASE vs = UsedUp(y)
      <3>1. PICK w : w = Unused
        OBVIOUS
      <3>2. vs = [var EXCEPT ![y] = w]
        BY <2>2, <3>1 DEF UsedUp
      <3>3. VarShape(vs) /\ vs[y] = w /\ \A z \in Var \ {y} : vs[z] = var[z]
        <4>1. RecShape(w) /\ Assigned(var, y, w, vs)
          BY <3>1, <3>2, UnusedShape DEF Assigned
        <4>2. Put(var, y, w, vs)
          BY <1>6, <4>1, PutShape
        <4> QED
          BY <4>2 DEF Put
      <3>4. y \notin WritersIn(vs)
        BY <3>1, <3>3, UnusedShape DEF WritersIn
      <3> QED
        BY <3>3, <3>4 DEF WritersIn
    <2> QED
      BY <1>4, <2>1, <2>2
  <1>8. PICK d, e, brk, brk2, n : /\ d = c.dst /\ e = c.dst_end /\ brk = h.brk /\ brk2 = c.h.brk
                                  /\ n = PtrBytes
    OBVIOUS
  <1>9. /\ Later(h, c.h, P) /\ PointersOK(c.h.mem, P)
        /\ c.h.fault = "none" => /\ d \in Nat /\ e \in Int
                                 /\ \A con \in Con : d + 1 + ScalarBytes[con] + PtrBytes <= e
                                 /\ Cleared(var[x], d, e, brk, brk2)
    BY <1>1, <1>2, <1>3, <1>8, CheckedLater
  <1>10. HeapOK(c.h, P) /\ c.h.rem_set = h.rem_set /\ c.h.alloc = h.alloc
    BY <1>9 DEF Later
  <1>11. ASSUME c.h.fault = "none"
         PROVE  d + n <= e
    <2>1. PICK con \in Con : TRUE
      BY ProgramAssumption
    <2>2. d + 1 + ScalarBytes[con] + PtrBytes <= e /\ ScalarBytes[con] \in Nat /\ d \in Nat /\ e \in Int
      BY <1>9, <1>11, <2>1, InfoTable
    <2> QED
      BY <1>8, <2>2 DEF PtrBytes
  <1>12. d \in Int
    <2>1. brk \in Nat /\ var[x].wptr \in Nat
      <3>1. ProgramOK(var, P, h.brk) /\ h.brk \in Nat
        BY <1>1, <1>2, MutatorIs
      <3>2. WriterOK(var[x], h.brk)
        BY <1>2, <3>1 DEF ProgramOK, Writers, WritersIn
      <3> QED
        BY <1>8, <3>1, <3>2 DEF WriterOK
    <2>2. d = var[x].wptr \/ d = brk
      BY <1>3, <1>8, GrowDst DEF CheckedCursor
    <2> QED
      BY <2>1, <2>2
  <1>13. ASSUME c.h.fault = "none"
         PROVE  /\ BrkOK(brk2) /\ brk <= brk2 /\ x \in WritersIn(var)
                /\ contains_addr(d) \/ Room(c.h, P, d, PtrBytes)
    <2>1. n \in Nat
      BY <1>8 DEF PtrBytes
    <2> QED
      BY <1>1, <1>2, <1>3, <1>8, <1>11, <1>13, <2>1, CheckedClear
  <1>14. /\ h'.brk = brk2 /\ h'.alloc = h.alloc
         /\ h'.fault = "none" => c.h.fault = "none"
         /\ \/ h'.rem_set = h.rem_set /\ HeapOK(h', P) /\ PointersOK(h'.mem, P)
            \/ /\ h'.rem_set = h.rem_set \cup {[ptr |-> d + 1, endptr |-> e]}
               /\ ~contains_addr(d)
               /\ HeapOK(h', P \cup {d}) /\ PointersOK(h'.mem, P \cup {d})
    <2>1. c.h.fault = "none" => contains_addr(d) \/ Room(c.h, P, d, PtrBytes)
      BY <1>13
    <2>2. PICK g, k, to, footer : /\ g = c.h /\ to = var[y].ptr /\ footer = var[y].endptr
                                  /\ k = gib_indirection_barrier(g, d, e, to, footer)
      OBVIOUS
    <2>3. h' = k
      BY <1>5, <1>8, <2>2
    <2>4. HeapOK(g, P) /\ PointersOK(g.mem, P)
          /\ (g.fault = "none" => contains_addr(d) \/ Room(g, P, d, PtrBytes))
      BY <1>9, <1>10, <2>1, <2>2
    <2>5. /\ k.brk = g.brk /\ k.alloc = g.alloc
          /\ k.fault = "none" => g.fault = "none"
          /\ \/ k.rem_set = g.rem_set /\ HeapOK(k, P) /\ PointersOK(k.mem, P)
             \/ /\ k.rem_set = g.rem_set \cup {[ptr |-> d + 1, endptr |-> e]}
                /\ ~contains_addr(d)
                /\ HeapOK(k, P \cup {d}) /\ PointersOK(k.mem, P \cup {d})
      BY <2>2, <2>4, BarrierLater
    <2> QED
      BY <1>8, <1>10, <2>2, <2>3, <2>5
  <1>15. PICK ws : ws = var'
    OBVIOUS
  <1>16. /\ VarShape(ws)
         /\ x \in WritersIn(ws) => ws[x].wptr = d + n /\ ws[x].wend = e
         /\ \A z \in WritersIn(ws) \ {x} : z \in WritersIn(var) /\ ws[z] = var[z]
    <2>1. Moved(vs, ws, x, c.dst + n, c.dst_end)
      <3>1. PICK k \in Nat : k = 0
        OBVIOUS
      <3>2. Advance(x, vs, c, n, k, b)
        BY <1>5, <1>8, <3>1
      <3>3. VarShape(vs)
        BY <1>7
      <3> QED
        BY <1>2, <1>6, <1>15, <3>1, <3>2, <3>3, AdvanceIs
    <2> QED
      BY <1>7, <1>8, <2>1 DEF Moved
  <1>17. ASSUME c.h.fault = "none", NEW Q, Q = P \/ (Q = P \cup {d} /\ ~contains_addr(d))
         PROVE  ProgramOK(ws, Q, brk2)
    <2>1. d \in Nat /\ e \in Int /\ BrkOK(brk2) /\ brk <= brk2 /\ x \in WritersIn(var)
          /\ Cleared(var[x], d, e, brk, brk2) /\ d + n <= e
      BY <1>9, <1>11, <1>13, <1>17
    <2>2. /\ brk \in Nat /\ BrkOK(brk) /\ ProgramOK(var, P, brk)
          /\ \A p \in P : p \in Nat /\ p + PtrBytes <= brk
      BY <1>1, <1>2, <1>8, MutatorIs
    <2>3. \A z \in WritersIn(ws) \ {x} :
             z \in WritersIn(var) /\ ws[z].wptr = var[z].wptr /\ ws[z].wend = var[z].wend
      BY <1>16
    <2>4. n \in Nat /\ n >= PtrBytes
      BY <1>8 DEF PtrBytes
    <2>5. Q = P \/ (Q = P \cup {d} /\ n >= PtrBytes /\ ~contains_addr(d))
      BY <1>17, <2>4
    <2> QED
      BY <1>16, <2>1, <2>2, <2>3, <2>4, <2>5, ProgramAdvances
  <1>18. h.alloc \in heap_start .. heap_end
    BY <1>2, MutatorIs
  <1>19. CASE h'.rem_set = h.rem_set /\ HeapOK(h', P) /\ PointersOK(h'.mem, P)
    <2>1. h'.fault = "none" => ProgramOK(var', P, h'.brk)
      BY <1>14, <1>15, <1>17
    <2> QED
      BY <1>1, <1>2, <1>14, <1>15, <1>16, <1>18, <1>19, <2>1, MutatorKeeps
  <1>20. CASE /\ h'.rem_set = h.rem_set \cup {[ptr |-> d + 1, endptr |-> e]}
              /\ ~contains_addr(d)
              /\ HeapOK(h', P \cup {d}) /\ PointersOK(h'.mem, P \cup {d})
    <2>1. h'.fault = "none" => ProgramOK(var', P \cup {d}, h'.brk)
      BY <1>14, <1>15, <1>17, <1>20
    <2>2. h'.fault = "none" => \A p \in P : p + PtrBytes <= d \/ d + PtrBytes <= p
      <3>1. ASSUME h'.fault = "none"
            PROVE  Room(c.h, P, d, PtrBytes)
        BY <1>13, <1>14, <1>20, <3>1
      <3> QED
        BY <3>1 DEF Room
    <2> QED
      BY <1>1, <1>2, <1>12, <1>14, <1>15, <1>16, <1>18, <1>20, <2>1, <2>2, MutatorRemembers
  <1> QED
    BY <1>14, <1>19, <1>20

(***************************************************************************)
(* The collection.                                                         *)
(***************************************************************************)
LEMMA RootsAre ==
    ASSUME VarShape(var), IsFiniteSet(h.rem_set), Apart(h.rem_set)
    PROVE  /\ IsFiniteSet(Roots)
           /\ \A r \in Roots : r.prov \in {"Stk", "RemSet"}
           /\ PlacesOf({r \in Roots : r.prov = "RemSet"}) = PlacesOf(h.rem_set)
           /\ Apart({r \in Roots : r.prov = "RemSet"})
  <1>1. PICK f : f = [x \in Readers |-> [prov |-> "Stk", ptr |-> var[x].ptr, endptr |-> var[x].endptr, x |-> x]]
    OBVIOUS
  <1>2. PICK g : g = [k \in h.rem_set |-> [prov |-> "RemSet", ptr |-> k.ptr, endptr |-> k.endptr, x |-> 0]]
    OBVIOUS
  <1>3. PICK S, T : S = {f[x] : x \in Readers} /\ T = {g[k] : k \in h.rem_set}
    OBVIOUS
  <1>4. Roots = S \cup T
    <2>1. S = {[prov |-> "Stk", ptr |-> var[x].ptr, endptr |-> var[x].endptr, x |-> x] : x \in Readers}
      BY <1>1, <1>3
    <2>2. T = {[prov |-> "RemSet", ptr |-> k.ptr, endptr |-> k.endptr, x |-> 0] : k \in h.rem_set}
      BY <1>2, <1>3
    <2> QED
      BY <2>1, <2>2 DEF Roots, StackRoots
  <1>5. \A s \in S : s.prov = "Stk"
    BY <1>1, <1>3
  <1>6. \A k \in h.rem_set : g[k] \in T /\ g[k].prov = "RemSet" /\ g[k].ptr = k.ptr
    BY <1>2, <1>3
  <1>7. \A t \in T : \E k \in h.rem_set : t = g[k]
    BY <1>3
  <1>8. IsFiniteSet(S) /\ IsFiniteSet(T)
    <2>1. IsFiniteSet(Readers)
      <3>1. Readers \subseteq Var
        BY DEF Readers
      <3> QED
        BY <3>1, FS_Subset, ProgramAssumption
    <2> QED
      BY <1>3, <2>1, FiniteImage
  <1>9. {r \in Roots : r.prov = "RemSet"} = T
    BY <1>4, <1>5, <1>6, <1>7
  <1>10. PlacesOf(T) = PlacesOf(h.rem_set)
    BY <1>6, <1>7 DEF PlacesOf
  <1>11. Apart(T)
    <2>1. \A t \in T : t.ptr \in Int
      BY <1>6, <1>7 DEF Apart
    <2>2. ASSUME NEW s \in T, NEW t \in T, s # t
          PROVE  s.ptr + PtrBytes <= t.ptr \/ t.ptr + PtrBytes <= s.ptr
      <3>1. PICK j, k \in h.rem_set : s = g[j] /\ t = g[k]
        BY <1>7
      <3>2. j # k
        BY <2>2, <3>1
      <3> QED
        BY <1>6, <3>1, <3>2 DEF Apart
    <2> QED
      BY <2>1, <2>2 DEF Apart
  <1> QED
    BY <1>4, <1>5, <1>6, <1>7, <1>8, <1>9, <1>10, <1>11, FS_Union

\* Cauterizing the writers leaves the old generation as it is, and the remembered set
\* becomes the roots (cauterize_writers).
LEMMA StartCollectionInv ==
    ASSUME GInv, NEW x \in Var, NEW size \in RegionSizes, StartCollection(x, size)
    PROVE  GInv'
  <1>1. PICK P : P = PlacesOf(h.rem_set)
    OBVIOUS
  <1>2. /\ Mutating /\ pc' = "roots" /\ UNCHANGED var
        /\ h' = [h EXCEPT !.mem = cauterize_writers(h.mem)]
        /\ ev' = [queue |-> Roots, fwd_env |-> <<>>, so_env |-> <<>>]
        /\ request' = [x |-> x, size |-> size]
    BY DEF StartCollection, Mutating
  <1>3. /\ h.fault = "none" /\ HeapShape(h) /\ MemOK(h.mem, P, h.brk) /\ BrkOK(h.brk)
        /\ h.alloc \in heap_start .. heap_end /\ IsFiniteSet(h.rem_set) /\ Apart(h.rem_set)
        /\ VarShape(var) /\ ProgramOK(var, P, h.brk)
    BY <1>1, <1>2, MutatorIs
  <1>4. PICK m : m = cauterize_writers(h.mem)
    OBVIOUS
  <1>5. MemOK(m, P, h.brk)
    BY <1>3, <1>4, CauterizeOK
  <1>6. /\ HeapShape(h') /\ h'.mem = m /\ h'.brk = h.brk /\ h'.alloc = h.alloc
        /\ h'.rem_set = h.rem_set /\ h'.fault = "none"
    BY <1>2, <1>3, <1>4 DEF HeapShape
  <1>7. HeapOK(h', P)
    BY <1>3, <1>5, <1>6 DEF HeapOK
  <1>8. PICK R : R = {r \in Roots : r.prov = "RemSet"}
    OBVIOUS
  <1>9. IsFiniteSet(Roots) /\ (\A r \in Roots : r.prov \in {"Stk", "RemSet"})
        /\ PlacesOf(R) = P /\ Apart(R)
    BY <1>1, <1>3, <1>8, RootsAre
  <1>10. Remembered' = R
    BY <1>2, <1>8 DEF Remembered, PendingRoots
  <1>11. QueueOK(ev')
    BY <1>2, <1>9 DEF QueueOK
  <1>12. QueueShape(ev')
    BY <1>2 DEF QueueShape
  <1>13. Good'
    BY <1>2, <1>3, <1>6, <1>7, <1>9, <1>10, <1>11, <1>12 DEF Good
  <1> QED
    BY <1>2, <1>3, <1>6, <1>13 DEF GInv

\* What is left to do.
LEMMA IntactIs == Intact = IntactIn(h.mem)
  BY DEF Intact, IntactIn, Burned, Burnt, Tag

\* What is left to do is finite.
LEMMA WorkFinite ==
    ASSUME GInv, h.fault = "none", pc # "mutator"
    PROVE  IsFiniteSet(ev.queue) /\ IsFiniteSet(Unrestored) /\ IsFiniteSet(Intact)
  <1>1. IsFiniteSet(ev.queue) /\ HeapOK(h, PlacesOf(Remembered))
    BY DEF GInv, Good, QueueOK
  <1>2. Unrestored \subseteq Var
    BY DEF Unrestored, Writers
  <1>3. Intact \subseteq DOMAIN h.mem /\ IsFiniteSet(DOMAIN h.mem)
    BY <1>1 DEF Intact, HeapOK, MemOK
  <1> QED
    BY <1>1, <1>2, <1>3, FS_Subset, ProgramAssumption

\* A part of a finite set has fewer elements.
LEMMA Fewer ==
    ASSUME NEW S, IsFiniteSet(S), NEW T, T \subseteq S
    PROVE  /\ Cardinality(S) \in Nat /\ Cardinality(T) \in Nat
           /\ Cardinality(T) <= Cardinality(S)
           /\ T # S => Cardinality(T) < Cardinality(S)
  <1>1. IsFiniteSet(T) /\ Cardinality(T) <= Cardinality(S)
    BY FS_Subset
  <1>2. Cardinality(S) \in Nat /\ Cardinality(T) \in Nat
    BY <1>1, FS_CardinalityType
  <1>3. T # S => Cardinality(T) < Cardinality(S)
    BY <1>1, <1>2, FS_Subset
  <1> QED
    BY <1>1, <1>2, <1>3

\* A step that takes a root or restores a write cursor leaves less to do,
LEMMA WorkRoots ==
    ASSUME GInv, h.fault = "none", pc # "mutator",
           NEW Q, Q = ev'.queue, Q \subseteq ev.queue,
           NEW U, U = Unrestored', U \subseteq Unrestored,
           Q # ev.queue \/ U # Unrestored
    PROVE  Less(CollectionWork', CollectionWork)
  <1>1. IsFiniteSet(ev.queue) /\ IsFiniteSet(Unrestored)
    BY WorkFinite
  <1>2. PICK q, u, r, s : /\ q = Cardinality(ev.queue) /\ u = Cardinality(Unrestored)
                          /\ r = Cardinality(Q) /\ s = Cardinality(U)
    OBVIOUS
  <1>3. q \in Nat /\ r \in Nat /\ r <= q /\ (Q # ev.queue => r < q)
    BY <1>1, <1>2, Fewer
  <1>4. u \in Nat /\ s \in Nat /\ s <= u /\ (U # Unrestored => s < u)
    BY <1>1, <1>2, Fewer
  <1>5. r + s < q + u
    BY <1>3, <1>4
  <1>6. PICK a2, a3, a4, b2, b3, b4 :
            /\ CollectionWork' = <<r + s, a2, a3, a4>> /\ CollectionWork = <<q + u, b2, b3, b4>>
    BY <1>2 DEF CollectionWork
  <1> QED
    BY <1>5, <1>6, LessTuple

\* and so does one that burns data, or makes the worklist shorter and burns no less.
LEMMA WorkPacked ==
    ASSUME GInv, h.fault = "none", pc # "mutator",
           NEW Q, Q = ev'.queue, Q = ev.queue,
           NEW U, U = Unrestored', U \subseteq Unrestored,
           NEW I, I = Intact', I \subseteq Intact,
           NEW a, a = (IF pc' = "evacuate_packed" THEN 1 + Len(ev'.worklist) ELSE 0),
           NEW b, b = (IF pc = "evacuate_packed" THEN 1 + Len(ev.worklist) ELSE 0),
           \/ I # Intact
           \/ a < b
           \/ a <= b /\ pc' = "resume" /\ pc # "resume"
    PROVE  Less(CollectionWork', CollectionWork)
  <1>1. IsFiniteSet(ev.queue) /\ IsFiniteSet(Unrestored) /\ IsFiniteSet(Intact)
    BY WorkFinite
  <1>2. PICK q, u, s, i, j : /\ q = Cardinality(ev.queue) /\ u = Cardinality(Unrestored)
                             /\ s = Cardinality(U) /\ i = Cardinality(I) /\ j = Cardinality(Intact)
    OBVIOUS
  <1>3. q \in Nat
    BY <1>1, <1>2, FS_CardinalityType
  <1>4. u \in Nat /\ s \in Nat /\ s <= u
    BY <1>1, <1>2, Fewer
  <1>5. i \in Nat /\ j \in Nat /\ i <= j /\ (I # Intact => i < j)
    BY <1>1, <1>2, Fewer
  <1>6. PICK n, m : n = (IF pc' = "resume" THEN 0 ELSE 1) /\ m = (IF pc = "resume" THEN 0 ELSE 1)
    OBVIOUS
  <1>7. CollectionWork' = <<q + s, i, a, n>> /\ CollectionWork = <<q + u, j, b, m>>
    BY <1>2, <1>6 DEF CollectionWork
  <1>8. q + s <= q + u
    BY <1>3, <1>4
  <1>9. \/ i < j
        \/ i <= j /\ a < b
        \/ i <= j /\ a <= b /\ n < m
    BY <1>5, <1>6
  <1> QED
    BY <1>7, <1>8, <1>9, LessTuple

\* The worklist.
LEMMA ActionsGrow ==
    ASSUME NEW lo, NEW brk \in Nat, NEW brk2 \in Nat, brk <= brk2, NEW w \in Seq(Actions(lo, brk))
    PROVE  w \in Seq(Actions(lo, brk2))
  <1>1. Actions(lo, brk) \subseteq Actions(lo, brk2)
    BY DEF Actions, PlaceOK, PtrBytes, FooterBytes
  <1> QED
    BY <1>1, SeqMonotonic

\* What the invariant says while a root is evacuated.
EvacState(P) ==
    /\ h.fault = "none" /\ HeapShape(h) /\ HeapOK(h, P) /\ MemOK(h.mem, P, h.brk)
    /\ BrkOK(h.brk) /\ h.brk \in Nat
    /\ h.alloc \in heap_start .. heap_end /\ IsFiniteSet(h.rem_set) /\ Apart(PendingRoots)
    /\ VarShape(var) /\ ProgramOK(var, P, h.brk)
    /\ QueueOK(ev) /\ RootShape(ev) /\ RootOK(ev, P, var, h.brk)
    /\ request.x \in Var /\ request.size \in RegionSizes
    /\ \A p \in P : p \in Nat /\ p + PtrBytes <= h.brk

\* What the invariant says while a root is evacuated.
LEMMA EvacIs ==
    ASSUME GInv, Collecting("evacuate_packed"), NEW P, P = PlacesOf(PendingRoots)
    PROVE  EvacState(P)
  <1>1. /\ h.fault = "none" /\ HeapShape(h) /\ HeapOK(h, P) /\ Apart(PendingRoots)
        /\ h.alloc \in heap_start .. heap_end /\ IsFiniteSet(h.rem_set)
        /\ VarShape(var) /\ ProgramOK(var, P, h.brk)
        /\ QueueOK(ev) /\ RootShape(ev) /\ RootOK(ev, P, var, h.brk)
        /\ request.x \in Var /\ request.size \in RegionSizes
    BY DEF GInv, Good, Collecting, Remembered
  <1>2. MemOK(h.mem, P, h.brk) /\ BrkOK(h.brk) /\ h.brk \in Nat
    BY <1>1 DEF HeapOK, BrkOK
  <1> QED
    BY <1>1, <1>2 DEF EvacState, MemOK, RememberedOK

\* A step of evacuate_packed.
Kept(e, e2) ==
    /\ RootShape(e2) /\ e2.queue = e.queue /\ e2.root = e.root /\ e2.orig_dst = e.orig_dst
    /\ e2.fwd_env = e.fwd_env /\ e2.burn /\ e2.src \in Src
    /\ \A k \in DOMAIN e2.so_env : e2.so_env[k] \in Src
Placed(e, e2, vs, brk) ==
    /\ e2.dst \in Nat /\ e.orig_dst <= e2.dst /\ e2.dst <= brk
    /\ e2.worklist \in Seq(Actions(e.orig_dst, brk))
    /\ e2.worklist # <<>> => /\ PlaceOK(e2.dst, e2.dst_end, e.orig_dst, brk)
                             /\ \A x \in OldWritersIn(vs) : Top(vs[x]) <= e.orig_dst

\* A step of evacuate_packed keeps the invariant, if the root that it goes on with is
\* as RootOK says and the heap a later one,
LEMMA EvacuatedInv ==
    ASSUME GInv, Collecting("evacuate_packed"), NEW P, P = PlacesOf(PendingRoots),
           pc' = pc, UNCHANGED request, HeapShape(h'), VarShape(var'),
           h'.fault = "none" =>
             /\ Later(h, h', P) /\ Kept(ev, ev')
             /\ Placed(ev, ev', var', h'.brk)
             /\ ProgramOK(var', P, h'.brk)
    PROVE  GInv'
  <1>1. EvacState(P)
    BY EvacIs
  <1>2. pc = "evacuate_packed"
    BY DEF Collecting
  <1>3. ASSUME h'.fault = "none"
        PROVE  Good'
    <2>1. PICK e, e2 : e = ev /\ e2 = ev'
      OBVIOUS
    <2>2. Kept(e, e2) /\ Placed(e, e2, var', h'.brk) /\ Later(h, h', P) /\ ProgramOK(var', P, h'.brk)
      BY <1>3, <2>1
    <2>3. PendingRoots' = PendingRoots
      <3>1. e2.queue = e.queue /\ e2.root = e.root
        BY <2>2 DEF Kept
      <3> QED
        BY <1>2, <2>1, <3>1 DEF PendingRoots
    <2>4. Remembered' = PendingRoots
      BY <1>2, <2>3 DEF Remembered
    <2>5. HeapOK(h', P) /\ h'.rem_set = h.rem_set /\ h'.alloc = h.alloc
      BY <2>2 DEF Later
    <2>6. QueueOK(e2)
      BY <1>1, <2>1, <2>2 DEF EvacState, QueueOK, Kept
    <2>7. RootShape(e2) /\ RootOK(e2, P, var', h'.brk)
      <3>1. QueueOK(e) /\ RootOK(e, P, var, h.brk)
        BY <1>1, <2>1 DEF EvacState
      <3> QED
        BY <2>2, <3>1 DEF RootOK, Kept, Placed
    <2> QED
      BY <1>1, <1>2, <2>1, <2>2, <2>4, <2>5, <2>6, <2>7 DEF Good, EvacState
  <1> QED
    BY <1>2, <1>3 DEF GInv

\* A step with nothing to say about the program: what it has to do.
Followed(e, e2, brk) ==
    /\ Kept(e, e2)
    /\ e2.dst \in Nat /\ e.orig_dst <= e2.dst /\ e2.dst <= brk
    /\ e2.worklist \in Seq(Actions(e.orig_dst, brk))
    /\ e2.worklist # <<>> => PlaceOK(e2.dst, e2.dst_end, e.orig_dst, brk)

\* and it leaves less to do, if it burns data or makes the worklist shorter.
LEMMA SteppedInv ==
    ASSUME GInv, Collecting("evacuate_packed"), ev.worklist # <<>>,
           NEW P, P = PlacesOf(PendingRoots),
           pc' = pc, UNCHANGED <<request, var>>, NEW n, n = h', NEW e2, e2 = ev',
           HeapShape(n),
           n.fault = "none" =>
             /\ LaterOld(h, n, P) /\ Followed(ev, e2, n.brk)
             /\ \/ ev.src \in IntactIn(h.mem) /\ ev.src \notin IntactIn(n.mem)
                \/ Len(e2.worklist) < Len(ev.worklist)
    PROVE  GInv' /\ (n.fault = "none" => Less(CollectionWork', CollectionWork))
  <1>1. EvacState(P)
    BY EvacIs
  <1>2. /\ VarShape(var) /\ ProgramOK(var, P, h.brk) /\ RootOK(ev, P, var, h.brk)
        /\ h.brk \in Nat /\ h.fault = "none"
    BY <1>1 DEF EvacState
  <1>3. PICK vs : vs = var /\ vs = var'
    OBVIOUS
  <1>4. pc = "evacuate_packed"
    BY DEF Collecting
  <1>5. ASSUME n.fault = "none"
        PROVE  /\ Later(h, n, P) /\ Kept(ev, e2) /\ Placed(ev, e2, vs, n.brk)
               /\ ProgramOK(vs, P, n.brk)
               /\ Less(CollectionWork', CollectionWork)
    <2>1. Later(h, n, P) /\ NoneNew(h, n) /\ Followed(ev, e2, n.brk)
      BY <1>5 DEF LaterOld
    <2>2. n.brk \in Nat /\ h.brk <= n.brk
      BY <1>5, <2>1 DEF Later, HeapOK, BrkOK
    <2>3. ProgramOK(vs, P, n.brk)
      BY <1>2, <1>3, <2>2, ProgramStays
    <2>4. Kept(ev, e2) /\ Placed(ev, e2, vs, n.brk)
      BY <1>2, <1>3, <2>1 DEF Followed, Placed, RootOK
    <2>5. Less(CollectionWork', CollectionWork)
      <3>1. PICK Q, U, I : Q = ev'.queue /\ U = Unrestored' /\ I = Intact'
        OBVIOUS
      <3>2. Q = ev.queue
        BY <2>4, <3>1 DEF Kept
      <3>3. U \subseteq Unrestored
        BY <1>3, <3>1 DEF Unrestored, Writers
      <3>4. I = IntactIn(n.mem)
        BY <3>1 DEF Intact, IntactIn, Burned, Burnt, Tag
      <3>5. I \subseteq Intact /\ Intact = IntactIn(h.mem)
        BY <1>5, <2>1, <3>4, IntactIs DEF NoneNew
      <3>6. PICK a, b : /\ a = (IF pc' = "evacuate_packed" THEN 1 + Len(ev'.worklist) ELSE 0)
                        /\ b = (IF pc = "evacuate_packed" THEN 1 + Len(ev.worklist) ELSE 0)
        OBVIOUS
      <3>7. a = 1 + Len(e2.worklist) /\ b = 1 + Len(ev.worklist)
        BY <1>4, <3>6
      <3>8. Len(e2.worklist) \in Nat /\ Len(ev.worklist) \in Nat
        BY <1>2, <2>1, LenProperties DEF Followed, RootOK
      <3>9. I # Intact \/ a < b
        <4>1. CASE ev.src \in IntactIn(h.mem) /\ ev.src \notin IntactIn(n.mem)
          BY <3>4, <3>5, <4>1
        <4>2. CASE Len(e2.worklist) < Len(ev.worklist)
          BY <3>7, <3>8, <4>2
        <4> QED
          BY <1>5, <4>1, <4>2
      <3>10. pc # "mutator"
        BY <1>4
      <3> QED
        BY <1>2, <3>1, <3>2, <3>3, <3>5, <3>6, <3>9, <3>10, WorkPacked
    <2> QED
      BY <2>1, <2>3, <2>4, <2>5
  <1>6. GInv'
    BY <1>2, <1>3, <1>5, EvacuatedInv
  <1> QED
    BY <1>5, <1>6

\* so_env leads to data of the nursery after one more entry too.
LEMMA ExtendIn ==
    ASSUME NEW f, NEW k, NEW v \in Src, \A a \in DOMAIN f : f[a] \in Src
    PROVE  \A a \in DOMAIN Extend(f, k, v) : Extend(f, k, v)[a] \in Src
  BY DEF Extend

\* The worklist.
LEMMA WorklistIs ==
    ASSUME NEW P, EvacState(P), ev.worklist # <<>>
    PROVE  /\ Rest \in Seq(Actions(ev.orig_dst, h.brk)) /\ Len(Rest) < Len(ev.worklist)
           /\ Len(Rest) \in Nat
           /\ Head(ev.worklist) \in Actions(ev.orig_dst, h.brk)
           /\ PlaceOK(ev.dst, ev.dst_end, ev.orig_dst, h.brk)
           /\ ev.src \in Src /\ ev.burn /\ ev.dst <= h.brk /\ ev.dst \in Nat
           /\ ev.orig_dst \in Nat /\ OldBase <= ev.orig_dst /\ ev.orig_dst <= ev.dst
           /\ Above(P, ev.orig_dst)
           /\ RootShape(ev) /\ QueueOK(ev)
           /\ \A k \in DOMAIN ev.so_env : ev.so_env[k] \in Src
  <1>1. RootOK(ev, P, var, h.brk) /\ RootShape(ev) /\ QueueOK(ev)
    BY DEF EvacState
  <1>2. PICK A : A = Actions(ev.orig_dst, h.brk)
    OBVIOUS
  <1>3. ev.worklist \in Seq(A)
    BY <1>1, <1>2 DEF RootOK
  <1>4. PICK w : w = ev.worklist
    OBVIOUS
  <1>5. w \in Seq(A) /\ w # <<>>
    BY <1>3, <1>4
  <1>6. Head(w) \in A /\ Tail(w) \in Seq(A) /\ Len(Tail(w)) = Len(w) - 1
    BY <1>5, HeadTailProperties
  <1>7. Len(w) \in Nat /\ Len(Tail(w)) \in Nat
    BY <1>5, <1>6, LenProperties
  <1>8. Len(Tail(w)) < Len(w)
    BY <1>6, <1>7
  <1> QED
    BY <1>1, <1>2, <1>4, <1>6, <1>7, <1>8 DEF RootOK, Rest, QueueOK

\* What is known of an action on the worklist.
LEMMA ActionIs ==
    ASSUME NEW lo, NEW brk, NEW a \in Actions(lo, brk)
    PROVE  /\ a.act = "RestoreSrc" => a.src \in Src /\ a.dst \in Nat /\ a.dst_end \in Int
                                      /\ PlaceOK(a.dst, a.dst_end, lo, brk)
           /\ a.act = "SkipoverEnvWrite" => a.at \in Int
  BY DEF Actions, ProcessTy

\* EvacAction::RestoreSrc
LEMMA RestoreSourceInv ==
    ASSUME GInv, RestoreSource
    PROVE  GInv' /\ (h'.fault = "none" => Less(CollectionWork', CollectionWork))
  <1>1. PICK P : P = PlacesOf(PendingRoots)
    OBVIOUS
  <1>2. Collecting("evacuate_packed") /\ ev.worklist # <<>> /\ Head(ev.worklist).act = "RestoreSrc"
    BY DEF RestoreSource, Acting
  <1>3. EvacState(P)
    BY <1>1, <1>2, EvacIs
  <1>4. /\ Rest \in Seq(Actions(ev.orig_dst, h.brk)) /\ Len(Rest) < Len(ev.worklist)
        /\ Head(ev.worklist) \in Actions(ev.orig_dst, h.brk)
        /\ PlaceOK(ev.dst, ev.dst_end, ev.orig_dst, h.brk)
        /\ ev.src \in Src /\ ev.burn /\ ev.dst <= h.brk /\ ev.dst \in Nat
        /\ ev.orig_dst \in Nat /\ ev.orig_dst <= ev.dst
        /\ RootShape(ev)
        /\ \A k \in DOMAIN ev.so_env : ev.so_env[k] \in Src
    BY <1>2, <1>3, WorklistIs
  <1>5. PICK to : to = Head(ev.worklist).src
    OBVIOUS
  <1>6. to \in Src
    BY <1>2, <1>4, <1>5, ActionIs
  <1>7. PICK e, e2, w : e = ev /\ e2 = ev' /\ w = Rest
    OBVIOUS
  <1>8. /\ RootShape(e2) /\ e2.src = to /\ e2.worklist = w /\ e2.queue = e.queue /\ e2.root = e.root
        /\ e2.orig_dst = e.orig_dst /\ e2.fwd_env = e.fwd_env /\ e2.so_env = e.so_env
        /\ e2.burn /\ e2.dst = e.dst /\ e2.dst_end = e.dst_end
    <2>1. RootShape(e) /\ e.burn
      BY <1>4, <1>7
    <2>2. CASE to = e.inlining_underway_upto
      <3>1. e2 = [e EXCEPT !.src = to, !.worklist = w, !.inlining_underway = FALSE, !.burn = TRUE]
        BY <1>5, <1>7, <2>2 DEF RestoreSource
      <3> QED
        BY <2>1, <3>1 DEF RootShape
    <2>3. CASE to # e.inlining_underway_upto
      <3>1. e2 = [e EXCEPT !.src = to, !.worklist = w]
        BY <1>5, <1>7, <2>3 DEF RestoreSource
      <3> QED
        BY <2>1, <3>1 DEF RootShape
    <2> QED
      BY <2>2, <2>3
  <1>9. Kept(ev, e2)
    BY <1>4, <1>6, <1>7, <1>8 DEF Kept
  <1>10. Followed(ev, e2, h.brk)
    BY <1>4, <1>7, <1>8, <1>9 DEF Followed
  <1>11. LaterOld(h, h, P) /\ HeapShape(h)
    BY <1>3, LaterRefl DEF EvacState
  <1>12. Len(e2.worklist) < Len(ev.worklist)
    BY <1>4, <1>7, <1>8
  <1>13. h' = h /\ pc' = pc /\ UNCHANGED <<request, var>>
    BY DEF RestoreSource
  <1> QED
    BY <1>1, <1>2, <1>7, <1>10, <1>11, <1>12, <1>13, SteppedInv

\* EvacAction::SkipoverEnvWrite
LEMMA WriteSkipoverInv ==
    ASSUME GInv, WriteSkipover
    PROVE  GInv' /\ (h'.fault = "none" => Less(CollectionWork', CollectionWork))
  <1>1. PICK P : P = PlacesOf(PendingRoots)
    OBVIOUS
  <1>2. Collecting("evacuate_packed") /\ ev.worklist # <<>>
    BY DEF WriteSkipover, Acting
  <1>3. EvacState(P)
    BY <1>1, <1>2, EvacIs
  <1>4. /\ Rest \in Seq(Actions(ev.orig_dst, h.brk)) /\ Len(Rest) < Len(ev.worklist)
        /\ PlaceOK(ev.dst, ev.dst_end, ev.orig_dst, h.brk)
        /\ ev.src \in Src /\ ev.burn /\ ev.dst <= h.brk /\ ev.dst \in Nat
        /\ ev.orig_dst \in Nat /\ ev.orig_dst <= ev.dst
        /\ RootShape(ev)
        /\ \A k \in DOMAIN ev.so_env : ev.so_env[k] \in Src
    BY <1>2, <1>3, WorklistIs
  <1>5. PICK so : so = Extend(ev.so_env, Head(ev.worklist).at, ev.src)
    OBVIOUS
  <1>6. \A k \in DOMAIN so : so[k] \in Src
    BY <1>4, <1>5, ExtendIn
  <1>7. PICK e, e2, w : e = ev /\ e2 = ev' /\ w = Rest
    OBVIOUS
  <1>8. /\ RootShape(e2) /\ e2.src = e.src /\ e2.worklist = w /\ e2.queue = e.queue /\ e2.root = e.root
        /\ e2.orig_dst = e.orig_dst /\ e2.fwd_env = e.fwd_env /\ e2.so_env = so
        /\ e2.burn = e.burn /\ e2.dst = e.dst /\ e2.dst_end = e.dst_end
    <2>1. e2 = [e EXCEPT !.so_env = so, !.worklist = w]
      BY <1>5, <1>7 DEF WriteSkipover
    <2> QED
      BY <1>4, <1>7, <2>1 DEF RootShape
  <1>9. Kept(ev, e2)
    BY <1>4, <1>6, <1>7, <1>8 DEF Kept
  <1>10. Followed(ev, e2, h.brk)
    BY <1>4, <1>7, <1>8, <1>9 DEF Followed
  <1>11. LaterOld(h, h, P) /\ HeapShape(h)
    BY <1>3, LaterRefl DEF EvacState
  <1>12. Len(e2.worklist) < Len(ev.worklist)
    BY <1>4, <1>7, <1>8
  <1>13. h' = h /\ pc' = pc /\ UNCHANGED <<request, var>>
    BY DEF WriteSkipover
  <1> QED
    BY <1>1, <1>2, <1>7, <1>10, <1>11, <1>12, <1>13, SteppedInv

\* What is read at src is in the nursery, or burned behind it.
LEMMA SrcIs ==
    ASSUME NEW P, EvacState(P), ev.worklist # <<>>, NEW a, a = ev.src, Tag(h.mem, a) # "garbage"
    PROVE  /\ a \in DOMAIN h.mem /\ a \in Nat /\ heap_start <= a
           /\ h.mem[a].tag = Tag(h.mem, a)
           /\ h.mem[a].tag \notin Burnt => a \in IntactIn(h.mem)
  <1>1. a \in DOMAIN h.mem /\ h.mem[a].tag = Tag(h.mem, a)
    BY DEF Tag
  <1>2. GoodCell(a, h.mem[a], P, h.brk)
    BY <1>1 DEF EvacState, MemOK
  <1>3. a \in Nat \ {0} /\ (a > heap_end => h.mem[a].tag \in Burnt)
    BY <1>2 DEF GoodCell
  <1>4. a \in Src
    BY WorklistIs
  <1>5. heap_start <= a
    BY <1>3, <1>4 DEF Src
  <1>6. h.mem[a].tag \notin Burnt => contains_addr(a)
    BY <1>3, <1>5, Layout DEF contains_addr
  <1> QED
    BY <1>1, <1>3, <1>5, <1>6 DEF IntactIn

\* Burning what is at src leaves the rest of the heap as it was.
LEMMA BurnedIs ==
    ASSUME NEW P, EvacState(P), ev.worklist # <<>>, Tag(h.mem, ev.src) # "garbage",
           NEW g, g = BurnedAtSrc
    PROVE  LaterOld(h, g, P) /\ HeapOK(g, P) /\ g.brk = h.brk /\ g.fault = "none"
           /\ ev.src \notin IntactIn(g.mem)
  <1>1. PICK a, d, e : a = ev.src /\ d = ev.dst /\ e = ev.dst_end
    OBVIOUS
  <1>2. a \in Nat /\ heap_start <= a
    BY <1>1, SrcIs
  <1>3. /\ ev.burn /\ PlaceOK(d, e, ev.orig_dst, h.brk)
        /\ HeapOK(h, P) /\ BrkOK(h.brk) /\ h.fault = "none"
    BY <1>1, WorklistIs DEF EvacState
  <1>4. d \in Int /\ d < heap_start
    BY <1>3, Layout DEF PlaceOK, BrkOK, PtrBytes
  <1>5. PICK offset : offset = e - d
    OBVIOUS
  <1>6. g = Store(h, a, PtrCell("COPIED_TO", d, offset))
    BY <1>1, <1>3, <1>5 DEF BurnedAtSrc, ForwardAt
  <1>7. LaterOld(h, g, P) /\ g.brk = h.brk /\ g.fault = h.fault /\ a \notin IntactIn(g.mem)
    BY <1>2, <1>3, <1>4, <1>6, ForwardLater
  <1> QED
    BY <1>1, <1>3, <1>7 DEF LaterOld, Later

\* Where the copy goes on there is room for a pointer, behind all that is remembered.
LEMMA CursorIs ==
    ASSUME NEW P, EvacState(P), ev.worklist # <<>>, NEW g, g.brk = h.brk
    PROVE  Cursor(g, P, ev.dst, ev.dst_end)
  <1>1. PICK d, e, o : d = ev.dst /\ e = ev.dst_end /\ o = ev.orig_dst
    OBVIOUS
  <1>2. /\ PlaceOK(d, e, o, h.brk) /\ o \in Nat /\ OldBase <= o /\ Above(P, o)
        /\ \A p \in P : p \in Nat
    BY <1>1, WorklistIs DEF EvacState
  <1>3. d \in Nat /\ o <= d /\ d + PtrBytes <= g.brk /\ e \in Int /\ d <= e /\ e + FooterBytes <= g.brk
    BY <1>2 DEF PlaceOK
  <1>4. \A p \in P : p + PtrBytes <= d
    BY <1>2, <1>3 DEF Above, PtrBytes
  <1>5. OldBase <= d
    BY <1>2, <1>3, Layout
  <1> QED
    BY <1>1, <1>3, <1>4, <1>5 DEF Cursor, Room, Above

\* A pointer is copied, and the metadata told of it.
LEMMA PointerCopied ==
    ASSUME NEW g, NEW P, HeapOK(g, P), NEW d, NEW e, g.fault = "none" => Cursor(g, P, d, e),
           NEW c, c = check_bounds(g, 32, d, e),
           NEW cell, OldCell(cell), SizeOf(cell) = PtrBytes,
           NEW k, k = Store(c.h, c.dst, cell), NEW from, NEW to,
           NEW n, n = add_old_to_old_indirection(k, from, to)
    PROVE  /\ LaterOld(g, n, P) /\ HeapShape(n)
           /\ n.fault = "none" => /\ Cursor(n, P, c.dst + PtrBytes, c.dst_end)
                                  /\ d <= c.dst + PtrBytes
  <1>1. PICK m : m = 32
    OBVIOUS
  <1>2. Space(m) /\ SizeOf(cell) + PtrBytes <= m /\ c = check_bounds(g, m, d, e)
    BY <1>1 DEF Space, PtrBytes
  <1>3. /\ LaterOld(g, k, P) /\ HeapShape(k)
        /\ k.fault = "none" => /\ Cursor(k, P, c.dst + SizeOf(cell), c.dst_end)
                               /\ d <= c.dst + SizeOf(cell)
    BY <1>2, CheckedCopy
  <1>4. HeapOK(k, P)
    BY <1>3 DEF LaterOld, Later
  <1>5. SameMemory(k, n)
    BY <1>3, MetadataSame
  <1>6. LaterOld(k, n, P)
    BY <1>4, <1>5, SameLater
  <1>7. LaterOld(g, n, P)
    BY <1>3, <1>6, LaterTrans DEF LaterOld
  <1>8. n.brk = k.brk /\ (n.fault = "none" => k.fault = "none") /\ HeapShape(n)
    BY <1>5 DEF SameMemory
  <1>9. ASSUME NEW x, NEW y, Cursor(k, P, x, y)
        PROVE  Cursor(n, P, x, y)
    BY <1>8, <1>9 DEF Cursor, Room
  <1> QED
    BY <1>3, <1>7, <1>8, <1>9

\* A cursor behind the start of the copy is a place of the copy.
LEMMA PlaceIs ==
    ASSUME NEW g, NEW P, NEW d, NEW e, Cursor(g, P, d, e), NEW lo \in Nat, lo <= d,
           BrkOK(g.brk)
    PROVE  PlaceOK(d, e, lo, g.brk) /\ d <= g.brk /\ d \in Nat
  BY DEF Cursor, Room, PlaceOK, PtrBytes, BrkOK

\* INDIRECTION_TAG into the nursery
LEMMA InlineIndirectionInv ==
    ASSUME GInv, InlineIndirection
    PROVE  GInv' /\ (h'.fault = "none" => Less(CollectionWork', CollectionWork))
  <1>1. PICK P : P = PlacesOf(PendingRoots)
    OBVIOUS
  <1>2. /\ Collecting("evacuate_packed") /\ ev.worklist # <<>>
        /\ Tag(h.mem, ev.src) = "INDIRECTION" /\ contains_addr(h.mem[ev.src].to)
    BY DEF InlineIndirection, AtTag, Acting
  <1>3. EvacState(P)
    BY <1>1, <1>2, EvacIs
  <1>4. /\ Rest \in Seq(Actions(ev.orig_dst, h.brk))
        /\ PlaceOK(ev.dst, ev.dst_end, ev.orig_dst, h.brk)
        /\ ev.src \in Src /\ ev.burn /\ ev.dst <= h.brk /\ ev.dst \in Nat
        /\ ev.orig_dst \in Nat /\ ev.orig_dst <= ev.dst
        /\ RootShape(ev)
        /\ \A k \in DOMAIN ev.so_env : ev.so_env[k] \in Src
    BY <1>2, <1>3, WorklistIs
  <1>5. PICK pointee, footer, after, g :
            /\ pointee = h.mem[ev.src].to /\ footer = pointee + h.mem[ev.src].offset
            /\ after = ev.src + PtrBytes /\ g = BurnedAtSrc
    OBVIOUS
  <1>6. /\ LaterOld(h, g, P) /\ HeapOK(g, P) /\ g.brk = h.brk /\ g.fault = "none"
        /\ ev.src \notin IntactIn(g.mem)
    BY <1>2, <1>3, <1>5, BurnedIs
  <1>7. ev.src \in IntactIn(h.mem) /\ ev.src \in Nat /\ heap_start <= ev.src
    BY <1>2, <1>3, SrcIs DEF Burnt
  <1>8. pointee \in Src /\ after \in Src /\ pointee \in Int
    BY <1>2, <1>5, <1>7, Layout DEF contains_addr, Src, PtrBytes
  <1>9. PICK A : A = Actions(ev.orig_dst, h.brk)
    OBVIOUS
  <1>10. PICK skip : skip = (IF ev.burn /\ (ev.root.prov = "RemSet" \/ ~is_loc0(g, pointee, footer))
                             THEN <<SkipoverEnvWrite(pointee)>> ELSE <<>>)
    OBVIOUS
  <1>11. PICK w : w = <<ProcessTy>> \o skip \o Return(after) \o Rest
    OBVIOUS
  <1>12. w \in Seq(A)
    <2>1. <<ProcessTy>> \in Seq(A)
      <3>1. ProcessTy \in A
        BY <1>9 DEF Actions
      <3> QED
        BY <3>1
    <2>2. skip \in Seq(A)
      <3>1. SkipoverEnvWrite(pointee) \in A
        BY <1>8, <1>9 DEF Actions, SkipoverEnvWrite
      <3> QED
        BY <1>10, <3>1
    <2>3. Return(after) \in Seq(A)
      <3>1. RestoreSrc(after, ev.dst, ev.dst_end) \in A
        <4>1. ev.dst_end \in Int
          BY <1>4 DEF PlaceOK
        <4> QED
          BY <1>4, <1>8, <1>9, <4>1 DEF Actions, RestoreSrc
      <3> QED
        BY <3>1 DEF Return
    <2>4. Rest \in Seq(A)
      BY <1>4, <1>9
    <2> QED
      BY <1>11, <2>1, <2>2, <2>3, <2>4, ConcatProperties
  <1>13. PICK e, e2 : e = ev /\ e2 = ev'
    OBVIOUS
  <1>14. PICK fw, up : /\ fw = (e.forwarded \/ e.burn)
                       /\ up = (IF e.inlining_underway THEN e.inlining_underway_upto ELSE after)
    OBVIOUS
  <1>15. /\ RootShape(e2) /\ e2.src = pointee /\ e2.worklist = w /\ e2.queue = e.queue
         /\ e2.root = e.root /\ e2.orig_dst = e.orig_dst /\ e2.fwd_env = e.fwd_env
         /\ e2.so_env = e.so_env
         /\ e2.burn = e.burn /\ e2.dst = e.dst /\ e2.dst_end = e.dst_end
    <2>1. e2 = [e EXCEPT !.forwarded = fw, !.worklist = w, !.inlining_underway = TRUE,
                         !.inlining_underway_upto = up, !.src = pointee]
      BY <1>5, <1>10, <1>11, <1>13, <1>14 DEF InlineIndirection
    <2> QED
      BY <1>4, <1>13, <2>1 DEF RootShape
  <1>16. Kept(ev, e2)
    BY <1>4, <1>8, <1>13, <1>15 DEF Kept
  <1>17. Followed(ev, e2, g.brk)
    BY <1>4, <1>6, <1>9, <1>12, <1>13, <1>15, <1>16 DEF Followed
  <1>18. h' = g /\ pc' = pc /\ UNCHANGED <<request, var>>
    BY <1>5 DEF InlineIndirection
  <1>19. HeapShape(g)
    BY <1>6 DEF HeapOK
  <1> QED
    BY <1>1, <1>2, <1>6, <1>7, <1>13, <1>17, <1>18, <1>19, SteppedInv

\* The step goes on with what follows on the worklist, at the place that the heap n
\* has for its cursor.
LEMMA PlaceFollowed ==
    ASSUME NEW P, EvacState(P), ev.worklist # <<>>,
           NEW n, LaterOld(h, n, P), n.fault = "none",
           NEW e2, Kept(ev, e2), NEW w \in Seq(Actions(ev.orig_dst, h.brk)), e2.worklist = w,
           NEW d, NEW e, e2.dst = d, e2.dst_end = e, ev.orig_dst <= d, Cursor(n, P, d, e)
    PROVE  Followed(ev, e2, n.brk)
  <1>1. BrkOK(n.brk) /\ n.brk \in Nat /\ h.brk <= n.brk /\ h.brk \in Nat
    BY DEF LaterOld, Later, HeapOK, BrkOK, EvacState
  <1>2. ev.orig_dst \in Nat
    BY WorklistIs
  <1>3. d \in Nat
    BY DEF Cursor, Room
  <1>4. PlaceOK(d, e, ev.orig_dst, n.brk) /\ d <= n.brk
    BY <1>1, <1>2, PlaceIs
  <1>5. w \in Seq(Actions(ev.orig_dst, n.brk))
    BY <1>1, ActionsGrow
  <1> QED
    BY <1>3, <1>4, <1>5 DEF Followed

\* A step that moves the cursor of the copy forward keeps what is known of the root.
LEMMA CursorFollowed ==
    ASSUME NEW P, EvacState(P), ev.worklist # <<>>,
           NEW n, LaterOld(h, n, P), n.fault = "none",
           NEW e2, Kept(ev, e2), NEW w \in Seq(Actions(ev.orig_dst, h.brk)), e2.worklist = w,
           NEW d, NEW e, e2.dst = d, e2.dst_end = e, ev.dst <= d, Cursor(n, P, d, e)
    PROVE  Followed(ev, e2, n.brk)
  <1>1. ev.orig_dst \in Nat /\ ev.orig_dst <= ev.dst /\ ev.dst \in Nat
    BY WorklistIs
  <1>2. d \in Nat
    BY DEF Cursor, Room
  <1>3. ev.orig_dst <= d
    BY <1>1, <1>2
  <1> QED
    BY <1>3, PlaceFollowed

\* INDIRECTION_TAG into the old generation
LEMMA KeepIndirectionInv ==
    ASSUME GInv, KeepIndirection
    PROVE  GInv' /\ (h'.fault = "none" => Less(CollectionWork', CollectionWork))
  <1>1. PICK P : P = PlacesOf(PendingRoots)
    OBVIOUS
  <1>2. /\ Collecting("evacuate_packed") /\ ev.worklist # <<>>
        /\ Tag(h.mem, ev.src) = "INDIRECTION" /\ ~contains_addr(h.mem[ev.src].to)
    BY DEF KeepIndirection, AtTag, Acting
  <1>3. EvacState(P)
    BY <1>1, <1>2, EvacIs
  <1>4. /\ Rest \in Seq(Actions(ev.orig_dst, h.brk)) /\ Len(Rest) < Len(ev.worklist)
        /\ ev.src \in Src /\ ev.burn /\ RootShape(ev)
        /\ \A k \in DOMAIN ev.so_env : ev.so_env[k] \in Src
    BY <1>2, <1>3, WorklistIs
  <1>5. PICK cell, footer, after, g :
            /\ cell = h.mem[ev.src] /\ footer = cell.to + cell.offset
            /\ after = ev.src + PtrBytes /\ g = BurnedAtSrc
    OBVIOUS
  <1>6. LaterOld(h, g, P) /\ HeapOK(g, P) /\ g.brk = h.brk
    BY <1>2, <1>3, <1>5, BurnedIs
  <1>7. ev.src \in Nat /\ heap_start <= ev.src /\ cell.tag = "INDIRECTION"
    BY <1>2, <1>3, <1>5, SrcIs
  <1>8. after \in Src
    BY <1>5, <1>7, Layout DEF Src, PtrBytes
  <1>9. OldCell(cell) /\ SizeOf(cell) = PtrBytes
    BY <1>2, <1>5, <1>7, SizeOfCell DEF OldCell, Pointers
  <1>10. PICK d, e : d = ev.dst /\ e = ev.dst_end
    OBVIOUS
  <1>11. PICK c : c = check_bounds(g, 32, d, e)
    OBVIOUS
  <1>12. PICK k : k = Store(c.h, c.dst, cell)
    OBVIOUS
  <1>13. PICK from : from = c.dst_end
    OBVIOUS
  <1>14. PICK n : n = add_old_to_old_indirection(k, from, footer)
    OBVIOUS
  <1>15. Cursor(g, P, d, e)
    BY <1>2, <1>3, <1>6, <1>10, CursorIs
  <1>16. /\ LaterOld(g, n, P) /\ HeapShape(n)
         /\ n.fault = "none" => /\ Cursor(n, P, c.dst + PtrBytes, c.dst_end)
                                /\ d <= c.dst + PtrBytes
    BY <1>6, <1>9, <1>11, <1>12, <1>14, <1>15, PointerCopied
  <1>17. LaterOld(h, n, P)
    BY <1>3, <1>6, <1>16, LaterTrans DEF LaterOld, EvacState
  <1>18. PICK e1, e2, w : e1 = ev /\ e2 = ev' /\ w = Rest
    OBVIOUS
  <1>19. PICK so : so = (IF ev.burn /\ (ev.root.prov = "RemSet" \/ ~is_loc0(n, cell.to, footer))
                         THEN Extend(ev.so_env, ev.src, after) ELSE ev.so_env)
    OBVIOUS
  <1>20. \A j \in DOMAIN so : so[j] \in Src
    BY <1>4, <1>8, <1>19, ExtendIn
  <1>21. h' = n
    BY <1>5, <1>10, <1>11, <1>12, <1>13, <1>14 DEF KeepIndirection
  <1>22. /\ RootShape(e2) /\ e2.src = after /\ e2.worklist = w /\ e2.queue = e1.queue
         /\ e2.root = e1.root /\ e2.orig_dst = e1.orig_dst /\ e2.fwd_env = e1.fwd_env
         /\ e2.so_env = so
         /\ e2.burn = e1.burn /\ e2.dst = c.dst + PtrBytes /\ e2.dst_end = c.dst_end
    <2>1. PICK fw, x : fw = (e1.forwarded \/ e1.burn) /\ x = c.dst + PtrBytes
      OBVIOUS
    <2>2. e2 = [e1 EXCEPT !.forwarded = fw, !.so_env = so, !.src = after, !.dst = x,
                          !.dst_end = from, !.worklist = w]
      BY <1>5, <1>10, <1>11, <1>12, <1>13, <1>14, <1>18, <1>19, <2>1 DEF KeepIndirection
    <2> QED
      BY <1>4, <1>13, <1>18, <2>1, <2>2 DEF RootShape
  <1>23. Kept(ev, e2)
    BY <1>4, <1>8, <1>18, <1>20, <1>22 DEF Kept
  <1>24. n.fault = "none" => Followed(ev, e2, n.brk)
    BY <1>2, <1>3, <1>4, <1>10, <1>16, <1>17, <1>18, <1>22, <1>23, CursorFollowed
  <1>25. Len(e2.worklist) < Len(ev.worklist)
    BY <1>4, <1>18, <1>22
  <1>26. pc' = pc /\ UNCHANGED <<request, var>>
    BY DEF KeepIndirection
  <1> QED
    BY <1>1, <1>2, <1>16, <1>17, <1>18, <1>21, <1>24, <1>25, <1>26, SteppedInv

\* COPIED_TAG and COPIED_TO_TAG: the copy points to the copy that was made before.
LEMMA PointToCopyInv ==
    ASSUME GInv, PointToCopy
    PROVE  GInv' /\ (h'.fault = "none" => Less(CollectionWork', CollectionWork))
  <1>1. PICK P : P = PlacesOf(PendingRoots)
    OBVIOUS
  <1>2. /\ Collecting("evacuate_packed") /\ ev.worklist # <<>>
        /\ Tag(h.mem, ev.src) \in {"COPIED", "COPIED_TO"}
    BY DEF PointToCopy, AtTag, Acting
  <1>3. EvacState(P)
    BY <1>1, <1>2, EvacIs
  <1>4. /\ Rest \in Seq(Actions(ev.orig_dst, h.brk)) /\ Len(Rest) < Len(ev.worklist)
        /\ ev.src \in Src /\ ev.burn /\ RootShape(ev)
        /\ \A k \in DOMAIN ev.so_env : ev.so_env[k] \in Src
    BY <1>2, <1>3, WorklistIs
  <1>5. /\ HeapOK(h, P) /\ MemOK(h.mem, P, h.brk) /\ QueueOK(ev) /\ HeapShape(h)
    BY <1>3 DEF EvacState
  <1>6. ev.src \in Int
    BY <1>4 DEF Src
  <1>7. PICK fwd : fwd = find_forwarding_pointer(ev.src)
    OBVIOUS
  <1>8. PICK to, offset, footer : to = fwd.to /\ offset = fwd.footer - fwd.to /\ footer = fwd.footer
    OBVIOUS
  <1>9. fwd.fault = "none" => ~contains_addr(to)
    <2>1. ASSUME fwd.fault = "none"
          PROVE  to \in Int /\ to < heap_start
      BY <1>5, <1>6, <1>7, <1>8, <2>1, FindForwarding
    <2> QED
      BY <2>1, Layout DEF contains_addr
  <1>10. PICK d, e : d = ev.dst /\ e = ev.dst_end
    OBVIOUS
  <1>11. PICK c : c = check_bounds(h, 32, d, e)
    OBVIOUS
  <1>12. PICK cell : cell = PtrCell("INDIRECTION", to, offset)
    OBVIOUS
  <1>13. PICK k : k = Store(c.h, c.dst, cell)
    OBVIOUS
  <1>14. PICK from : from = c.dst_end
    OBVIOUS
  <1>15. PICK n : n = add_old_to_old_indirection(k, from, footer)
    OBVIOUS
  <1>16. Cursor(h, P, d, e)
    BY <1>2, <1>3, <1>10, CursorIs
  <1>17. ASSUME fwd.fault = "none"
         PROVE  /\ LaterOld(h, n, P) /\ HeapShape(n)
                /\ n.fault = "none" => /\ Cursor(n, P, c.dst + PtrBytes, c.dst_end)
                                       /\ d <= c.dst + PtrBytes
    <2>1. OldCell(cell) /\ SizeOf(cell) = PtrBytes
      BY <1>9, <1>12, <1>17, IndirectionOld
    <2> QED
      BY <1>5, <1>11, <1>13, <1>15, <1>16, <2>1, PointerCopied
  <1>18. PICK K, s : K = DOMAIN ev.so_env /\ s = ev.src
    OBVIOUS
  <1>19. PICK a : a = (IF s \in K THEN ev.so_env[s] ELSE 0)
    OBVIOUS
  <1>20. a \in Src
    BY <1>4, <1>18, <1>19 DEF Src
  <1>21. PICK e1, e2, w : e1 = ev /\ e2 = ev' /\ w = Rest
    OBVIOUS
  <1>22. h' = (IF fwd.fault # "none" THEN Fail(h, fwd.fault)
               ELSE IF w # <<>> /\ s \notin K THEN Fail(n, "panic: not in so_env")
               ELSE n)
    BY <1>7, <1>8, <1>10, <1>11, <1>12, <1>13, <1>14, <1>15, <1>18, <1>21 DEF PointToCopy
  <1>23. /\ HeapShape(h')
         /\ h'.fault = "none" => fwd.fault = "none" /\ h' = n
    <2>1. CASE fwd.fault # "none"
      <3>1. PICK what : what = fwd.fault
        OBVIOUS
      <3>2. h' = Fail(h, what)
        BY <1>22, <2>1, <3>1
      <3> QED
        BY <1>5, <2>1, <3>1, <3>2, FailSame DEF SameMemory
    <2>2. CASE fwd.fault = "none" /\ w # <<>> /\ s \notin K
      <3>1. HeapShape(n)
        BY <1>17, <2>2
      <3>2. PICK k2 : k2 = Fail(n, "panic: not in so_env")
        OBVIOUS
      <3>3. HeapShape(k2) /\ k2.fault # "none"
        BY <3>1, <3>2, FailSame DEF SameMemory
      <3>4. h' = k2
        BY <1>22, <2>2, <3>2
      <3> QED
        BY <3>3, <3>4
    <2>3. CASE fwd.fault = "none" /\ ~(w # <<>> /\ s \notin K)
      BY <1>17, <1>22, <2>3
    <2> QED
      BY <2>1, <2>2, <2>3
  <1>24. /\ RootShape(e2) /\ e2.src = a /\ e2.worklist = w /\ e2.queue = e1.queue
         /\ e2.root = e1.root /\ e2.orig_dst = e1.orig_dst /\ e2.fwd_env = e1.fwd_env
         /\ e2.so_env = e1.so_env
         /\ e2.burn = e1.burn /\ e2.dst = c.dst + PtrBytes /\ e2.dst_end = c.dst_end
    <2>1. PICK x : x = c.dst + PtrBytes
      OBVIOUS
    <2>2. e2 = [e1 EXCEPT !.forwarded = TRUE, !.worklist = w, !.src = a, !.dst = x,
                          !.dst_end = from]
      BY <1>10, <1>11, <1>14, <1>18, <1>19, <1>21, <2>1 DEF PointToCopy
    <2> QED
      BY <1>4, <1>14, <1>21, <2>1, <2>2 DEF RootShape
  <1>25. Kept(ev, e2)
    BY <1>4, <1>20, <1>21, <1>24 DEF Kept
  <1>26. PICK hp : hp = h'
    OBVIOUS
  <1>27. ASSUME hp.fault = "none"
         PROVE  LaterOld(h, hp, P) /\ Followed(ev, e2, hp.brk)
    <2>1. hp = n /\ LaterOld(h, n, P) /\ n.fault = "none"
          /\ Cursor(n, P, c.dst + PtrBytes, c.dst_end) /\ d <= c.dst + PtrBytes
      BY <1>17, <1>23, <1>26, <1>27
    <2>2. Followed(ev, e2, n.brk)
      BY <1>2, <1>3, <1>4, <1>10, <1>21, <1>24, <1>25, <2>1, CursorFollowed
    <2> QED
      BY <2>1, <2>2
  <1>28. Len(e2.worklist) < Len(ev.worklist)
    BY <1>4, <1>21, <1>24
  <1>29. pc' = pc /\ UNCHANGED <<request, var>>
    BY DEF PointToCopy
  <1>30. HeapShape(hp)
    BY <1>23, <1>26
  <1> QED
    BY <1>1, <1>2, <1>21, <1>26, <1>27, <1>28, <1>29, <1>30, SteppedInv

\* A place of the copy, as the worklist has them, can be written to.
LEMMA PlaceCursor ==
    ASSUME NEW P, EvacState(P), ev.worklist # <<>>, NEW g, BrkOK(g.brk), h.brk <= g.brk,
           NEW d, NEW e, PlaceOK(d, e, ev.orig_dst, h.brk)
    PROVE  Cursor(g, P, d, e)
  <1>1. PICK o : o = ev.orig_dst
    OBVIOUS
  <1>2. /\ o \in Nat /\ OldBase <= o /\ Above(P, o) /\ h.brk \in Nat
        /\ \A p \in P : p \in Nat
    BY <1>1, WorklistIs DEF EvacState
  <1>3. d \in Nat /\ o <= d /\ d + PtrBytes <= h.brk /\ e \in Int /\ d <= e /\ e + FooterBytes <= h.brk
    BY <1>1 DEF PlaceOK
  <1>4. g.brk \in Nat
    BY DEF BrkOK
  <1>5. d + PtrBytes <= g.brk /\ e + FooterBytes <= g.brk
    BY <1>2, <1>3, <1>4 DEF PtrBytes, FooterBytes
  <1>6. \A p \in P : p + PtrBytes <= d
    BY <1>2, <1>3 DEF Above, PtrBytes
  <1>7. OldBase <= d
    BY <1>2, <1>3, Layout
  <1> QED
    BY <1>3, <1>5, <1>6, <1>7 DEF Cursor, Room, Above

\* The least of some naturals is one of them.
LEMMA MinIs ==
    ASSUME NEW T \in SUBSET Nat, T # {}
    PROVE  Min(T) \in T
  <1>1. \E x \in T : \A y \in T : x <= y
    BY Least
  <1> QED
    BY <1>1 DEF Min

\* What AbortInlining has moved to a new region, when the source is burned in heap g.
LEMMA MovedAway ==
    ASSUME NEW P, EvacState(P), ev.worklist # <<>>,
           NEW g, HeapOK(g, P), LaterOld(h, g, P), g.brk = h.brk,
           NEW cell, OldCell(cell), SizeOf(cell) = PtrBytes,
           NEW k, k = Store(g, ev.dst, cell),
           NEW new, new = FreshRegion(k, CHUNK_SIZE, 0),
           NEW d, NEW e, PlaceOK(d, e, ev.orig_dst, h.brk),
           NEW h1, h1 = evacuate_packed_simpl(new.h, d, e, new.dst, new.dst_end)
    PROVE  LaterOld(h, h1, P) /\ new.dst = h.brk
  <1>1. PICK o : o = ev.orig_dst
    OBVIOUS
  <1>2. /\ o \in Nat /\ Above(P, o) /\ BrkOK(h.brk) /\ h.brk \in Nat /\ HeapOK(h, P)
        /\ h.fault = "none" /\ \A p \in P : p \in Nat /\ p + PtrBytes <= h.brk
    BY <1>1, WorklistIs DEF EvacState
  <1>3. d \in Nat /\ o <= d /\ d + PtrBytes <= h.brk /\ e \in Int /\ e + FooterBytes <= h.brk
    BY <1>1 DEF PlaceOK
  <1>4. LaterOld(g, k, P) /\ k.brk = g.brk /\ k.fault = g.fault
    <2>1. PICK x : x = ev.dst
      OBVIOUS
    <2>2. Room(g, P, x, SizeOf(cell))
      BY <2>1, CursorIs DEF Cursor
    <2> QED
      BY <2>1, <2>2, CopyLater
  <1>5. HeapOK(k, P)
    BY <1>4 DEF LaterOld, Later
  <1>6. /\ LaterOld(k, new.h, P) /\ new.dst = k.brk
        /\ new.h.fault = "none" => NewChunk(k, new, CHUNK_SIZE)
    BY <1>5, SizesFit, FreshRegionLater
  <1>7. HeapOK(new.h, P)
    BY <1>6 DEF LaterOld, Later
  <1>8. new.dst = h.brk
    BY <1>4, <1>6
  <1>9. ASSUME new.h.fault = "none"
        PROVE  /\ BrkOK(new.h.brk) /\ h.brk <= new.h.brk
               /\ Cursor(new.h, P, new.dst, new.dst_end)
    <2>1. new.dst_end = new.dst + CHUNK_SIZE - FooterBytes /\ new.dst_end + FooterBytes <= new.h.brk
      BY <1>6, <1>9 DEF NewChunk
    <2>2. CHUNK_SIZE \in Nat /\ CHUNK_SIZE >= 56
      BY SizesFit
    <2>3. BrkOK(new.h.brk) /\ new.h.brk \in Nat
      BY <1>7, <1>9 DEF HeapOK, BrkOK
    <2>4. new.dst_end \in Int /\ new.dst <= new.dst_end /\ new.dst + PtrBytes <= new.h.brk /\ h.brk <= new.h.brk
      BY <1>2, <1>8, <2>1, <2>2, <2>3 DEF PtrBytes, FooterBytes
    <2> QED
      BY <1>2, <1>8, <2>1, <2>3, <2>4 DEF Cursor, Room, Above, BrkOK
  <1>10. LaterOld(new.h, h1, P)
    <2>1. PICK hp, nd, ne : hp = new.h /\ nd = new.dst /\ ne = new.dst_end
      OBVIOUS
    <2>2. hp.fault = "none" => /\ d \in Nat /\ o <= d /\ d <= hp.brk
                               /\ Cursor(hp, P, nd, ne)
      BY <1>2, <1>3, <1>9, <2>1 DEF PtrBytes, BrkOK
    <2>3. h1 = evacuate_packed_simpl(hp, d, e, nd, ne) /\ HeapOK(hp, P)
      BY <1>7, <2>1
    <2>4. LaterOld(hp, h1, P)
      BY <1>2, <2>2, <2>3, SimplLater
    <2> QED
      BY <2>1, <2>4
  <1>11. HeapOK(h1, P)
    BY <1>10 DEF LaterOld, Later
  <1>12. LaterOld(h, h1, P)
    <2>1. LaterOld(h, k, P)
      BY <1>2, <1>4, LaterTrans DEF LaterOld
    <2>2. LaterOld(h, new.h, P)
      BY <1>2, <1>6, <2>1, LaterTrans DEF LaterOld
    <2> QED
      BY <1>2, <1>10, <2>2, LaterTrans DEF LaterOld
  <1> QED
    BY <1>8, <1>12

\* ... and the indirection to it that takes its place.
LEMMA Repointed ==
    ASSUME NEW P, EvacState(P), ev.worklist # <<>>,
           NEW h1, LaterOld(h, h1, P),
           NEW d, NEW e, PlaceOK(d, e, ev.orig_dst, h.brk), e - d >= 32,
           NEW c, c = check_bounds(h1, 32, d, e),
           NEW cell, OldCell(cell), SizeOf(cell) = PtrBytes,
           NEW k, k = Store(c.h, c.dst, cell), NEW from, NEW to,
           NEW n, n = add_old_to_old_indirection(k, from, to)
    PROVE  /\ LaterOld(h, n, P) /\ HeapShape(n)
           /\ n.fault = "none" => Cursor(n, P, c.dst + PtrBytes, e) /\ ev.orig_dst <= c.dst + PtrBytes
  <1>1. PICK o : o = ev.orig_dst
    OBVIOUS
  <1>2. o \in Nat /\ h.brk \in Nat /\ HeapOK(h, P)
    BY <1>1, WorklistIs DEF EvacState
  <1>3. d \in Nat /\ o <= d /\ e \in Int /\ e + FooterBytes <= h.brk
    BY <1>1 DEF PlaceOK
  <1>4. HeapOK(h1, P)
    BY DEF LaterOld, Later
  <1>5. h1.fault = "none" => Cursor(h1, P, d, e)
    <2>1. ASSUME h1.fault = "none"
          PROVE  BrkOK(h1.brk) /\ h.brk <= h1.brk
      BY <2>1 DEF LaterOld, Later, HeapOK
    <2> QED
      BY <2>1, PlaceCursor
  <1>6. /\ LaterOld(h1, n, P) /\ HeapShape(n)
        /\ n.fault = "none" => /\ Cursor(n, P, c.dst + PtrBytes, c.dst_end)
                               /\ d <= c.dst + PtrBytes
    BY <1>4, <1>5, PointerCopied
  <1>7. LaterOld(h, n, P)
    BY <1>2, <1>6, LaterTrans DEF LaterOld
  <1>8. ASSUME n.fault = "none"
        PROVE  Cursor(n, P, c.dst + PtrBytes, e) /\ o <= c.dst + PtrBytes
    <2>1. PICK x : x = c.dst + PtrBytes
      OBVIOUS
    <2>2. Cursor(n, P, x, c.dst_end) /\ d <= x
      BY <1>6, <1>8, <2>1
    <2>3. c.dst_end = e
      BY DEF check_bounds
    <2>4. Cursor(n, P, x, e) /\ x \in Nat
      BY <2>2, <2>3 DEF Cursor, Room
    <2>5. o <= x
      BY <1>2, <1>3, <2>2, <2>4
    <2> QED
      BY <2>1, <2>4, <2>5
  <1> QED
    BY <1>1, <1>6, <1>7, <1>8

\* REDIRECTION_TAG while inlining: what was copied is moved away, and the copy goes
\* back to where the inlining began.
LEMMA AbortInliningInv ==
    ASSUME GInv, AbortInlining, UndoneInPlace
    PROVE  GInv' /\ (h'.fault = "none" => Less(CollectionWork', CollectionWork))
  <1>1. PICK P : P = PlacesOf(PendingRoots)
    OBVIOUS
  <1>2. /\ Collecting("evacuate_packed") /\ ev.worklist # <<>>
        /\ Tag(h.mem, ev.src) = "REDIRECTION" /\ ~contains_addr(h.mem[ev.src].to)
        /\ pc' = pc /\ UNCHANGED <<request, var>>
    BY DEF AbortInlining, AtTag, Acting
  <1>3. EvacState(P)
    BY <1>1, <1>2, EvacIs
  <1>4. /\ Rest \in Seq(Actions(ev.orig_dst, h.brk)) /\ Len(Rest) < Len(ev.worklist)
        /\ Len(Rest) \in Nat
        /\ ev.src \in Src /\ ev.burn /\ RootShape(ev)
        /\ \A k \in DOMAIN ev.so_env : ev.so_env[k] \in Src
    BY <1>2, <1>3, WorklistIs
  <1>5. PICK g, cell : g = BurnedAtSrc /\ cell = h.mem[ev.src]
    OBVIOUS
  <1>6. LaterOld(h, g, P) /\ HeapOK(g, P) /\ g.brk = h.brk
    BY <1>2, <1>3, <1>5, BurnedIs
  <1>7. OldCell(cell) /\ SizeOf(cell) = PtrBytes
    <2>1. cell.tag = "REDIRECTION"
      BY <1>2, <1>3, <1>5, SrcIs
    <2> QED
      BY <1>2, <1>5, <2>1, SizeOfCell DEF OldCell, Pointers
  <1>8. PICK A, w, found : /\ A = Actions(ev.orig_dst, h.brk) /\ w = Rest
                           /\ found = {i \in DOMAIN w : w[i].act = "RestoreSrc"}
    OBVIOUS
  <1>9. w \in Seq(A) /\ Len(w) \in Nat /\ DOMAIN w = 1 .. Len(w)
    BY <1>4, <1>8, LenProperties
  <1>10. CASE found = {}
    <2>1. PICK n : n = Fail(g, "panic: no RestoreSrc")
      OBVIOUS
    <2>2. h' = n
      BY <1>5, <1>8, <1>10, <2>1 DEF AbortInlining
    <2>3. HeapShape(n) /\ n.fault # "none"
      BY <1>6, <2>1, FailSame DEF SameMemory, HeapOK
    <2>4. PICK e2 : e2 = ev'
      OBVIOUS
    <2> QED
      BY <1>1, <1>2, <2>2, <2>3, <2>4, SteppedInv
  <1>11. CASE found # {}
    <2>1. PICK m : m = Min(found)
      OBVIOUS
    <2>2. m \in 1 .. Len(w) /\ w[m].act = "RestoreSrc"
      <3>1. found \in SUBSET Nat
        BY <1>8, <1>9
      <3>2. m \in found
        BY <1>11, <2>1, <3>1, MinIs
      <3> QED
        BY <1>8, <1>9, <3>2
    <2>3. PICK top : top = w[m]
      OBVIOUS
    <2>4. PICK d, e, s : d = top.dst /\ e = top.dst_end /\ s = top.src
      OBVIOUS
    <2>5. top \in A
      BY <1>9, <2>2, <2>3, ElementOfSeq
    <2>6. s \in Src /\ PlaceOK(d, e, ev.orig_dst, h.brk)
      BY <1>8, <2>2, <2>3, <2>4, <2>5, ActionIs
    <2>7. PICK k : k = Store(g, ev.dst, cell)
      OBVIOUS
    <2>8. PICK new : new = FreshRegion(k, CHUNK_SIZE, 0)
      OBVIOUS
    <2>9. PICK h1 : h1 = evacuate_packed_simpl(new.h, d, e, new.dst, new.dst_end)
      OBVIOUS
    <2>10. PICK c : c = check_bounds(h1, 32, d, e)
      OBVIOUS
    <2>11. PICK to, offset : to = new.dst /\ offset = new.dst_end - new.dst
      OBVIOUS
    <2>12. PICK cell2 : cell2 = PtrCell("INDIRECTION", to, offset)
      OBVIOUS
    <2>13. PICK h2 : h2 = Store(c.h, c.dst, cell2)
      OBVIOUS
    <2>14. PICK from, footer : from = c.dst_end /\ footer = new.dst_end
      OBVIOUS
    <2>15. PICK n : n = add_old_to_old_indirection(h2, from, footer)
      OBVIOUS
    <2>16. LaterOld(h, h1, P) /\ new.dst = h.brk
      BY <1>2, <1>3, <1>6, <1>7, <2>6, <2>7, <2>8, <2>9, MovedAway
    <2>17. OldCell(cell2) /\ SizeOf(cell2) = PtrBytes
      <3>1. ~contains_addr(to)
        BY <1>3, <2>11, <2>16, Layout DEF contains_addr, BrkOK, EvacState
      <3> QED
        BY <2>12, <3>1, IndirectionOld
    <2>18. /\ LaterOld(h, n, P) /\ HeapShape(n)
           /\ n.fault = "none" => /\ Cursor(n, P, c.dst + PtrBytes, e)
                                  /\ ev.orig_dst <= c.dst + PtrBytes
      <3>1. e - d >= 32
        BY <1>2, <1>8, <1>11, <2>1, <2>3, <2>4 DEF UndoneInPlace, AbortInlining, AtTag
      <3> QED
        BY <1>2, <1>3, <2>6, <3>1, <2>10, <2>13, <2>15, <2>16, <2>17, Repointed
    <2>19. h' = n
      <3>1. {i \in DOMAIN Rest : Rest[i].act = "RestoreSrc"} = found
        BY <1>8
      <3>2. {i \in DOMAIN Rest : Rest[i].act = "RestoreSrc"} # {}
        BY <1>11, <3>1
      <3>3. /\ Min({i \in DOMAIN Rest : Rest[i].act = "RestoreSrc"}) = m
            /\ Rest[Min({i \in DOMAIN Rest : Rest[i].act = "RestoreSrc"})] = top
        BY <1>8, <2>1, <2>3, <3>1
      <3>4. FreshRegion(Store(BurnedAtSrc, ev.dst, h.mem[ev.src]), CHUNK_SIZE, 0) = new
        BY <1>5, <2>7, <2>8
      <3>5. /\ evacuate_packed_simpl(new.h, top.dst, top.dst_end, new.dst, new.dst_end) = h1
            /\ check_bounds(h1, 32, top.dst, top.dst_end) = c
        BY <2>4, <2>9, <2>10
      <3>6. /\ Store(c.h, c.dst, PtrCell("INDIRECTION", new.dst, new.dst_end - new.dst)) = h2
            /\ add_old_to_old_indirection(h2, c.dst_end, new.dst_end) = n
        BY <2>11, <2>12, <2>13, <2>14, <2>15
      <3> QED
        BY <3>2, <3>3, <3>4, <3>5, <3>6, ZenonT(60) DEF AbortInlining
    <2>20. PICK v : v = SubSeq(w, m + 1, Len(w))
      OBVIOUS
    <2>21. v \in Seq(A) /\ Len(v) < Len(ev.worklist)
      <3>1. \A i \in m + 1 .. Len(w) : w[i] \in A
        BY <1>9, <2>2, ElementOfSeq
      <3>2. m + 1 \in Int /\ Len(w) \in Int
        BY <1>9, <2>2
      <3>3. v \in Seq(A) /\ Len(v) = (IF m + 1 <= Len(w) THEN Len(w) - (m + 1) + 1 ELSE 0)
        BY <2>20, <3>1, <3>2, SubSeqProperties
      <3>4. Len(v) < Len(w)
        <4>1. PICK l : l = Len(w)
          OBVIOUS
        <4>2. l \in Nat /\ m \in 1 .. l /\ Len(v) = (IF m + 1 <= l THEN l - (m + 1) + 1 ELSE 0)
          BY <1>9, <2>2, <3>3, <4>1
        <4>3. CASE m + 1 <= l
          <5>1. Len(v) = l - (m + 1) + 1
            BY <4>2, <4>3
          <5> QED
            BY <4>1, <4>2, <5>1
        <4>4. CASE ~(m + 1 <= l)
          <5>1. Len(v) = 0
            BY <4>2, <4>4
          <5> QED
            BY <4>1, <4>2, <5>1
        <4> QED
          BY <4>3, <4>4
      <3>5. Len(v) \in Nat /\ Len(ev.worklist) \in Nat
        <4>1. Len(ev.worklist) \in Nat
          BY <1>3, LenProperties DEF EvacState, RootOK
        <4> QED
          BY <3>3, <4>1, LenProperties
      <3> QED
        BY <1>4, <1>8, <1>9, <3>3, <3>4, <3>5
    <2>22. PICK e1, e2 : e1 = ev /\ e2 = ev'
      OBVIOUS
    <2>23. /\ RootShape(e2) /\ e2.src = s /\ e2.worklist = v /\ e2.queue = e1.queue
           /\ e2.root = e1.root /\ e2.orig_dst = e1.orig_dst /\ e2.fwd_env = e1.fwd_env
           /\ e2.so_env = e1.so_env
           /\ e2.burn = e1.burn /\ e2.dst = c.dst + PtrBytes /\ e2.dst_end = e
      <3>1. PICK fw, x : fw = (e1.forwarded \/ e1.burn) /\ x = c.dst + PtrBytes
        OBVIOUS
      <3>2. e2 = [e1 EXCEPT !.forwarded = fw, !.src = s, !.dst = x, !.dst_end = e, !.worklist = v]
        <4>1. ev' = [ev EXCEPT !.forwarded = @ \/ ev.burn, !.src = top.src,
                               !.dst = c.dst + PtrBytes, !.dst_end = top.dst_end,
                               !.worklist = SubSeq(w, m + 1, Len(w))]
          <5>1. found = {i \in DOMAIN Rest : Rest[i].act = "RestoreSrc"} /\ found # {}
            BY <1>8, <1>11
          <5>2. top = Rest[Min(found)]
            BY <1>8, <2>1, <2>3
          <5>3. new = FreshRegion(Store(BurnedAtSrc, ev.dst, h.mem[ev.src]), CHUNK_SIZE, 0)
            BY <1>5, <2>7, <2>8
          <5>4. c = check_bounds(evacuate_packed_simpl(new.h, top.dst, top.dst_end, new.dst, new.dst_end),
                                 32, top.dst, top.dst_end)
            BY <2>4, <2>9, <2>10
          <5>5. ev' = [ev EXCEPT !.forwarded = @ \/ ev.burn, !.src = top.src,
                                 !.dst = c.dst + PtrBytes, !.dst_end = top.dst_end,
                                 !.worklist = SubSeq(Rest, Min(found) + 1, Len(Rest))]
            BY <5>1, <5>2, <5>3, <5>4, Zenon DEF AbortInlining
          <5> QED
            BY <1>8, <2>1, <5>5
        <4> QED
          BY <2>4, <2>20, <2>22, <3>1, <4>1
      <3> QED
        BY <1>4, <2>22, <3>1, <3>2 DEF RootShape
    <2>24. Kept(ev, e2)
      BY <1>4, <2>6, <2>22, <2>23 DEF Kept
    <2>25. n.fault = "none" => Followed(ev, e2, n.brk)
      BY <1>2, <1>3, <1>8, <2>18, <2>21, <2>22, <2>23, <2>24, PlaceFollowed
    <2> QED
      BY <1>1, <1>2, <2>18, <2>19, <2>21, <2>22, <2>23, <2>25, SteppedInv
  <1> QED
    BY <1>10, <1>11

\* Two regions become one.
Joined(g, f, next, r, info, n) ==
    n = [g EXCEPT !.regs[r] = info,
                  !.mem[f] = [g.mem[f] EXCEPT !.next = next, !.reg_info = r]]
\* Linking two regions changes metadata of footers only.
LEMMA JoinLater ==
    ASSUME NEW g, NEW P, HeapOK(g, P), NEW f, NEW next, NEW r, NEW info,
           NEW n, Joined(g, f, next, r, info, n), IsFooter(g, f)
    PROVE  LaterOld(g, n, P) /\ HeapShape(n) /\ n.fault = g.fault /\ n.brk = g.brk
  <1>1. HeapShape(g)
    BY DEF HeapOK
  <1>2. PICK cell : cell = [g.mem[f] EXCEPT !.next = next, !.reg_info = r]
    OBVIOUS
  <1>3. PICK m : m = [g.mem EXCEPT ![f] = cell]
    OBVIOUS
  <1>4. /\ HeapShape(n) /\ n.mem = m /\ n.brk = g.brk /\ n.alloc = g.alloc
        /\ n.rem_set = g.rem_set /\ n.fault = g.fault
    BY <1>1, <1>2, <1>3 DEF HeapShape, Joined
  <1>5. f \in DOMAIN g.mem /\ g.mem[f].tag = "footer"
    BY DEF IsFooter, Tag
  <1>6. ASSUME g.fault = "none"
        PROVE  Relinked(g.mem, m, f)
    <2>1. PICK c : c = g.mem[f]
      OBVIOUS
    <2>2. MemOK(g.mem, P, g.brk)
      BY <1>6 DEF HeapOK
    <2>3. c = [tag |-> "footer", reg_info |-> c.reg_info, size |-> c.size, next |-> c.next]
      BY <1>5, <2>1, <2>2, FooterIs
    <2>4. cell = Footer(r, c.size, next)
      <3>1. PICK c1 : c1 = [c EXCEPT !.next = next]
        OBVIOUS
      <3>2. c1 = [tag |-> "footer", reg_info |-> c.reg_info, size |-> c.size, next |-> next]
        BY <2>3, <3>1
      <3>3. cell = [c1 EXCEPT !.reg_info = r]
        BY <1>2, <2>1, <3>1
      <3> QED
        BY <3>2, <3>3 DEF Footer
    <2>5. m[f] = cell /\ DOMAIN m = DOMAIN g.mem
      BY <1>3, <1>5
    <2>6. \A b \in DOMAIN g.mem : b # f => m[b] = g.mem[b]
      BY <1>3
    <2> QED
      BY <1>5, <2>1, <2>4, <2>5, <2>6 DEF Relinked
  <1>7. LaterOld(g, n, P)
    BY <1>4, <1>6, RelinkLater
  <1> QED
    BY <1>4, <1>7

\* REDIRECTION_TAG while not inlining: the two regions become one.
LEMMA ReconcileRegionsInv ==
    ASSUME GInv, ReconcileRegions
    PROVE  GInv' /\ (h'.fault = "none" => Less(CollectionWork', CollectionWork))
  <1>1. PICK P : P = PlacesOf(PendingRoots)
    OBVIOUS
  <1>2. /\ Collecting("evacuate_packed") /\ ev.worklist # <<>>
        /\ Tag(h.mem, ev.src) = "REDIRECTION" /\ ~contains_addr(h.mem[ev.src].to)
        /\ pc' = pc /\ UNCHANGED <<request, var>>
    BY DEF ReconcileRegions, AtTag, Acting
  <1>3. EvacState(P)
    BY <1>1, <1>2, EvacIs
  <1>4. /\ PlaceOK(ev.dst, ev.dst_end, ev.orig_dst, h.brk)
        /\ ev.burn /\ RootShape(ev) /\ ev.dst \in Nat
        /\ ev.orig_dst \in Nat /\ ev.orig_dst <= ev.dst
        /\ \A k \in DOMAIN ev.so_env : ev.so_env[k] \in Src
    BY <1>2, <1>3, WorklistIs
  <1>5. PICK g, cell : g = BurnedAtSrc /\ cell = h.mem[ev.src]
    OBVIOUS
  <1>6. /\ LaterOld(h, g, P) /\ HeapOK(g, P) /\ g.brk = h.brk /\ g.fault = "none"
        /\ ev.src \notin IntactIn(g.mem)
    BY <1>2, <1>3, <1>5, BurnedIs
  <1>7. cell.tag = "REDIRECTION" /\ ev.src \in Nat /\ heap_start <= ev.src
    BY <1>2, <1>3, <1>5, SrcIs
  <1>8. OldCell(cell) /\ SizeOf(cell) = PtrBytes
    BY <1>2, <1>5, <1>7, SizeOfCell DEF OldCell, Pointers
  <1>9. PICK d : d = ev.dst
    OBVIOUS
  <1>10. PICK k : k = Store(g, d, cell)
    OBVIOUS
  <1>11. LaterOld(g, k, P) /\ k.brk = g.brk /\ k.fault = g.fault
    <2>1. Room(g, P, d, SizeOf(cell))
      BY <1>2, <1>3, <1>6, <1>8, <1>9, CursorIs DEF Cursor
    <2> QED
      BY <1>6, <1>8, <1>10, <2>1, CopyLater
  <1>12. HeapOK(k, P) /\ HeapShape(k)
    BY <1>11 DEF LaterOld, Later, HeapOK
  <1>13. LaterOld(h, k, P)
    BY <1>3, <1>6, <1>11, LaterTrans DEF LaterOld, EvacState
  <1>14. PICK f1, f2 : f1 = ev.dst_end /\ f2 = cell.to + cell.offset
    OBVIOUS
  <1>15. PICK r1, r2 : r1 = RegOf(k, f1) /\ r2 = RegOf(k, f2)
    OBVIOUS
  <1>16. PICK info : info = [refcount |-> u16(k.regs[r2].refcount + k.regs[r1].refcount),
                             outset |-> k.regs[r2].outset \cup k.regs[r1].outset,
                             first |-> k.regs[r1].first]
    OBVIOUS
  <1>17. PICK n : n = h'
    OBVIOUS
  <1>18. LaterOld(h, n, P) /\ HeapShape(n) /\ (n.fault = "none" => n.brk = h.brk)
    <2>1. CASE ~IsFooter(k, f1) \/ ~IsFooter(k, f2)
      <3>1. PICK j : j = Fail(k, "wild")
        OBVIOUS
      <3>2. n = j
        BY <1>5, <1>9, <1>10, <1>14, <1>17, <2>1, <3>1 DEF ReconcileRegions
      <3>3. SameMemory(k, j) /\ j.fault # "none"
        BY <1>12, <3>1, FailSame
      <3>4. LaterOld(k, j, P) /\ HeapShape(j)
        BY <1>12, <3>3, SameLater DEF SameMemory
      <3>5. LaterOld(h, j, P)
        BY <1>3, <1>13, <3>4, LaterTrans DEF LaterOld, EvacState
      <3> QED
        BY <3>2, <3>3, <3>4, <3>5
    <2>2. CASE IsFooter(k, f1) /\ IsFooter(k, f2)
      <3>1. Joined(k, f1, f2, r2, info, n)
        BY <1>5, <1>9, <1>10, <1>14, <1>15, <1>16, <1>17, <2>2 DEF ReconcileRegions, Joined
      <3>2. LaterOld(k, n, P) /\ HeapShape(n) /\ n.fault = k.fault /\ n.brk = k.brk
        BY <1>12, <2>2, <3>1, JoinLater
      <3>3. LaterOld(h, n, P)
        BY <1>3, <1>13, <3>2, LaterTrans DEF LaterOld, EvacState
      <3> QED
        BY <1>6, <1>11, <3>2, <3>3
    <2> QED
      BY <2>1, <2>2
  <1>19. PICK e1, e2 : e1 = ev /\ e2 = ev'
    OBVIOUS
  <1>20. /\ RootShape(e2) /\ e2.src = e1.src + PtrBytes /\ e2.worklist = <<>> /\ e2.queue = e1.queue
         /\ e2.root = e1.root /\ e2.orig_dst = e1.orig_dst /\ e2.fwd_env = e1.fwd_env
         /\ e2.so_env = e1.so_env
         /\ e2.burn = e1.burn /\ e2.dst = e1.dst + PtrBytes /\ e2.dst_end = e1.dst_end
    <2>1. PICK fw, x, y : fw = (e1.forwarded \/ e1.burn) /\ x = e1.src + PtrBytes /\ y = e1.dst + PtrBytes
      OBVIOUS
    <2>2. e2 = [e1 EXCEPT !.forwarded = fw, !.src = x, !.dst = y, !.worklist = <<>>]
      BY <1>19, <2>1 DEF ReconcileRegions
    <2> QED
      BY <1>4, <1>19, <2>1, <2>2 DEF RootShape
  <1>21. Kept(ev, e2)
    <2>1. e2.src \in Src
      BY <1>7, <1>19, <1>20, Layout DEF Src, PtrBytes
    <2> QED
      BY <1>4, <1>19, <1>20, <2>1 DEF Kept
  <1>22. Followed(ev, e2, h.brk)
    <2>1. e2.dst \in Nat /\ ev.orig_dst <= e2.dst /\ e2.dst <= h.brk
      BY <1>4, <1>19, <1>20 DEF PlaceOK, PtrBytes
    <2>2. e2.worklist \in Seq(Actions(ev.orig_dst, h.brk))
      BY <1>20, EmptySeq
    <2> QED
      BY <1>20, <1>21, <2>1, <2>2 DEF Followed
  <1>23. Len(e2.worklist) < Len(ev.worklist)
    <2>1. PICK A : A = Actions(ev.orig_dst, h.brk)
      OBVIOUS
    <2>2. ev.worklist \in Seq(A)
      BY <1>3, <2>1 DEF EvacState, RootOK
    <2>3. Len(ev.worklist) \in Nat \ {0} /\ Len(e2.worklist) = 0
      BY <1>2, <1>20, <2>2, EmptySeq
    <2> QED
      BY <2>3
  <1> QED
    BY <1>1, <1>2, <1>17, <1>18, <1>19, <1>22, <1>23, SteppedInv

\* The worklist of a constructor's fields.
LEMMA FieldsListed ==
    ASSUME NEW A, ProcessTy \in A, NEW n \in Nat, NEW skip \in Seq(A), NEW w \in Seq(A),
           NEW v, v = [i \in 1 .. n |-> ProcessTy] \o skip \o w
    PROVE  v \in Seq(A)
  <1>1. PICK f : f = [i \in 1 .. n |-> ProcessTy]
    OBVIOUS
  <1>2. f \in [1 .. n -> A]
    BY <1>1
  <1>3. f \in Seq(A)
    BY <1>2, SeqDef
  <1> QED
    BY <1>1, <1>3, ConcatProperties

\* The source of a constructor is burned, with a forwarding pointer if one fits.
BurnedWith(g, a, bytes, to, e, n) ==
    n = (IF bytes >= 8 THEN ForwardAt(g, a, to, e) ELSE [g EXCEPT !.mem = Burn(@, a, 1 + bytes)])
\* Burning a constructor, with a forwarding pointer if there is space for it.
LEMMA ConBurned ==
    ASSUME NEW g, NEW P, HeapOK(g, P), NEW a \in Nat, heap_start <= a, NEW bytes \in Nat,
           NEW to \in Int, to < heap_start, NEW e,
           NEW n, BurnedWith(g, a, bytes, to, e, n)
    PROVE  /\ LaterOld(g, n, P) /\ n.brk = g.brk /\ n.fault = g.fault
           /\ n.fault = "none" => a \notin IntactIn(n.mem)
  <1>1. CASE bytes >= 8
    <2>1. n = Store(g, a, PtrCell("COPIED_TO", to, e - to))
      BY <1>1 DEF ForwardAt, BurnedWith
    <2>2. PICK offset : offset = e - to
      OBVIOUS
    <2>3. n = Store(g, a, PtrCell("COPIED_TO", to, offset)) /\ a \in Int
      BY <2>1, <2>2
    <2> QED
      BY <2>3, ForwardLater
  <1>2. CASE ~(bytes >= 8)
    <2>1. PICK k : k = 1 + bytes
      OBVIOUS
    <2>2. k \in Nat \ {0}
      BY <2>1
    <2>3. n = [g EXCEPT !.mem = Burn(@, a, k)]
      BY <1>2, <2>1 DEF BurnedWith
    <2> QED
      <3>1. /\ HeapShape(n) /\ n.mem = Burn(g.mem, a, k) /\ n.brk = g.brk
            /\ n.alloc = g.alloc /\ n.rem_set = g.rem_set /\ n.fault = g.fault
        BY <2>3 DEF HeapOK, HeapShape
      <3> QED
        BY <2>2, <3>1, BurnLater
  <1> QED
    BY <1>1, <1>2

\* Every other tag: a constructor is copied and burned, and its fields are put on the
\* worklist.
LEMMA CopyConstructorInv ==
    ASSUME GInv, CopyConstructor
    PROVE  GInv' /\ (h'.fault = "none" => Less(CollectionWork', CollectionWork))
  <1>1. PICK P : P = PlacesOf(PendingRoots)
    OBVIOUS
  <1>2. /\ Collecting("evacuate_packed") /\ ev.worklist # <<>>
        /\ Tag(h.mem, ev.src) \notin Reserved
        /\ pc' = pc /\ UNCHANGED <<request, var>>
    BY DEF CopyConstructor, Acting
  <1>3. EvacState(P)
    BY <1>1, <1>2, EvacIs
  <1>4. /\ Rest \in Seq(Actions(ev.orig_dst, h.brk))
        /\ ev.src \in Src /\ ev.burn /\ RootShape(ev) /\ ev.dst \in Nat /\ ev.dst <= h.brk
        /\ \A k \in DOMAIN ev.so_env : ev.so_env[k] \in Src
    BY <1>2, <1>3, WorklistIs
  <1>5. HeapOK(h, P) /\ HeapShape(h) /\ BrkOK(h.brk)
    BY <1>3 DEF EvacState
  <1>6. CASE Tag(h.mem, ev.src) \notin Con
    <2>1. PICK n : n = Fail(h, "wild")
      OBVIOUS
    <2>2. h' = n
      BY <1>6, <2>1 DEF CopyConstructor
    <2>3. HeapShape(n) /\ n.fault # "none"
      BY <1>5, <2>1, FailSame DEF SameMemory
    <2>4. PICK e2 : e2 = ev'
      OBVIOUS
    <2> QED
      BY <1>1, <1>2, <2>2, <2>3, <2>4, SteppedInv
  <1>7. CASE Tag(h.mem, ev.src) \in Con
    <2>1. PICK a, cell : a = ev.src /\ cell = h.mem[a]
      OBVIOUS
    <2>2. cell.tag \in Con /\ a \in Nat /\ heap_start <= a /\ a \in IntactIn(h.mem)
      <3>1. Tag(h.mem, a) # "garbage"
        BY <1>7, <2>1, TagsApart
      <3>2. cell.tag = Tag(h.mem, a) /\ a \in Nat /\ heap_start <= a
            /\ (cell.tag \notin Burnt => a \in IntactIn(h.mem))
        BY <1>2, <1>3, <2>1, <3>1, SrcIs
      <3>3. cell.tag \notin Burnt
        BY <1>2, <2>1, <3>2 DEF Reserved, Burnt
      <3> QED
        BY <1>7, <2>1, <3>2, <3>3
    <2>3. PICK bytes, size : bytes = ScalarBytes[cell.tag] /\ size = SizeOf(cell)
      OBVIOUS
    <2>4. bytes \in Nat /\ size = 1 + bytes /\ OldCell(cell) /\ Fields[cell.tag] \in Nat
      BY <2>2, <2>3, InfoTable, SizeOfCell DEF OldCell
    <2>5. PICK m, d, e : m = 32 + bytes /\ d = ev.dst /\ e = ev.dst_end
      OBVIOUS
    <2>6. Space(m)
      BY <2>2, <2>3, <2>5 DEF Space
    <2>7. PICK c : c = check_bounds(h, m, d, e)
      OBVIOUS
    <2>8. PICK g : g = Store(c.h, c.dst, cell)
      OBVIOUS
    <2>9. Cursor(h, P, d, e)
      BY <1>2, <1>3, <2>5, CursorIs
    <2>10. SizeOf(cell) + PtrBytes <= m
      BY <2>3, <2>4, <2>5 DEF PtrBytes
    <2>11. PICK x, f : x = c.dst + size /\ f = c.dst_end
      OBVIOUS
    <2>12. /\ LaterOld(h, g, P) /\ HeapShape(g)
           /\ g.fault = "none" => Cursor(g, P, x, f) /\ d <= x
      <3>1. /\ LaterOld(h, g, P) /\ HeapShape(g)
            /\ g.fault = "none" => /\ Cursor(g, P, c.dst + SizeOf(cell), c.dst_end)
                                   /\ d <= c.dst + SizeOf(cell)
        BY <1>5, <2>4, <2>6, <2>7, <2>8, <2>9, <2>10, CheckedCopy
      <3> QED
        BY <2>3, <2>11, <3>1
    <2>13. PICK n : BurnedWith(g, a, bytes, d, e, n)
      BY DEF BurnedWith
    <2>14. /\ LaterOld(g, n, P) /\ n.brk = g.brk /\ n.fault = g.fault
           /\ n.fault = "none" => a \notin IntactIn(n.mem)
      <3>1. HeapOK(g, P)
        BY <2>12 DEF LaterOld, Later
      <3>2. d \in Int /\ d < heap_start
        BY <1>4, <1>5, <2>5, Layout DEF BrkOK
      <3> QED
        BY <2>2, <2>4, <2>13, <3>1, <3>2, ConBurned
    <2>15. LaterOld(h, n, P) /\ HeapShape(n)
      BY <1>5, <2>12, <2>14, LaterTrans DEF LaterOld, Later, HeapOK
    <2>16. n.fault = "none" => Cursor(n, P, x, f) /\ d <= x
      BY <2>12, <2>14 DEF Cursor, Room
    <2>17. h' = n
      BY <1>4, <1>7, <2>1, <2>3, <2>5, <2>7, <2>8, <2>13 DEF CopyConstructor, BurnedWith
    <2>18. PICK A : A = Actions(ev.orig_dst, h.brk)
      OBVIOUS
    <2>19. PICK skip : skip = (IF ev.burn /\ ev.root.prov = "RemSet"
                               THEN <<SkipoverEnvWrite(a)>> ELSE <<>>)
      OBVIOUS
    <2>20. PICK w : w = [i \in 1 .. Fields[cell.tag] |-> ProcessTy] \o skip \o Rest
      OBVIOUS
    <2>21. w \in Seq(A)
      <3>1. ProcessTy \in A /\ SkipoverEnvWrite(a) \in A
        BY <2>2, <2>18 DEF Actions, SkipoverEnvWrite
      <3>2. skip \in Seq(A)
        BY <2>19, <3>1
      <3>3. Rest \in Seq(A)
        BY <1>4, <2>18
      <3> QED
        BY <2>4, <2>20, <3>1, <3>2, <3>3, FieldsListed
    <2>22. PICK e1, e2, to : e1 = ev /\ e2 = ev' /\ to = a + size
      OBVIOUS
    <2>23. /\ RootShape(e2) /\ e2.src = to /\ e2.worklist = w /\ e2.queue = e1.queue
           /\ e2.root = e1.root /\ e2.orig_dst = e1.orig_dst /\ e2.fwd_env = e1.fwd_env
           /\ e2.so_env = e1.so_env
           /\ e2.burn = e1.burn /\ e2.dst = x /\ e2.dst_end = f
      <3>1. PICK fw : fw = (IF e1.burn THEN bytes >= 8 ELSE e1.forwarded)
        OBVIOUS
      <3>2. e2 = [e1 EXCEPT !.forwarded = fw, !.worklist = w, !.src = to, !.dst = x, !.dst_end = f]
        BY <1>7, <2>1, <2>3, <2>5, <2>7, <2>11, <2>19, <2>20, <2>22, <3>1 DEF CopyConstructor
      <3> QED
        BY <1>4, <2>22, <3>1, <3>2 DEF RootShape
    <2>24. Kept(ev, e2)
      <3>1. to \in Src
        BY <2>2, <2>4, <2>22, Layout DEF Src
      <3> QED
        BY <1>4, <2>22, <2>23, <3>1 DEF Kept
    <2>25. n.fault = "none" => Followed(ev, e2, n.brk)
      BY <1>2, <1>3, <2>5, <2>15, <2>16, <2>18, <2>21, <2>23, <2>24, CursorFollowed
    <2> QED
      BY <1>1, <1>2, <2>1, <2>2, <2>14, <2>15, <2>17, <2>22, <2>25, SteppedInv
  <1> QED
    BY <1>6, <1>7

\* The collector moves the write cursor or the read cursor of x.
CursorAt(vs, x, d, e, ws) == ws = [vs EXCEPT ![x].wptr = d, ![x].wend = e]
ReaderAt(vs, x, d, e, ws) == ws = [vs EXCEPT ![x].ptr = d, ![x].endptr = e]

\* The collector moves a write cursor,
LEMMA CursorSet ==
    ASSUME NEW vs, VarShape(vs), NEW x, NEW d, NEW e, NEW ws, CursorAt(vs, x, d, e, ws)
    PROVE  /\ VarShape(ws) /\ WritersIn(ws) = WritersIn(vs)
           /\ x \in Var => ws[x].wptr = d /\ ws[x].wend = e
           /\ \A y \in Var \ {x} : ws[y] = vs[y]
  <1>1. PICK u : u = [vs[x] EXCEPT !.wptr = d]
    OBVIOUS
  <1>2. PICK us : us = [vs EXCEPT ![x] = u]
    OBVIOUS
  <1>3. PICK w : w = [us[x] EXCEPT !.wend = e]
    OBVIOUS
  <1>4. ws = [us EXCEPT ![x] = w]
    BY <1>1, <1>2, <1>3 DEF CursorAt
  <1>5. x \in Var => /\ RecShape(u) /\ u.todo = vs[x].todo /\ u.wptr = d
    BY <1>1 DEF VarShape, RecShape
  <1>6. Put(vs, x, u, us)
    <2>1. Assigned(vs, x, u, us)
      BY <1>2 DEF Assigned
    <2> QED
      BY <1>5, <2>1, PutShape
  <1>7. x \in Var => us[x] = u
    BY <1>6 DEF Put
  <1>8. x \in Var => RecShape(w) /\ w.todo = u.todo /\ w.wptr = d /\ w.wend = e
    BY <1>3, <1>5, <1>7 DEF RecShape
  <1>9. Put(us, x, w, ws)
    <2>1. Assigned(us, x, w, ws) /\ VarShape(us)
      BY <1>4, <1>6 DEF Assigned, Put
    <2> QED
      BY <1>8, <2>1, PutShape
  <1>10. \A y \in Var : ws[y].todo = vs[y].todo
    BY <1>5, <1>6, <1>8, <1>9 DEF Put
  <1> QED
    BY <1>6, <1>8, <1>9, <1>10 DEF Put, WritersIn

\* or a read cursor.
LEMMA ReaderSet ==
    ASSUME NEW vs, VarShape(vs), NEW x, NEW d, NEW e, NEW ws, ReaderAt(vs, x, d, e, ws)
    PROVE  /\ VarShape(ws) /\ WritersIn(ws) = WritersIn(vs)
           /\ \A y \in Var : ws[y].wptr = vs[y].wptr /\ ws[y].wend = vs[y].wend
  <1>1. PICK u : u = [vs[x] EXCEPT !.ptr = d]
    OBVIOUS
  <1>2. PICK us : us = [vs EXCEPT ![x] = u]
    OBVIOUS
  <1>3. PICK w : w = [us[x] EXCEPT !.endptr = e]
    OBVIOUS
  <1>4. ws = [us EXCEPT ![x] = w]
    BY <1>1, <1>2, <1>3 DEF ReaderAt
  <1>5. x \in Var => /\ RecShape(u) /\ u.todo = vs[x].todo /\ u.wptr = vs[x].wptr
                     /\ u.wend = vs[x].wend
    BY <1>1 DEF VarShape, RecShape
  <1>6. Put(vs, x, u, us)
    <2>1. Assigned(vs, x, u, us)
      BY <1>2 DEF Assigned
    <2> QED
      BY <1>5, <2>1, PutShape
  <1>7. x \in Var => us[x] = u
    BY <1>6 DEF Put
  <1>8. x \in Var => RecShape(w) /\ w.todo = u.todo /\ w.wptr = u.wptr /\ w.wend = u.wend
    BY <1>3, <1>5, <1>7 DEF RecShape
  <1>9. Put(us, x, w, ws)
    <2>1. Assigned(us, x, w, ws) /\ VarShape(us)
      BY <1>4, <1>6 DEF Assigned, Put
    <2> QED
      BY <1>8, <2>1, PutShape
  <1>10. \A y \in Var : ws[y].todo = vs[y].todo /\ ws[y].wptr = vs[y].wptr /\ ws[y].wend = vs[y].wend
    BY <1>5, <1>6, <1>8, <1>9 DEF Put
  <1> QED
    BY <1>9, <1>10 DEF Put, WritersIn

\* The cursor of a writer comes to the end of the copy.
LEMMA WriterPlaced ==
    ASSUME NEW P, EvacState(P), ev.worklist # <<>>, NEW x, NEW d, NEW e, d = ev.dst, e = ev.dst_end,
           NEW ws, CursorAt(var, x, d, e, ws), NEW brk \in Nat, h.brk <= brk
    PROVE  /\ VarShape(ws) /\ ProgramOK(ws, P, brk)
           /\ {y \in WritersIn(ws) : contains_addr(ws[y].wptr)} \subseteq Unrestored
  <1>1. /\ VarShape(var) /\ ProgramOK(var, P, h.brk) /\ BrkOK(h.brk) /\ h.brk \in Nat
        /\ RootOK(ev, P, var, h.brk)
        /\ \A p \in P : p \in Nat /\ p + PtrBytes <= h.brk
    BY DEF EvacState
  <1>2. /\ VarShape(ws) /\ WritersIn(ws) = WritersIn(var)
        /\ x \in Var => ws[x].wptr = d /\ ws[x].wend = e
        /\ \A y \in Var \ {x} : ws[y] = var[y]
    BY <1>1, CursorSet
  <1>3. PICK lo : lo = ev.orig_dst
    OBVIOUS
  <1>4. /\ PlaceOK(d, e, lo, h.brk) /\ d \in Nat /\ lo \in Nat /\ lo <= d /\ OldBase <= lo
        /\ Above(P, lo) /\ \A y \in OldWritersIn(var) : Top(var[y]) <= lo
    BY <1>1, <1>3 DEF RootOK
  <1>5. /\ e \in Int /\ e + FooterBytes <= h.brk /\ d + PtrBytes <= h.brk /\ h.brk < heap_start
    BY <1>1, <1>4 DEF PlaceOK, BrkOK
  <1>6. ~contains_addr(d)
    BY <1>1, <1>4, <1>5, Layout DEF contains_addr, PtrBytes
  <1>7. ASSUME NEW y \in WritersIn(ws), y # x
        PROVE  y \in WritersIn(var) /\ ws[y].wptr = var[y].wptr /\ ws[y].wend = var[y].wend
    BY <1>2, <1>7 DEF WritersIn
  <1>8. x \in WritersIn(ws) => x \in Var
    BY DEF WritersIn
  <1>9. x \in WritersIn(ws) => WriterOK(ws[x], brk)
    <2> HAVE x \in WritersIn(ws)
    <2>1. ws[x].wptr = d /\ ws[x].wend = e
      BY <1>2, <1>8
    <2>2. PICK top : top = Top(ws[x])
      OBVIOUS
    <2>3. top \in Int /\ top <= h.brk
      BY <1>4, <1>5, <2>1, <2>2 DEF Top, PtrBytes, FooterBytes
    <2>4. OldBase <= d /\ top <= brk
      BY <1>1, <1>4, <2>3, Layout
    <2> QED
      BY <1>4, <1>5, <1>6, <2>1, <2>2, <2>4 DEF WriterOK
  <1>10. ASSUME x \in OldWritersIn(ws), NEW y \in OldWritersIn(var)
         PROVE  Top(var[y]) <= ws[x].wptr
    <2>1. x \in Var
      BY <1>10 DEF OldWritersIn, WritersIn
    <2>2. ws[x].wptr = d
      BY <1>2, <2>1
    <2>3. WriterOK(var[y], h.brk)
      BY <1>1 DEF ProgramOK, OldWritersIn
    <2>4. Top(var[y]) \in Int
      BY <2>3 DEF WriterOK, Top, PtrBytes, FooterBytes
    <2> QED
      BY <1>4, <2>2, <2>4
  <1>11. ASSUME x \in OldWritersIn(ws), NEW q \in P
         PROVE  Beside(q, ws[x])
    <2>1. x \in Var
      BY <1>11 DEF OldWritersIn, WritersIn
    <2>2. ws[x].wptr = d
      BY <1>2, <2>1
    <2>3. q \in Nat /\ q + PtrBytes <= lo
      BY <1>1, <1>4 DEF Above
    <2> QED
      BY <1>4, <2>2, <2>3 DEF Beside, PtrBytes
  <1>12. ProgramOK(ws, P, brk)
    BY <1>1, <1>7, <1>9, <1>10, <1>11, ProgramStep
  <1>13. ASSUME NEW y \in WritersIn(ws), contains_addr(ws[y].wptr)
         PROVE  y \in Unrestored
    <2>1. y # x
      BY <1>2, <1>6, <1>8, <1>13
    <2> QED
      BY <1>7, <1>13, <2>1 DEF Unrestored, Writers, WritersIn
  <1> QED
    BY <1>2, <1>12, <1>13

\* CAUTERIZED_TAG: the writer goes on behind the copy, which ends here.
LEMMA UncauterizeInv ==
    ASSUME GInv, Uncauterize
    PROVE  GInv' /\ (h'.fault = "none" => Less(CollectionWork', CollectionWork))
  <1>1. PICK P : P = PlacesOf(PendingRoots)
    OBVIOUS
  <1>2. /\ Collecting("evacuate_packed") /\ ev.worklist # <<>> /\ Tag(h.mem, ev.src) = "CAUTERIZED"
        /\ pc' = pc /\ UNCHANGED request /\ pc = "evacuate_packed"
    BY DEF Uncauterize, AtTag, Acting, Collecting
  <1>3. EvacState(P)
    BY <1>1, <1>2, EvacIs
  <1>4. /\ ev.worklist \in Seq(Actions(ev.orig_dst, h.brk))
        /\ ev.src \in Src /\ ev.burn /\ RootShape(ev) /\ ev.dst \in Nat /\ ev.dst <= h.brk
        /\ ev.orig_dst <= ev.dst
        /\ \A k \in DOMAIN ev.so_env : ev.so_env[k] \in Src
    BY <1>2, <1>3, WorklistIs DEF EvacState, RootOK
  <1>5. HeapOK(h, P) /\ HeapShape(h) /\ BrkOK(h.brk) /\ h.brk \in Nat /\ h.fault = "none"
    BY <1>3 DEF EvacState
  <1>6. PICK x, after, d, e : /\ x = h.mem[ev.src].frame /\ after = ev.src + PtrBytes
                              /\ d = ev.dst /\ e = ev.dst_end
    OBVIOUS
  <1>7. ev.src \in Nat /\ heap_start <= ev.src
    BY <1>2, <1>3, SrcIs
  <1>8. after \in Int /\ heap_start <= after /\ after \in Src
    BY <1>6, <1>7, Layout DEF Src, PtrBytes
  <1>9. PICK offset, n : offset = e - d /\ n = Store(h, after, PtrCell("COPIED_TO", d, offset))
    OBVIOUS
  <1>10. h' = n
    BY <1>6, <1>9 DEF Uncauterize, ForwardAt
  <1>11. LaterOld(h, n, P) /\ n.brk = h.brk /\ n.fault = h.fault
    <2>1. d \in Int /\ d < heap_start
      BY <1>4, <1>5, <1>6, Layout DEF BrkOK
    <2> QED
      BY <1>5, <1>8, <1>9, <2>1, ForwardLater
  <1>12. PICK ws : ws = var'
    OBVIOUS
  <1>13. CursorAt(var, x, d, e, ws)
    BY <1>6, <1>12 DEF Uncauterize, WriterHere, CursorAt
  <1>14. /\ VarShape(ws) /\ ProgramOK(ws, P, n.brk)
         /\ {y \in WritersIn(ws) : contains_addr(ws[y].wptr)} \subseteq Unrestored
    BY <1>2, <1>3, <1>5, <1>6, <1>11, <1>13, WriterPlaced
  <1>15. PICK e1, e2 : e1 = ev /\ e2 = ev'
    OBVIOUS
  <1>16. /\ RootShape(e2) /\ e2.src = after /\ e2.worklist = <<>> /\ e2.queue = e1.queue
         /\ e2.root = e1.root /\ e2.orig_dst = e1.orig_dst /\ e2.fwd_env = e1.fwd_env
         /\ e2.so_env = e1.so_env /\ e2.burn = e1.burn /\ e2.dst = d
    <2>1. e2 = [e1 EXCEPT !.forwarded = TRUE, !.src = after, !.worklist = <<>>]
      BY <1>6, <1>15 DEF Uncauterize
    <2> QED
      BY <1>4, <1>6, <1>15, <2>1 DEF RootShape
  <1>17. Kept(e1, e2)
    BY <1>4, <1>8, <1>15, <1>16 DEF Kept
  <1>18. Placed(e1, e2, ws, n.brk)
    <2>1. e2.worklist \in Seq(Actions(e1.orig_dst, n.brk))
      BY <1>16, EmptySeq
    <2>2. e2.dst \in Nat /\ e1.orig_dst <= e2.dst /\ e2.dst <= n.brk
      BY <1>4, <1>6, <1>11, <1>15, <1>16
    <2> QED
      BY <1>16, <2>1, <2>2 DEF Placed
  <1>19. Later(h, n, P) /\ HeapShape(n) /\ NoneNew(h, n)
    BY <1>11 DEF LaterOld, Later, HeapOK
  <1>20. GInv'
    BY <1>1, <1>2, <1>10, <1>12, <1>14, <1>15, <1>17, <1>18, <1>19, EvacuatedInv
  <1>21. Less(CollectionWork', CollectionWork)
    <2>1. PICK Q, U, I : Q = ev'.queue /\ U = Unrestored' /\ I = Intact'
      OBVIOUS
    <2>2. Q = ev.queue
      BY <1>15, <1>16, <2>1
    <2>3. U \subseteq Unrestored
      BY <1>12, <1>14, <2>1 DEF Unrestored, Writers, WritersIn
    <2>4. I = IntactIn(n.mem)
      BY <1>10, <2>1 DEF Intact, IntactIn, Burned, Burnt, Tag
    <2>5. I \subseteq Intact
      BY <1>5, <1>11, <1>19, <2>4, IntactIs DEF NoneNew
    <2>6. PICK a, b : /\ a = (IF pc' = "evacuate_packed" THEN 1 + Len(ev'.worklist) ELSE 0)
                      /\ b = (IF pc = "evacuate_packed" THEN 1 + Len(ev.worklist) ELSE 0)
      OBVIOUS
    <2>7. a = 1 + Len(e2.worklist) /\ b = 1 + Len(ev.worklist)
      BY <1>2, <1>15, <2>6
    <2>8. Len(e2.worklist) = 0 /\ Len(ev.worklist) \in Nat \ {0}
      <3>1. PICK A : A = Actions(ev.orig_dst, h.brk)
        OBVIOUS
      <3>2. ev.worklist \in Seq(A)
        BY <1>4, <3>1
      <3> QED
        BY <1>2, <1>16, <3>2, EmptySeq
    <2>9. a < b
      BY <2>7, <2>8
    <2>10. pc # "mutator"
      BY <1>2
    <2> QED
      BY <1>5, <2>1, <2>2, <2>3, <2>5, <2>6, <2>9, <2>10, WorkPacked
  <1> QED
    BY <1>20, <1>21

\* What the invariant says between the roots.
RootsState(P) ==
    /\ h.fault = "none" /\ HeapShape(h) /\ HeapOK(h, P) /\ MemOK(h.mem, P, h.brk)
    /\ BrkOK(h.brk) /\ h.brk \in Nat
    /\ h.alloc \in heap_start .. heap_end /\ IsFiniteSet(h.rem_set) /\ Apart(PendingRoots)
    /\ VarShape(var) /\ ProgramOK(var, P, h.brk)
    /\ QueueOK(ev) /\ QueueShape(ev)
    /\ request.x \in Var /\ request.size \in RegionSizes
    /\ \A p \in P : p \in Nat /\ p + PtrBytes <= h.brk
\* What the invariant says between two roots.
LEMMA RootsIs ==
    ASSUME GInv, Collecting("roots"), NEW P, P = PlacesOf(PendingRoots)
    PROVE  RootsState(P) /\ PendingRoots = {r \in ev.queue : r.prov = "RemSet"} /\ pc = "roots"
  <1>1. h.fault = "none" /\ pc = "roots"
    BY DEF Collecting
  <1>2. Good /\ HeapShape(h) /\ VarShape(var)
    BY <1>1 DEF GInv
  <1>3. Remembered = PendingRoots /\ PendingRoots = {r \in ev.queue : r.prov = "RemSet"}
    BY <1>1 DEF Remembered, PendingRoots
  <1>4. HeapOK(h, P) /\ MemOK(h.mem, P, h.brk) /\ BrkOK(h.brk)
    BY <1>1, <1>2, <1>3 DEF Good, HeapOK
  <1>5. h.brk \in Nat /\ \A p \in P : p \in Nat /\ p + PtrBytes <= h.brk
    BY <1>4 DEF BrkOK, MemOK, RememberedOK
  <1> QED
    BY <1>1, <1>2, <1>3, <1>4, <1>5 DEF Good, RootsState

\* The invariant after a step to there.
LEMMA RootsInv ==
    ASSUME GInv, h.fault = "none", pc \in {"roots", "evacuate_packed"}, pc' = "roots",
           UNCHANGED request,
           NEW Q, Q = {r \in ev'.queue : r.prov = "RemSet"}, Q \subseteq PendingRoots,
           NEW e2, e2 = ev', NEW n, n = h', NEW ws, ws = var',
           HeapShape(n), VarShape(ws),
           n.fault = "none" => /\ HeapOK(n, PlacesOf(Q))
                               /\ n.rem_set = h.rem_set /\ n.alloc = h.alloc
                               /\ ProgramOK(ws, PlacesOf(Q), n.brk)
                               /\ QueueOK(e2) /\ QueueShape(e2)
    PROVE  GInv'
  <1>1. Good /\ pc # "mutator"
    BY DEF GInv
  <1>2. /\ h.alloc \in heap_start .. heap_end /\ IsFiniteSet(h.rem_set) /\ Apart(PendingRoots)
        /\ request.x \in Var /\ request.size \in RegionSizes
    BY <1>1 DEF Good, Remembered
  <1>3. Remembered' = Q
    BY DEF Remembered, PendingRoots
  <1>4. Apart(Q)
    BY <1>2 DEF Apart
  <1>5. ASSUME n.fault = "none"
        PROVE  Good'
    BY <1>2, <1>3, <1>4, <1>5 DEF Good
  <1> QED
    BY <1>5 DEF GInv

\* A step that is done with the root r.
LEMMA RootGone ==
    ASSUME GInv, Collecting("roots"), NEW P, P = PlacesOf(PendingRoots), NEW r \in ev.queue,
           pc' = "roots", UNCHANGED request,
           ev' = [ev EXCEPT !.queue = @ \ {r}], NEW n, n = h', NEW ws, ws = var',
           HeapShape(n), VarShape(ws),
           \A y \in WritersIn(ws) :
             y \in WritersIn(var) /\ ws[y].wptr = var[y].wptr /\ ws[y].wend = var[y].wend,
           n.fault = "none" =>
             /\ n.rem_set = h.rem_set /\ n.alloc = h.alloc /\ n.brk = h.brk
             /\ HeapOK(n, PlacesOf(PendingRoots \ {r}))
    PROVE  GInv' /\ Less(CollectionWork', CollectionWork)
  <1>1. RootsState(P) /\ PendingRoots = {s \in ev.queue : s.prov = "RemSet"} /\ pc = "roots"
    BY RootsIs
  <1>2. PICK e2, q : e2 = ev' /\ q = ev.queue \ {r}
    OBVIOUS
  <1>3. e2 = [queue |-> q, fwd_env |-> ev.fwd_env, so_env |-> ev.so_env]
    BY <1>1, <1>2 DEF RootsState, QueueShape
  <1>4. QueueShape(e2) /\ QueueOK(e2) /\ e2.queue = q
    <2>1. IsFiniteSet(q)
      BY <1>1, <1>2, FS_Subset DEF RootsState, QueueOK
    <2> QED
      BY <1>1, <1>2, <1>3, <2>1 DEF RootsState, QueueOK, QueueShape
  <1>5. PICK Q : Q = {s \in ev'.queue : s.prov = "RemSet"}
    OBVIOUS
  <1>6. Q = PendingRoots \ {r} /\ Q \subseteq PendingRoots /\ PlacesOf(Q) \subseteq P
    BY <1>1, <1>2, <1>4, <1>5 DEF PlacesOf
  <1>7. ASSUME n.fault = "none"
        PROVE  ProgramOK(ws, PlacesOf(Q), n.brk)
    <2>1. h.brk \in Nat /\ n.brk \in Nat /\ h.brk <= n.brk /\ ProgramOK(var, P, h.brk)
      BY <1>1, <1>7 DEF RootsState
    <2>2. PICK R, b, b2, vs : R = PlacesOf(Q) /\ b = h.brk /\ b2 = n.brk /\ vs = var
      OBVIOUS
    <2>3. /\ b \in Nat /\ b2 \in Nat /\ b <= b2 /\ ProgramOK(vs, P, b) /\ R \subseteq P
          /\ \A y \in WritersIn(ws) :
               y \in WritersIn(vs) /\ ws[y].wptr = vs[y].wptr /\ ws[y].wend = vs[y].wend
      BY <1>6, <2>1, <2>2
    <2>4. ProgramOK(ws, R, b2)
      BY <2>3, ProgramStays
    <2> QED
      BY <2>2, <2>4
  <1>8. GInv'
    <2>1. n.fault = "none" => HeapOK(n, PlacesOf(Q))
      BY <1>6
    <2>2. h.fault = "none"
      BY <1>1 DEF RootsState
    <2> QED
      BY <1>1, <1>2, <1>4, <1>5, <1>6, <1>7, <2>1, <2>2, RootsInv
  <1>9. Less(CollectionWork', CollectionWork)
    <2>1. PICK U : U = Unrestored'
      OBVIOUS
    <2>2. U \subseteq Unrestored
      BY <2>1 DEF Unrestored, Writers, WritersIn
    <2>3. q = ev'.queue /\ q \subseteq ev.queue /\ q # ev.queue
      BY <1>2, <1>4
    <2>4. h.fault = "none" /\ pc # "mutator"
      BY <1>1 DEF RootsState
    <2> QED
      BY <2>1, <2>2, <2>3, <2>4, WorkRoots
  <1> QED
    BY <1>8, <1>9

\* A root outside the nursery is left alone (evacuate_roots).
LEMMA SkipOldRootInv ==
    ASSUME GInv, SkipOldRoot
    PROVE  GInv' /\ Less(CollectionWork', CollectionWork)
  <1>1. PICK P : P = PlacesOf(PendingRoots)
    OBVIOUS
  <1>2. PICK r \in ev.queue : /\ r.prov = "Stk" /\ h' = Skipped(r)
                              /\ ev' = [ev EXCEPT !.queue = @ \ {r}]
    BY DEF SkipOldRoot
  <1>3. Collecting("roots") /\ pc' = "roots" /\ UNCHANGED <<request, var>>
    BY DEF SkipOldRoot, Collecting
  <1>4. RootsState(P) /\ PendingRoots = {s \in ev.queue : s.prov = "RemSet"}
    BY <1>1, <1>3, RootsIs
  <1>5. PICK n, vs : n = h' /\ vs = var /\ vs = var'
    BY <1>3
  <1>6. SameMemory(h, n)
    <2>1. HeapShape(h)
      BY <1>4 DEF RootsState
    <2>2. CASE IsFooter(h, r.endptr)
      BY <1>2, <1>5, <2>1, <2>2, MetadataSame DEF Skipped
    <2>3. CASE ~IsFooter(h, r.endptr)
      BY <1>2, <1>5, <2>1, <2>3, FailSame DEF Skipped
    <2> QED
      BY <2>2, <2>3
  <1>7. HeapShape(n) /\ n.rem_set = h.rem_set /\ n.alloc = h.alloc /\ n.brk = h.brk
    BY <1>6 DEF SameMemory
  <1>8. PendingRoots \ {r} = PendingRoots
    BY <1>2, <1>4
  <1>9. HeapOK(n, PlacesOf(PendingRoots \ {r}))
    <2>1. HeapOK(n, P)
      BY <1>4, <1>6, SameLater DEF LaterOld, Later, RootsState
    <2> QED
      BY <1>1, <1>8, <2>1
  <1>10. VarShape(vs)
    BY <1>4, <1>5 DEF RootsState
  <1> QED
    BY <1>1, <1>2, <1>3, <1>5, <1>7, <1>9, <1>10, RootGone

\* A remembered pointer to what has been copied is redirected (evacuate_copied).
LEMMA EvacuateCopiedInv ==
    ASSUME GInv, evacuate_copied
    PROVE  GInv' /\ Less(CollectionWork', CollectionWork)
  <1>1. PICK P : P = PlacesOf(PendingRoots)
    OBVIOUS
  <1>2. PICK r \in ev.queue :
          /\ r.prov = "RemSet" \/ contains_addr(r.ptr)
          /\ ev' = [ev EXCEPT !.queue = @ \ {r}]
          /\ LET fwd == find_forwarding_pointer(SrcOf(r))
             IN IF fwd.fault # "none" THEN h' = Fail(h, fwd.fault) /\ UNCHANGED var
                ELSE IF r.prov = "Stk"
                THEN /\ var' = [var EXCEPT ![r.x].ptr = fwd.to, ![r.x].endptr = fwd.footer]
                     /\ UNCHANGED h
                ELSE /\ h' = add_old_to_old_indirection(
                               Store(h, r.ptr - 1, PtrCell("INDIRECTION", fwd.to, 0)),
                               r.endptr, fwd.footer)
                     /\ UNCHANGED var
    BY DEF evacuate_copied
  <1>3. Collecting("roots") /\ pc' = "roots" /\ UNCHANGED request
    BY DEF evacuate_copied, Collecting
  <1>4. RootsState(P) /\ PendingRoots = {s \in ev.queue : s.prov = "RemSet"}
    BY <1>1, <1>3, RootsIs
  <1>5. HeapShape(h) /\ HeapOK(h, P) /\ MemOK(h.mem, P, h.brk) /\ QueueOK(ev) /\ VarShape(var)
        /\ h.fault = "none" /\ Apart(PendingRoots)
    BY <1>4 DEF RootsState
  <1>6. PICK a, fwd, n, ws : a = SrcOf(r) /\ fwd = find_forwarding_pointer(a) /\ n = h' /\ ws = var'
    OBVIOUS
  <1>7. CASE fwd.fault # "none"
    <2>1. n = Fail(h, fwd.fault) /\ ws = var
      BY <1>2, <1>6, <1>7
    <2>2. HeapShape(n) /\ n.fault # "none"
      BY <1>5, <1>7, <2>1, FailSame DEF SameMemory
    <2> QED
      BY <1>1, <1>2, <1>3, <1>5, <1>6, <2>1, <2>2, RootGone
  <1>8. CASE fwd.fault = "none" /\ r.prov = "Stk"
    <2>1. PICK x, d, e : x = r.x /\ d = fwd.to /\ e = fwd.footer
      OBVIOUS
    <2>2. ReaderAt(var, x, d, e, ws) /\ n = h
      BY <1>2, <1>6, <1>8, <2>1 DEF ReaderAt
    <2>3. VarShape(ws) /\ WritersIn(ws) = WritersIn(var)
          /\ \A y \in Var : ws[y].wptr = var[y].wptr /\ ws[y].wend = var[y].wend
      BY <1>5, <2>2, ReaderSet
    <2>4. \A y \in WritersIn(ws) :
            y \in WritersIn(var) /\ ws[y].wptr = var[y].wptr /\ ws[y].wend = var[y].wend
      BY <2>3 DEF WritersIn
    <2>5. HeapOK(n, PlacesOf(PendingRoots \ {r}))
      <3>1. PendingRoots \ {r} = PendingRoots
        BY <1>4, <1>8
      <3> QED
        BY <1>1, <1>5, <2>2, <3>1
    <2> QED
      BY <1>1, <1>2, <1>3, <1>5, <1>6, <2>2, <2>3, <2>4, <2>5, RootGone
  <1>9. CASE fwd.fault = "none" /\ r.prov # "Stk"
    <2>1. r \in PendingRoots /\ r.prov = "RemSet"
      BY <1>4, <1>5, <1>9 DEF QueueOK
    <2>2. a \in Int
      <3>1. PICK p : p = r.ptr - 1
        OBVIOUS
      <3>2. p \in P
        BY <1>1, <2>1, <3>1 DEF PlacesOf
      <3>3. contains_addr(h.mem[p].to)
        BY <1>5, <3>2 DEF MemOK, RememberedOK, YoungPointer
      <3> QED
        BY <1>6, <2>1, <3>1, <3>3 DEF SrcOf, contains_addr
    <2>3. PICK to, offset, k, from, footer :
            /\ to = fwd.to /\ offset = 0 /\ k = Store(h, r.ptr - 1, PtrCell("INDIRECTION", to, offset))
            /\ from = r.endptr /\ footer = fwd.footer
      OBVIOUS
    <2>4. n = add_old_to_old_indirection(k, from, footer) /\ ws = var
      BY <1>2, <1>6, <1>9, <2>3
    <2>5. to \in Int /\ to < heap_start
      BY <1>5, <1>6, <1>9, <2>2, <2>3, FindForwarding
    <2>6. PICK R : R = PendingRoots
      OBVIOUS
    <2>7. /\ HeapOK(k, PlacesOf(R \ {r})) /\ k.rem_set = h.rem_set /\ k.alloc = h.alloc
          /\ k.fault = "none" /\ k.brk = h.brk
      <3>1. PICK g, cell : g = h /\ cell = PtrCell("INDIRECTION", to, offset)
        OBVIOUS
      <3>2. HeapOK(g, PlacesOf(R)) /\ Apart(R) /\ g.fault = "none" /\ r \in R
        BY <1>1, <1>5, <2>1, <2>6, <3>1
      <3>3. PICK p : p = r.ptr - 1
        OBVIOUS
      <3>4. Forgot(g, R, r, k)
        <4>1. k = Store(g, p, PtrCell("INDIRECTION", to, offset))
          BY <2>3, <3>1, <3>3
        <4>2. p \in PlacesOf({r})
          BY <3>3 DEF PlacesOf
        <4> QED
          BY <2>5, <3>2, <4>1, <4>2, ForgetOK
      <3> QED
        BY <3>1, <3>4 DEF Forgot
    <2>8. SameMemory(k, n)
      BY <2>4, <2>7, MetadataSame DEF HeapOK
    <2>9. HeapOK(n, PlacesOf(R \ {r}))
      BY <2>7, <2>8, SameLater DEF LaterOld, Later
    <2>10. HeapShape(n) /\ n.rem_set = h.rem_set /\ n.alloc = h.alloc /\ n.brk = h.brk
      BY <2>7, <2>8 DEF SameMemory
    <2> QED
      BY <1>1, <1>2, <1>3, <1>5, <1>6, <2>4, <2>6, <2>9, <2>10, RootGone
  <1> QED
    BY <1>7, <1>8, <1>9

\* A root gets a fresh chunk, above all that was there before (evacuate_roots).
LEMMA StartRootInv ==
    ASSUME GInv, StartRoot
    PROVE  GInv' /\ Less(CollectionWork', CollectionWork)
  <1>1. PICK P : P = PlacesOf(PendingRoots)
    OBVIOUS
  <1>2. PICK r, c, src :
          /\ r \in ev.queue
          /\ r.prov = "RemSet" \/ contains_addr(r.ptr)
          /\ src = SrcOf(r)
          /\ c = root_first_chunk(src, SrcEndOf(r), IF r.prov = "RemSet" THEN 1 ELSE 0)
          /\ h' = c.h
          /\ ev' = [queue |-> ev.queue \ {r}, fwd_env |-> ev.fwd_env, so_env |-> ev.so_env,
                    root |-> r, orig_src |-> src, orig_dst |-> c.dst,
                    orig_dst_end |-> c.dst_end, loc0 |-> c.loc0,
                    src |-> src, dst |-> c.dst, dst_end |-> c.dst_end,
                    inlining_underway |-> FALSE, inlining_underway_upto |-> 0,
                    burn |-> TRUE, forwarded |-> FALSE, worklist |-> <<ProcessTy>>]
    BY DEF StartRoot
  <1>3. Collecting("roots") /\ pc' = "evacuate_packed" /\ UNCHANGED <<var, request>>
    BY DEF StartRoot
  <1>4. RootsState(P) /\ PendingRoots = {s \in ev.queue : s.prov = "RemSet"} /\ pc = "roots"
    BY <1>1, <1>3, RootsIs
  <1>5. /\ h.fault = "none" /\ HeapShape(h) /\ HeapOK(h, P) /\ MemOK(h.mem, P, h.brk)
        /\ BrkOK(h.brk) /\ h.brk \in Nat
        /\ h.alloc \in heap_start .. heap_end /\ IsFiniteSet(h.rem_set) /\ Apart(PendingRoots)
        /\ VarShape(var) /\ ProgramOK(var, P, h.brk)
        /\ QueueOK(ev)
        /\ request.x \in Var /\ request.size \in RegionSizes
        /\ \A p \in P : p \in Nat /\ p + PtrBytes <= h.brk
    BY <1>4 DEF RootsState
  <1>6. PICK src_end, refcount : /\ src_end = SrcEndOf(r)
                                 /\ refcount = (IF r.prov = "RemSet" THEN 1 ELSE 0)
    OBVIOUS
  <1>7. /\ LaterOld(h, c.h, P)
        /\ c.h.fault = "none" => /\ c.dst = h.brk /\ c.dst \in Nat /\ c.dst + PtrBytes <= c.h.brk
                                 /\ c.dst_end \in Int /\ c.dst <= c.dst_end /\ c.dst_end + FooterBytes <= c.h.brk
    <2>1. c = root_first_chunk(src, src_end, refcount)
      BY <1>2, <1>6
    <2> QED
      BY <1>5, <2>1, RootChunkLater
  <1>8. src \in Src
    <2>1. CASE r.prov = "RemSet"
      <3>1. PICK p : p = r.ptr - 1
        OBVIOUS
      <3>2. p \in P
        BY <1>1, <1>2, <1>4, <2>1, <3>1 DEF PlacesOf
      <3>3. contains_addr(h.mem[p].to)
        BY <1>5, <3>2 DEF MemOK, RememberedOK, YoungPointer
      <3> QED
        BY <1>2, <2>1, <3>1, <3>3, Layout DEF SrcOf, contains_addr, Src
    <2>2. CASE r.prov # "RemSet"
      BY <1>2, <2>2, Layout DEF SrcOf, contains_addr, Src
    <2> QED
      BY <2>1, <2>2
  <1>9. PICK e2, q, n, vs : e2 = ev' /\ q = ev.queue \ {r} /\ n = c.h /\ vs = var /\ vs = var'
    BY <1>3
  <1>10. /\ RootShape(e2) /\ e2.queue = q /\ e2.root = r /\ e2.src = src /\ e2.burn
         /\ e2.orig_dst = c.dst /\ e2.dst = c.dst /\ e2.dst_end = c.dst_end
         /\ e2.worklist = <<ProcessTy>> /\ e2.fwd_env = ev.fwd_env /\ e2.so_env = ev.so_env
    BY <1>2, <1>9 DEF RootShape
  <1>11. QueueOK(e2)
    <2>1. IsFiniteSet(q)
      BY <1>5, <1>9, FS_Subset DEF QueueOK
    <2> QED
      BY <1>5, <1>9, <1>10, <2>1 DEF QueueOK
  <1>12. Remembered' = PendingRoots
    <2>1. q \cup {r} = ev.queue
      BY <1>2, <1>9
    <2> QED
      BY <1>3, <1>4, <1>9, <1>10, <2>1 DEF Remembered, PendingRoots
  <1>13. /\ Later(h, n, P) /\ HeapOK(n, P) /\ HeapShape(n)
         /\ n.rem_set = h.rem_set /\ n.alloc = h.alloc
    BY <1>7, <1>9 DEF LaterOld, Later, HeapOK
  <1>14. ASSUME n.fault = "none"
         PROVE  Good'
    <2>1. n.brk \in Nat /\ h.brk <= n.brk
      BY <1>13, <1>14 DEF Later, HeapOK, BrkOK
    <2>2. ProgramOK(vs, P, n.brk)
      BY <1>5, <1>9, <2>1, ProgramStays
    <2>3. /\ c.dst = h.brk /\ c.dst \in Nat /\ c.dst + PtrBytes <= n.brk
          /\ c.dst_end \in Int /\ c.dst <= c.dst_end /\ c.dst_end + FooterBytes <= n.brk
      BY <1>7, <1>9, <1>14
    <2>4. PlaceOK(c.dst, c.dst_end, c.dst, n.brk)
      BY <2>3 DEF PlaceOK
    <2>5. <<ProcessTy>> \in Seq(Actions(c.dst, n.brk))
      <3>1. PICK A : A = Actions(c.dst, n.brk)
        OBVIOUS
      <3>2. ProcessTy \in A
        BY <3>1 DEF Actions
      <3> QED
        BY <3>1, <3>2
    <2>6. ASSUME NEW x \in OldWritersIn(vs)
          PROVE  Top(vs[x]) <= c.dst
      <3>1. WriterOK(vs[x], h.brk) /\ ~contains_addr(vs[x].wptr)
        BY <1>5, <1>9 DEF ProgramOK, OldWritersIn
      <3> QED
        BY <2>3, <3>1 DEF WriterOK
    <2>7. RootOK(e2, P, vs, n.brk)
      <3>1. r \notin q /\ r.prov \in {"Stk", "RemSet"}
        BY <1>2, <1>5, <1>9 DEF QueueOK
      <3>2. OldBase <= c.dst /\ Above(P, c.dst)
        BY <1>5, <2>3 DEF BrkOK, Above
      <3>3. c.dst <= n.brk /\ c.dst <= c.dst
        BY <1>5, <2>1, <2>3
      <3> QED
        BY <1>8, <1>10, <2>3, <2>4, <2>5, <2>6, <3>1, <3>2, <3>3 DEF RootOK
    <2> QED
      BY <1>1, <1>2, <1>3, <1>5, <1>9, <1>10, <1>11, <1>12, <1>13, <2>2, <2>7 DEF Good
  <1>15. GInv'
    BY <1>2, <1>3, <1>5, <1>9, <1>13, <1>14 DEF GInv
  <1>16. Less(CollectionWork', CollectionWork)
    <2>1. PICK U : U = Unrestored'
      OBVIOUS
    <2>2. U \subseteq Unrestored
      BY <1>9, <2>1 DEF Unrestored, Writers
    <2>3. q = ev'.queue /\ q \subseteq ev.queue /\ q # ev.queue
      BY <1>2, <1>9, <1>10
    <2>4. pc # "mutator"
      BY <1>4
    <2> QED
      BY <1>5, <2>1, <2>2, <2>3, <2>4, WorkRoots
  <1> QED
    BY <1>15, <1>16

\* What FinishRoot writes to the root.
FinishedHeap(r) ==
    IF r.prov = "Stk" THEN h
    ELSE add_to_outset(Store(h, r.ptr - 1, PtrCell("INDIRECTION", ev.orig_dst,
                                                   ev.orig_dst_end - ev.orig_dst)),
                       r.endptr, ev.orig_dst_end)
\* What is written to the root when its copy is done makes its place one to forget.
LEMMA RootFinished ==
    ASSUME NEW P, P = PlacesOf(PendingRoots), EvacState(P), pc = "evacuate_packed",
           NEW r, r = ev.root, NEW n, n = FinishedHeap(r)
    PROVE  /\ HeapShape(n) /\ HeapOK(n, PlacesOf(PendingRoots \ {r}))
           /\ n.rem_set = h.rem_set /\ n.alloc = h.alloc /\ n.brk = h.brk
           /\ IntactIn(n.mem) \subseteq IntactIn(h.mem)
  <1>1. PICK R : R = PendingRoots
    OBVIOUS
  <1>2. HeapShape(h) /\ HeapOK(h, PlacesOf(R)) /\ h.fault = "none" /\ Apart(R)
        /\ BrkOK(h.brk) /\ RootOK(ev, P, var, h.brk)
    BY <1>1 DEF EvacState
  <1>3. R = {s \in ev.queue \cup {r} : s.prov = "RemSet"} /\ r.prov \in {"Stk", "RemSet"}
    BY <1>1, <1>2 DEF PendingRoots, RootOK
  <1>4. CASE r.prov = "Stk"
    <2>1. R \ {r} = R
      BY <1>3, <1>4
    <2>2. n = h
      BY <1>4 DEF FinishedHeap
    <2> QED
      BY <1>1, <1>2, <2>1, <2>2
  <1>5. CASE r.prov = "RemSet"
    <2>1. r \in R
      BY <1>3, <1>5
    <2>2. PICK p, to, offset : p = r.ptr - 1 /\ to = ev.orig_dst /\ offset = ev.orig_dst_end - ev.orig_dst
      OBVIOUS
    <2>3. PICK k : k = Store(h, p, PtrCell("INDIRECTION", to, offset))
      OBVIOUS
    <2>4. PICK from, footer : from = r.endptr /\ footer = ev.orig_dst_end
      OBVIOUS
    <2>5. n = add_to_outset(k, from, footer)
      BY <1>5, <2>2, <2>3, <2>4 DEF FinishedHeap
    <2>6. to \in Int /\ to < heap_start
      BY <1>2, <2>2, Layout DEF RootOK, BrkOK
    <2>7. Forgot(h, R, r, k)
      <3>1. PICK g : g = h
        OBVIOUS
      <3>2. p \in PlacesOf({r})
        BY <2>2 DEF PlacesOf
      <3>3. k = Store(g, p, PtrCell("INDIRECTION", to, offset))
        BY <2>3, <3>1
      <3>4. HeapOK(g, PlacesOf(R)) /\ g.fault = "none" /\ Apart(R)
        BY <1>2, <3>1
      <3>5. Forgot(g, R, r, k)
        BY <2>1, <2>6, <3>2, <3>3, <3>4, ForgetOK
      <3> QED
        BY <3>1, <3>5
    <2>8. SameMemory(k, n)
      BY <2>5, <2>7, MetadataSame DEF Forgot, HeapOK
    <2>9. PICK Q : Q = PlacesOf(R \ {r})
      OBVIOUS
    <2>10. HeapOK(k, Q)
      BY <2>7, <2>9 DEF Forgot
    <2>11. HeapOK(n, Q)
      BY <2>8, <2>10, SameLater DEF LaterOld, Later
    <2> QED
      BY <1>1, <2>7, <2>8, <2>9, <2>11 DEF Forgot, SameMemory
  <1> QED
    BY <1>3, <1>4, <1>5

\* ... and behind the source.
LEMMA SourceMarked ==
    ASSUME NEW g, NEW Q, HeapOK(g, Q), NEW src \in Src, NEW to \in Int, to < heap_start, NEW e,
           NEW n, n = g \/ (src = 0 /\ n = Fail(g, "wild")) \/ (src # 0 /\ n = ForwardAt(g, src, to, e))
    PROVE  LaterOld(g, n, Q)
  <1>1. CASE n = g
    BY <1>1, LaterRefl
  <1>2. CASE n = Fail(g, "wild")
    <2>1. SameMemory(g, n)
      BY <1>2, FailSame DEF HeapOK
    <2> QED
      BY <2>1, SameLater
  <1>3. CASE src # 0 /\ n = ForwardAt(g, src, to, e)
    <2>1. PICK offset : offset = e - to
      OBVIOUS
    <2>2. n = Store(g, src, PtrCell("COPIED_TO", to, offset))
      BY <1>3, <2>1 DEF ForwardAt
    <2>3. src \in Int /\ heap_start <= src
      BY <1>3 DEF Src
    <2> QED
      BY <2>2, <2>3, ForwardLater
  <1> QED
    BY <1>1, <1>2, <1>3

\* The end of evacuate_packed: the root leads to the copy.
LEMMA FinishRootInv ==
    ASSUME GInv, FinishRoot
    PROVE  GInv' /\ (h'.fault = "none" => Less(CollectionWork', CollectionWork))
  <1>1. PICK P : P = PlacesOf(PendingRoots)
    OBVIOUS
  <1>2. /\ Collecting("evacuate_packed") /\ pc = "evacuate_packed" /\ pc' = "roots"
        /\ UNCHANGED request /\ ev.worklist = <<>>
    BY DEF FinishRoot, Collecting
  <1>3. EvacState(P)
    BY <1>1, <1>2, EvacIs
  <1>4. /\ h.fault = "none" /\ HeapShape(h) /\ HeapOK(h, P) /\ BrkOK(h.brk) /\ h.brk \in Nat
        /\ VarShape(var) /\ ProgramOK(var, P, h.brk)
        /\ QueueOK(ev) /\ RootShape(ev) /\ RootOK(ev, P, var, h.brk)
    BY <1>3 DEF EvacState
  <1>5. PICK r, g, n, ws, e2 : /\ r = ev.root /\ g = FinishedHeap(r) /\ n = h' /\ ws = var'
                               /\ e2 = ev'
    OBVIOUS
  <1>6. PICK Q : Q = PendingRoots \ {r}
    OBVIOUS
  <1>7. /\ HeapShape(g) /\ HeapOK(g, PlacesOf(Q))
        /\ g.rem_set = h.rem_set /\ g.alloc = h.alloc /\ g.brk = h.brk
        /\ IntactIn(g.mem) \subseteq IntactIn(h.mem)
    BY <1>1, <1>2, <1>3, <1>5, <1>6, RootFinished
  <1>8. PICK src, to, e : src = ev.src /\ to = ev.dst /\ e = ev.dst_end
    OBVIOUS
  <1>9. src \in Src /\ to \in Int /\ to < heap_start
    BY <1>4, <1>8, Layout DEF RootOK, BrkOK
  <1>10. LaterOld(g, n, PlacesOf(Q))
    <2>1. n = g \/ (src = 0 /\ n = Fail(g, "wild")) \/ (src # 0 /\ n = ForwardAt(g, src, to, e))
      <3>1. h' = IF ~(MustForward(r) /\ ev.loc0) THEN g
                 ELSE IF ev.src = 0 THEN Fail(g, "wild")
                 ELSE ForwardAt(g, ev.src, ev.dst, ev.dst_end)
        BY <1>5, Zenon DEF FinishRoot, FinishedHeap
      <3> QED
        BY <1>5, <1>8, <3>1
    <2>2. PICK R : R = PlacesOf(Q)
      OBVIOUS
    <2>3. LaterOld(g, n, R)
      BY <1>7, <1>9, <2>1, <2>2, SourceMarked
    <2> QED
      BY <2>2, <2>3
  <1>11. /\ HeapOK(n, PlacesOf(Q)) /\ HeapShape(n) /\ n.rem_set = h.rem_set /\ n.alloc = h.alloc
         /\ n.fault = "none" => n.brk \in Nat /\ h.brk <= n.brk
                                /\ IntactIn(n.mem) \subseteq IntactIn(h.mem)
    BY <1>7, <1>10 DEF LaterOld, Later, NoneNew, HeapOK, BrkOK
  <1>12. /\ VarShape(ws)
         /\ \A y \in WritersIn(ws) :
              y \in WritersIn(var) /\ ws[y].wptr = var[y].wptr /\ ws[y].wend = var[y].wend
    <2>1. CASE r.prov = "Stk"
      <3>1. PICK x, a, b : x = r.x /\ a = ev.orig_dst /\ b = ev.orig_dst_end
        OBVIOUS
      <3>2. ReaderAt(var, x, a, b, ws)
        BY <1>5, <2>1, <3>1 DEF FinishRoot, ReaderAt
      <3>3. VarShape(ws) /\ WritersIn(ws) = WritersIn(var)
            /\ \A y \in Var : ws[y].wptr = var[y].wptr /\ ws[y].wend = var[y].wend
        BY <1>4, <3>2, ReaderSet
      <3> QED
        BY <3>3 DEF WritersIn
    <2>2. CASE r.prov # "Stk"
      <3>1. ws = var
        BY <1>5, <2>2 DEF FinishRoot
      <3> QED
        BY <1>4, <3>1
    <2> QED
      BY <2>1, <2>2
  <1>13. PICK so, fwd, q :
           /\ so = (IF ev.burn THEN Extend(ev.so_env, ev.orig_src, ev.src) ELSE ev.so_env)
           /\ fwd = (IF MustForward(r) /\ ~ev.loc0
                     THEN Extend(ev.fwd_env, ev.src, Forwarding(ev.dst, ev.dst_end)) ELSE ev.fwd_env)
           /\ q = ev.queue
    OBVIOUS
  <1>14. e2 = [queue |-> q, so_env |-> so, fwd_env |-> fwd]
    BY <1>5, <1>13 DEF FinishRoot
  <1>15. QueueShape(e2) /\ e2.queue = q
    BY <1>14 DEF QueueShape
  <1>16. QueueOK(e2)
    <2>1. \A k \in DOMAIN so : so[k] \in Src
      BY <1>4, <1>8, <1>9, <1>13, ExtendIn DEF QueueOK
    <2>2. \A k \in DOMAIN fwd : fwd[k].to \in Int /\ fwd[k].to < heap_start
      <3>1. PICK v : v = Forwarding(ev.dst, ev.dst_end)
        OBVIOUS
      <3>2. v.to \in Int /\ v.to < heap_start
        BY <1>8, <1>9, <3>1 DEF Forwarding
      <3>3. fwd = (IF MustForward(r) /\ ~ev.loc0 THEN Extend(ev.fwd_env, ev.src, v) ELSE ev.fwd_env)
        BY <1>13, <3>1
      <3>4. \A k \in DOMAIN ev.fwd_env : ev.fwd_env[k].to \in Int /\ ev.fwd_env[k].to < heap_start
        BY <1>4 DEF QueueOK
      <3>5. CASE fwd = ev.fwd_env
        BY <3>4, <3>5
      <3>6. CASE fwd = Extend(ev.fwd_env, ev.src, v)
        BY <3>2, <3>4, <3>6 DEF Extend
      <3> QED
        BY <3>3, <3>5, <3>6
    <2> QED
      BY <1>4, <1>13, <1>14, <2>1, <2>2 DEF QueueOK
  <1>17. Q = {s \in ev'.queue : s.prov = "RemSet"} /\ Q \subseteq PendingRoots
    <2>1. r \notin ev.queue
      BY <1>4, <1>5 DEF RootOK
    <2>2. PendingRoots = {s \in ev.queue \cup {r} : s.prov = "RemSet"}
      BY <1>2, <1>5 DEF PendingRoots
    <2> QED
      BY <1>5, <1>6, <1>13, <1>15, <2>1, <2>2
  <1>18. n.fault = "none" => ProgramOK(ws, PlacesOf(Q), n.brk)
    <2>1. PICK R : R = PlacesOf(Q)
      OBVIOUS
    <2>2. R \subseteq P
      BY <1>1, <1>17, <2>1 DEF PlacesOf
    <2> QED
      BY <1>4, <1>11, <1>12, <2>1, <2>2, ProgramStays
  <1>19. GInv'
    BY <1>2, <1>4, <1>5, <1>11, <1>12, <1>15, <1>16, <1>17, <1>18, RootsInv
  <1>20. ASSUME n.fault = "none"
         PROVE  Less(CollectionWork', CollectionWork)
    <2>1. PICK U, I : U = Unrestored' /\ I = Intact'
      OBVIOUS
    <2>2. q = ev'.queue /\ q = ev.queue
      BY <1>5, <1>13, <1>15
    <2>3. U \subseteq Unrestored
      BY <1>5, <1>12, <2>1 DEF Unrestored, Writers, WritersIn
    <2>4. I = IntactIn(n.mem)
      BY <1>5, <2>1 DEF Intact, IntactIn, Burned, Burnt, Tag
    <2>5. I \subseteq Intact
      BY <1>11, <1>20, <2>4, IntactIs
    <2>6. PICK a, b : /\ a = (IF pc' = "evacuate_packed" THEN 1 + Len(ev'.worklist) ELSE 0)
                      /\ b = (IF pc = "evacuate_packed" THEN 1 + Len(ev.worklist) ELSE 0)
      OBVIOUS
    <2>7. Len(ev.worklist) = 0
      BY <1>2
    <2>8. a < b
      BY <1>2, <2>6, <2>7
    <2>9. pc # "mutator"
      BY <1>2
    <2> QED
      BY <1>4, <2>1, <2>2, <2>3, <2>5, <2>6, <2>8, <2>9, WorkPacked
  <1> QED
    BY <1>5, <1>19, <1>20

\* A write cursor whose value was not copied gets a fresh region (restore_writers).
LEMMA RestoreWriterInv ==
    ASSUME GInv, NEW x, RestoreWriter(x)
    PROVE  GInv' /\ Less(CollectionWork', CollectionWork)
  <1>1. PICK P : P = PlacesOf(PendingRoots)
    OBVIOUS
  <1>2. /\ Collecting("roots") /\ pc' = "roots" /\ UNCHANGED <<ev, request>> /\ ev.queue = {}
        /\ x \in Writers /\ contains_addr(var[x].wptr) /\ pc = "roots"
    BY DEF RestoreWriter, Collecting
  <1>3. RootsState(P) /\ PendingRoots = {r \in ev.queue : r.prov = "RemSet"}
    BY <1>1, <1>2, RootsIs
  <1>4. /\ h.fault = "none" /\ HeapOK(h, P) /\ BrkOK(h.brk) /\ h.brk \in Nat
        /\ VarShape(var) /\ ProgramOK(var, P, h.brk)
        /\ QueueOK(ev) /\ QueueShape(ev)
        /\ \A p \in P : p \in Nat /\ p + PtrBytes <= h.brk
    BY <1>3 DEF RootsState
  <1>5. PICK refcount : refcount = 0
    OBVIOUS
  <1>6. PICK c : c = FreshRegion(h, CHUNK_SIZE, refcount)
    OBVIOUS
  <1>7. PICK n, ws, e2, d, e : /\ n = h' /\ ws = var' /\ e2 = ev /\ e2 = ev'
                               /\ d = c.dst /\ e = c.dst_end
    BY <1>2
  <1>8. n = c.h /\ CursorAt(var, x, d, e, ws)
    BY <1>5, <1>6, <1>7 DEF RestoreWriter, CursorAt
  <1>9. GoodSize(CHUNK_SIZE) /\ CHUNK_SIZE \in Nat
    BY SizesFit, Layout
  <1>10. PICK size : size = CHUNK_SIZE
    OBVIOUS
  <1>11. /\ LaterOld(h, c.h, P) /\ c.dst = h.brk
         /\ c.h.fault = "none" => NewChunk(h, c, size)
    BY <1>4, <1>6, <1>9, <1>10, FreshRegionLater
  <1>12. /\ HeapOK(n, P) /\ HeapShape(n) /\ n.rem_set = h.rem_set /\ n.alloc = h.alloc /\ d = h.brk
         /\ n.fault = "none" => /\ n.brk \in Nat /\ h.brk <= n.brk
                                /\ e \in Int /\ e + FooterBytes <= n.brk /\ d + size <= n.brk
    <2>1. HeapOK(n, P) /\ HeapShape(n) /\ n.rem_set = h.rem_set /\ n.alloc = h.alloc /\ d = h.brk
          /\ (n.fault = "none" => n.brk \in Nat /\ h.brk <= n.brk)
      BY <1>7, <1>8, <1>11 DEF LaterOld, Later, HeapOK, BrkOK
    <2>2. n.fault = "none" => e = d + size - FooterBytes /\ e + FooterBytes <= n.brk
      BY <1>7, <1>8, <1>11 DEF NewChunk
    <2> QED
      BY <1>4, <1>9, <1>10, <2>1, <2>2 DEF FooterBytes
  <1>13. /\ VarShape(ws) /\ WritersIn(ws) = WritersIn(var)
         /\ x \in Var => ws[x].wptr = d /\ ws[x].wend = e
         /\ \A y \in Var \ {x} : ws[y] = var[y]
    BY <1>4, <1>8, CursorSet
  <1>14. x \in Var /\ x \in WritersIn(var)
    BY <1>2 DEF Writers, WritersIn
  <1>15. d \in Nat /\ OldBase <= d /\ ~contains_addr(d)
    BY <1>4, <1>12, Layout DEF BrkOK, contains_addr
  <1>16. \A y \in WritersIn(ws) \ {x} :
           y \in WritersIn(var) /\ ws[y].wptr = var[y].wptr /\ ws[y].wend = var[y].wend
    BY <1>13 DEF WritersIn
  <1>17. ASSUME n.fault = "none"
         PROVE  ProgramOK(ws, P, n.brk)
    <2>1. PICK top : top = Top(ws[x])
      OBVIOUS
    <2>2. ws[x].wptr = d /\ ws[x].wend = e
      BY <1>13, <1>14
    <2>3. top <= n.brk
      <3>1. size \in Nat /\ size >= PtrBytes
        BY <1>9, <1>10, SizesFit DEF PtrBytes
      <3>2. d + PtrBytes <= n.brk
        BY <1>12, <1>15, <1>17, <3>1 DEF PtrBytes
      <3> QED
        BY <1>12, <1>15, <1>17, <2>1, <2>2, <3>2 DEF Top
    <2>4. WriterOK(ws[x], n.brk)
      BY <1>12, <1>15, <1>17, <2>1, <2>2, <2>3 DEF WriterOK
    <2>5. n.brk \in Nat /\ h.brk <= n.brk /\ h.brk <= ws[x].wptr
      BY <1>4, <1>12, <1>17, <2>2
    <2> QED
      BY <1>4, <1>16, <2>4, <2>5, ProgramMoves
  <1>18. GInv'
    <2>1. PICK Q : Q = {r \in ev'.queue : r.prov = "RemSet"}
      OBVIOUS
    <2>2. Q = PendingRoots /\ Q \subseteq PendingRoots /\ PlacesOf(Q) = P
      BY <1>1, <1>2, <1>3, <2>1
    <2> QED
      BY <1>2, <1>4, <1>7, <1>12, <1>13, <1>17, <2>1, <2>2, RootsInv
  <1>19. Less(CollectionWork', CollectionWork)
    <2>1. PICK U, Q : U = Unrestored' /\ Q = ev'.queue
      OBVIOUS
    <2>2. x \in Unrestored
      BY <1>2 DEF Unrestored
    <2>3. ASSUME NEW y \in U
          PROVE  y # x /\ y \in Unrestored
      <3>1. y \in WritersIn(ws) /\ contains_addr(ws[y].wptr)
        BY <1>7, <2>1 DEF Unrestored, Writers, WritersIn
      <3>2. y # x
        BY <1>13, <1>14, <1>15, <3>1
      <3> QED
        BY <1>16, <3>1, <3>2 DEF Unrestored, Writers, WritersIn
    <2>4. U \subseteq Unrestored /\ U # Unrestored
      BY <2>2, <2>3
    <2>5. Q \subseteq ev.queue /\ pc # "mutator"
      BY <1>2, <2>1
    <2> QED
      BY <1>4, <2>1, <2>4, <2>5, WorkRoots
  <1> QED
    BY <1>18, <1>19

\* The nursery is empty.
LEMMA CollectRegionsSame ==
    ASSUME NEW g, HeapShape(g)
    PROVE  SameMemory(g, collect_regions(g)) /\ collect_regions(g).fault = g.fault
  <1>1. PICK regs, released, old, n :
          n = collect_regions(g)
          /\ n = [g EXCEPT !.regs = regs, !.released = released, !.old_zct = old, !.new_zct = {}]
    BY Zenon DEF collect_regions
  <1>2. /\ HeapShape(n) /\ n.mem = g.mem /\ n.brk = g.brk /\ n.alloc = g.alloc
        /\ n.rem_set = g.rem_set /\ n.fault = g.fault
    BY <1>1 DEF HeapShape
  <1> QED
    BY <1>1, <1>2 DEF SameMemory

\* The end of garbage_collect: regions are freed, the nursery is empty.
LEMMA CollectRegionsInv ==
    ASSUME GInv, CollectRegions
    PROVE  GInv' /\ Less(CollectionWork', CollectionWork)
  <1>1. PICK P : P = PlacesOf(PendingRoots)
    OBVIOUS
  <1>2. /\ Collecting("roots") /\ pc' = "resume" /\ UNCHANGED <<var, ev, request>> /\ ev.queue = {}
        /\ pc = "roots"
    BY DEF CollectRegions, Collecting
  <1>3. RootsState(P) /\ PendingRoots = {r \in ev.queue : r.prov = "RemSet"}
    BY <1>1, <1>2, RootsIs
  <1>4. PendingRoots = {} /\ P = {}
    BY <1>1, <1>2, <1>3 DEF PlacesOf
  <1>5. /\ h.fault = "none" /\ HeapShape(h) /\ MemOK(h.mem, {}, h.brk) /\ BrkOK(h.brk)
        /\ VarShape(var) /\ ProgramOK(var, {}, h.brk)
        /\ QueueOK(ev) /\ QueueShape(ev)
        /\ request.x \in Var /\ request.size \in RegionSizes
    BY <1>3, <1>4 DEF RootsState
  <1>6. PICK m : m = [a \in OldAddresses |-> h.mem[a]]
    OBVIOUS
  <1>7. DOMAIN m \subseteq DOMAIN h.mem /\ \A a \in DOMAIN m : m[a] = h.mem[a] /\ ~contains_addr(a)
    BY <1>6 DEF OldAddresses
  <1>8. MemOK(m, {}, h.brk)
    <2>1. IsFiniteSet(DOMAIN m)
      BY <1>5, <1>7, FS_Subset DEF MemOK
    <2> QED
      BY <1>5, <1>7, <2>1 DEF MemOK, RememberedOK
  <1>9. IntactIn(m) = {}
    BY <1>7 DEF IntactIn
  <1>10. PICK g : g = [h EXCEPT !.rem_set = {}, !.alloc = heap_end, !.mem = m]
    OBVIOUS
  <1>11. /\ HeapShape(g) /\ g.mem = m /\ g.brk = h.brk /\ g.alloc = heap_end /\ g.rem_set = {}
         /\ g.fault = "none"
    BY <1>5, <1>10 DEF HeapShape
  <1>12. PICK n : n = h'
    OBVIOUS
  <1>13. n = collect_regions(g)
    BY <1>6, <1>10, <1>12 DEF CollectRegions
  <1>14. SameMemory(g, n) /\ n.fault = "none"
    BY <1>11, <1>13, CollectRegionsSame
  <1>15. /\ HeapShape(n) /\ n.mem = m /\ n.brk = h.brk /\ n.alloc \in heap_start .. heap_end
         /\ n.rem_set = {}
    BY <1>11, <1>14, Layout DEF SameMemory
  <1>16. HeapOK(n, {})
    BY <1>5, <1>8, <1>14, <1>15 DEF HeapOK
  <1>17. Remembered' = {} /\ PlacesOf({}) = {} /\ Apart({})
    BY <1>2 DEF Remembered, PendingRoots, PlacesOf, Apart
  <1>18. PICK e2, vs : e2 = ev /\ e2 = ev' /\ vs = var /\ vs = var'
    BY <1>2
  <1>19. Good'
    <2>1. IsFiniteSet(n.rem_set)
      BY <1>15, FS_EmptySet
    <2>2. ProgramOK(vs, {}, n.brk) /\ QueueOK(e2) /\ QueueShape(e2) /\ e2.queue = {}
      BY <1>2, <1>5, <1>15, <1>18
    <2> QED
      BY <1>2, <1>5, <1>12, <1>15, <1>16, <1>17, <1>18, <2>1, <2>2 DEF Good
  <1>20. GInv'
    <2>1. VarShape(vs)
      BY <1>5, <1>18
    <2> QED
      BY <1>2, <1>12, <1>15, <1>18, <1>19, <2>1 DEF GInv
  <1>21. Less(CollectionWork', CollectionWork)
    <2>1. PICK Q, U, I : Q = ev'.queue /\ U = Unrestored' /\ I = Intact'
      OBVIOUS
    <2>2. Q = ev.queue
      BY <1>18, <2>1
    <2>3. U \subseteq Unrestored
      BY <1>18, <2>1 DEF Unrestored, Writers
    <2>4. I = IntactIn(n.mem)
      BY <1>12, <2>1 DEF Intact, IntactIn, Burned, Burnt, Tag
    <2>5. I \subseteq Intact
      BY <1>9, <1>15, <2>4
    <2>6. PICK a, b : /\ a = (IF pc' = "evacuate_packed" THEN 1 + Len(ev'.worklist) ELSE 0)
                      /\ b = (IF pc = "evacuate_packed" THEN 1 + Len(ev.worklist) ELSE 0)
      OBVIOUS
    <2>7. a = 0 /\ b = 0
      BY <1>2, <2>6
    <2>8. a <= b /\ pc' = "resume" /\ pc # "resume" /\ pc # "mutator"
      BY <1>2, <2>7
    <2> QED
      BY <1>5, <2>1, <2>2, <2>3, <2>5, <2>6, <2>8, WorkPacked
  <1> QED
    BY <1>20, <1>21

\* The allocation that asked for the collection (gib_alloc_region).
LEMMA ResumeInv ==
    ASSUME GInv, Resume
    PROVE  GInv'
  <1>1. pc = "resume" /\ h.fault = "none" /\ pc' = "mutator"
    BY DEF Resume, Collecting
  <1>2. Good /\ HeapShape(h) /\ VarShape(var)
    BY <1>1 DEF GInv
  <1>3. ev.queue = {} /\ h.rem_set = {} /\ request.x \in Var /\ request.size \in RegionSizes
    BY <1>1, <1>2 DEF Good
  <1>4. Remembered = {} /\ PlacesOf({}) = {}
    BY <1>1, <1>3 DEF Remembered, PendingRoots, PlacesOf
  <1>5. HeapOK(h, {}) /\ h.alloc \in heap_start .. heap_end /\ ProgramOK(var, {}, h.brk)
    BY <1>2, <1>4 DEF Good
  <1>6. MemOK(h.mem, {}, h.brk) /\ BrkOK(h.brk)
    BY <1>1, <1>5 DEF HeapOK
  <1>7. PICK size, x, n, ws : size = request.size /\ x = request.x /\ n = h' /\ ws = var'
    OBVIOUS
  <1>8. PICK a, e : a = h.alloc - size - NurseryFooterBytes /\ e = h.alloc - NurseryFooterBytes
    OBVIOUS
  <1>9. PICK w : w = [ptr |-> 0, endptr |-> 0, wptr |-> a, wend |-> e, todo |-> 1]
    OBVIOUS
  <1>10. Assigned(var, x, w, ws)
    <2>1. ws = OpenRegion(x, a, e)
      BY <1>7, <1>8 DEF Resume
    <2>2. [Unused EXCEPT !.wptr = a, !.wend = e, !.todo = 1] = w
      BY <1>9, OpenRecord
    <2> QED
      BY <2>1, <2>2 DEF OpenRegion, Assigned
  <1>11. VarShape(ws) /\ ws[x] = w /\ \A y \in Var \ {x} : ws[y] = var[y]
    <2>1. RecShape(w)
      BY <1>9 DEF RecShape
    <2>2. Put(var, x, w, ws)
      BY <1>2, <1>10, <2>1, PutShape
    <2> QED
      BY <1>3, <1>7, <2>2 DEF Put
  <1>12. CASE Fits(size)
    <2>1. n = NurseryChunk(size)
      BY <1>7, <1>12 DEF Resume
    <2>2. /\ HeapOK(n, {}) /\ n.fault = "none" /\ n.brk = h.brk /\ n.rem_set = h.rem_set
          /\ n.alloc \in heap_start .. heap_end /\ contains_addr(a) /\ contains_addr(e)
      BY <1>1, <1>3, <1>5, <1>7, <1>8, <1>12, <2>1, NurseryChunkOK
    <2>3. HeapShape(n) /\ PointersOK(n.mem, {})
      BY <2>2, PointersAre DEF HeapOK
    <2>4. ProgramOK(ws, {}, h.brk)
      <3>1. a \in Nat /\ e \in Int
        BY <2>2, Layout DEF contains_addr
      <3>2. WriterOK(ws[x], h.brk) /\ x \notin OldWritersIn(ws)
        BY <1>9, <1>11, <2>2, <3>1 DEF WriterOK, OldWritersIn
      <3>3. \A y \in WritersIn(ws) \ {x} :
              y \in WritersIn(var) /\ ws[y].wptr = var[y].wptr /\ ws[y].wend = var[y].wend
        BY <1>11 DEF WritersIn
      <3>4. h.brk \in Nat /\ h.brk <= h.brk
        BY <1>6 DEF BrkOK
      <3> QED
        BY <1>5, <3>2, <3>3, <3>4, ProgramMoves
    <2>5. Remembered' = {} /\ n.rem_set = {} /\ Apart({}) /\ IsFiniteSet({})
      BY <1>1, <1>3, <1>7, <2>2, FS_EmptySet DEF Remembered, Apart
    <2>6. Good'
      BY <1>1, <1>4, <1>7, <2>2, <2>4, <2>5 DEF Good
    <2> QED
      BY <1>1, <1>4, <1>7, <1>11, <2>3, <2>5, <2>6 DEF GInv
  <1>13. CASE ~Fits(size)
    <2>1. n = Fail(h, "exit: no space")
      BY <1>7, <1>13 DEF Resume
    <2>2. SameMemory(h, n) /\ n.fault # "none"
      BY <1>2, <2>1, FailSame
    <2>3. HeapShape(n) /\ n.mem = h.mem /\ n.rem_set = {}
      BY <1>3, <2>2 DEF SameMemory
    <2>4. PointersOK(n.mem, {})
      BY <1>6, <2>3, PointersAre
    <2> QED
      BY <1>1, <1>4, <1>7, <1>11, <2>2, <2>3, <2>4 DEF GInv
  <1> QED
    BY <1>12, <1>13

-----------------------------------------------------------------------------
(***************************************************************************)
(* Every step.                                                             *)
(***************************************************************************)
Leaves == pc # "mutator" /\ pc' # "mutator" /\ h'.fault = "none"
            => Less(CollectionWork', CollectionWork)

\* Every iteration of evacuate_packed leaves less to do.
LEMMA EvacuateInv ==
    ASSUME GInv, UndoneInPlace, Evacuate
    PROVE  GInv' /\ Leaves
  <1>1. CASE SkipOldRoot
    BY <1>1, SkipOldRootInv DEF Leaves
  <1>2. CASE evacuate_copied
    BY <1>2, EvacuateCopiedInv DEF Leaves
  <1>3. CASE StartRoot
    BY <1>3, StartRootInv DEF Leaves
  <1>4. CASE RestoreSource
    BY <1>4, RestoreSourceInv DEF Leaves
  <1>5. CASE WriteSkipover
    BY <1>5, WriteSkipoverInv DEF Leaves
  <1>6. CASE Uncauterize
    BY <1>6, UncauterizeInv DEF Leaves
  <1>7. CASE PointToCopy
    BY <1>7, PointToCopyInv DEF Leaves
  <1>8. CASE InlineIndirection
    BY <1>8, InlineIndirectionInv DEF Leaves
  <1>9. CASE KeepIndirection
    BY <1>9, KeepIndirectionInv DEF Leaves
  <1>10. CASE AbortInlining
    BY <1>10, AbortInliningInv DEF Leaves
  <1>11. CASE ReconcileRegions
    BY <1>11, ReconcileRegionsInv DEF Leaves
  <1>12. CASE CopyConstructor
    BY <1>12, CopyConstructorInv DEF Leaves
  <1>13. CASE FinishRoot
    BY <1>13, FinishRootInv DEF Leaves
  <1> QED
    BY <1>1, <1>2, <1>3, <1>4, <1>5, <1>6, <1>7, <1>8, <1>9, <1>10, <1>11, <1>12, <1>13 DEF Evacuate

\* A stuttering step changes nothing the invariant is about.
LEMMA StutterInv ==
    ASSUME GInv, UNCHANGED vars
    PROVE  GInv'
  BY DEF vars, GInv, Good, Remembered, PendingRoots

\* Every step keeps the invariant, and a step of a collection leaves less to do.
LEMMA NextInv ==
    ASSUME GInv, UndoneInPlace, Next
    PROVE  GInv' /\ Leaves
  <1>1. ASSUME NEW x \in Var, NEW size \in RegionSizes, AllocFast(x, size)
        PROVE  GInv' /\ Leaves
    <2>1. pc = "mutator"
      BY <1>1 DEF AllocFast, Mutating
    <2> QED
      BY <1>1, <2>1, AllocFastInv DEF Leaves
  <1>2. ASSUME NEW x \in Var, NEW size \in RegionSizes, AllocOnHeap(x, size)
        PROVE  GInv' /\ Leaves
    <2>1. pc = "mutator"
      BY <1>2 DEF AllocOnHeap, Mutating
    <2> QED
      BY <1>2, <2>1, AllocOnHeapInv DEF Leaves
  <1>3. ASSUME NEW x \in Var, NEW size \in RegionSizes, StartCollection(x, size)
        PROVE  GInv' /\ Leaves
    <2>1. pc = "mutator"
      BY <1>3 DEF StartCollection, Mutating
    <2> QED
      BY <1>3, <2>1, StartCollectionInv DEF Leaves
  <1>4. ASSUME NEW x \in Var, NEW con \in Con, NEW b \in BOOLEAN, WriteCon(x, con, b)
        PROVE  GInv' /\ Leaves
    <2>1. pc = "mutator"
      BY <1>4 DEF WriteCon, Mutating
    <2> QED
      BY <1>4, <2>1, WriteConInv DEF Leaves
  <1>5. ASSUME NEW x \in Var, NEW y \in Var, NEW b \in BOOLEAN, WriteIndirection(x, y, b)
        PROVE  GInv' /\ Leaves
    <2>1. pc = "mutator"
      BY <1>5 DEF WriteIndirection, Mutating
    <2> QED
      BY <1>5, <2>1, WriteIndirectionInv DEF Leaves
  <1>6. ASSUME NEW x \in Var, NEW y \in Var, NEW i \in 1 .. Fuel, ReadPart(x, y, i)
        PROVE  GInv' /\ Leaves
    <2>1. pc = "mutator"
      BY <1>6 DEF ReadPart, Mutating
    <2> QED
      BY <1>6, <2>1, ReadPartInv DEF Leaves
  <1>7. ASSUME NEW x \in Var, Drop(x)
        PROVE  GInv' /\ Leaves
    <2>1. pc = "mutator"
      BY <1>7 DEF Drop, Mutating
    <2> QED
      BY <1>7, <2>1, DropInv DEF Leaves
  <1>8. ASSUME NEW x \in Var, RestoreWriter(x)
        PROVE  GInv' /\ Leaves
    BY <1>8, RestoreWriterInv DEF Leaves
  <1>9. CASE Evacuate
    BY <1>9, EvacuateInv
  <1>10. CASE CollectRegions
    BY <1>10, CollectRegionsInv DEF Leaves
  <1>11. CASE Resume
    <2>1. pc' = "mutator"
      BY <1>11 DEF Resume
    <2> QED
      BY <1>11, <2>1, ResumeInv DEF Leaves
  <1> QED
    BY <1>1, <1>2, <1>3, <1>4, <1>5, <1>6, <1>7, <1>8, <1>9, <1>10, <1>11 DEF Next

\* The invariant holds in every reachable state: memory below what malloc has
\* handed out is the old generation's, remembered places, write cursors and the
\* copy that is being made lie apart from each other, and forwarding pointers
\* lead to the old generation (evacuate_packed, gib_indirection_barrier).  The cursor
\* of the copy does not pass the end it is checked against, as long as an inlining that
\* is undone finds room for its indirection.
THEOREM InvariantHolds == Spec /\ []UndoneInPlace => []GInv
  <1>1. Init => GInv
    BY InitInv
  <1>2. GInv /\ UndoneInPlace /\ [Next]_vars => GInv'
    BY NextInv, StutterInv
  <1> QED
    BY <1>1, <1>2, PTL DEF Spec

\* While the program runs, every pointer from the old generation into the nursery
\* is an indirection that the remembered set knows of, whatever was promoted,
\* grown or shared and whatever a collection has left behind
\* (gib_indirection_barrier, gib_grow_region, garbage_collect), as long as an inlining
\* that is undone finds room for its indirection.
THEOREM PointersRemembered == Spec /\ []UndoneInPlace => []YoungPointersRemembered
  <1>1. Spec /\ []UndoneInPlace => []GInv
    BY InvariantHolds
  <1>2. GInv => YoungPointersRemembered
    BY InvRemembered
  <1> QED
    BY <1>1, <1>2, PTL

\* Every step of a collection leaves less of it to do: fewer roots and write
\* cursors, less data that is not burned, or a shorter worklist (evacuate_packed,
\* evacuate_roots, restore_writers).  The condition is that of the invariant.
THEOREM EveryCollectionEnds == Spec /\ []UndoneInPlace => CollectionEnds
  <1>1. Spec /\ []UndoneInPlace => []GInv
    BY InvariantHolds
  <1>2. GInv /\ UndoneInPlace /\ [Next]_vars
          => [pc # "mutator" /\ pc' # "mutator" /\ h'.fault = "none"
                => Less(CollectionWork', CollectionWork)]_vars
    BY NextInv DEF Leaves
  <1> QED
    BY <1>1, <1>2, PTL DEF Spec, CollectionEnds
=============================================================================

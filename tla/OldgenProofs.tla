---------------------------- MODULE OldgenProofs ----------------------------
(***************************************************************************)
(* What the operations on the heap keep.                                   *)
(***************************************************************************)
EXTENDS Oldgen, FiniteSetTheorems, TLAPS

(***************************************************************************)
(* Sizes.                                                                  *)
(***************************************************************************)
LEMMA AlignUpBounds ==
    \A n \in Int : AlignUp(n) \in Int /\ n <= AlignUp(n)
  BY DEF AlignUp, GIB_PTR_ALIGN

\* Tags tell cells apart, so the size of a cell is that of its tag.
LEMMA SizeOfCell ==
    ASSUME NEW c
    PROVE  /\ SizeOf(c) \in Nat \ {0}
           /\ c.tag \in Con => SizeOf(c) = 1 + ScalarBytes[c.tag]
           /\ c.tag \in {"INDIRECTION", "REDIRECTION", "COPIED_TO", "CAUTERIZED"}
                => SizeOf(c) = PtrBytes
           /\ c.tag = "nursery_footer" => SizeOf(c) = NurseryFooterBytes
           /\ c.tag = "footer" => SizeOf(c) = FooterBytes
  <1>1. CASE c.tag \in Con
    <2>1. c.tag \notin {"COPIED", "nursery_footer", "footer", "INDIRECTION", "REDIRECTION",
                        "COPIED_TO", "CAUTERIZED"}
      BY <1>1, TagsApart
    <2>2. SizeOf(c) = 1 + ScalarBytes[c.tag]
      BY <1>1, <2>1 DEF SizeOf
    <2>3. ScalarBytes[c.tag] \in Nat
      BY <1>1, InfoTable
    <2> QED
      BY <2>1, <2>2, <2>3
  <1>2. CASE c.tag \notin Con
    BY <1>2 DEF SizeOf, NurseryFooterBytes, FooterBytes, PtrBytes
  <1> QED
    BY <1>1, <1>2

\* Chunks are made in these sizes; the second has room for what a bounds check
\* asked for.
GoodSize(size) == size \in Nat /\ Enough(size)
Roomy(size) == GoodSize(size) /\ \A c \in Con : RoomFor(c) <= size

\* What a bounds check asks for is a number of bytes.
LEMMA RoomForNat == \A c \in Con : RoomFor(c) \in Nat
  BY InfoTable DEF RoomFor, FooterBytes

\* Sizes of chunks: aligning and doubling them, and adding a footer, keeps them large
\* enough; a doubled one has room for any constructor.
LEMMA SizesFit ==
    /\ GoodSize(CHUNK_SIZE)
    /\ \A s : GoodSize(s) => s \in Nat /\ s >= 57
    /\ \A s : GoodSize(s) => GoodSize(AlignUp(s)) /\ GoodSize(s + FooterBytes) /\ Roomy(2 * s)
    /\ \A s : Roomy(s) => Roomy(AlignUp(s))
    /\ Roomy(GIB_MAX_CHUNK_SIZE)
  <1>1. GoodSize(CHUNK_SIZE) /\ Roomy(GIB_MAX_CHUNK_SIZE)
    BY ChunksFit, Layout DEF GoodSize, Roomy
  <1>2. ASSUME NEW s, NEW t \in Nat, GoodSize(s), s <= t
        PROVE  GoodSize(t)
    BY <1>2, RoomForNat DEF GoodSize, Enough, FooterBytes, PtrBytes
  <1>3. ASSUME NEW s, GoodSize(s)
        PROVE  s \in Nat /\ s >= 57
    BY <1>3 DEF GoodSize, Enough, FooterBytes, PtrBytes
  <1>4. \A s \in Nat : AlignUp(s) \in Nat /\ s <= AlignUp(s)
    BY AlignUpBounds
  <1>5. ASSUME NEW s, GoodSize(s)
        PROVE  GoodSize(AlignUp(s)) /\ GoodSize(s + FooterBytes) /\ Roomy(2 * s)
    <2>1. s \in Nat
      BY <1>3, <1>5
    <2>2. GoodSize(AlignUp(s))
      BY <1>2, <1>4, <1>5, <2>1
    <2>3. GoodSize(s + FooterBytes) /\ GoodSize(2 * s)
      BY <1>2, <1>5, <2>1 DEF FooterBytes
    <2>4. \A c \in Con : RoomFor(c) <= 2 * s
      BY <1>5 DEF GoodSize, Enough
    <2> QED
      BY <2>2, <2>3, <2>4 DEF Roomy
  <1>6. ASSUME NEW s, Roomy(s)
        PROVE  Roomy(AlignUp(s))
    <2>1. s \in Nat /\ GoodSize(AlignUp(s))
      BY <1>3, <1>5, <1>6 DEF Roomy
    <2>2. \A c \in Con : RoomFor(c) <= AlignUp(s)
      BY <1>4, <1>6, <2>1, RoomForNat DEF Roomy
    <2> QED
      BY <2>1, <2>2 DEF Roomy
  <1> QED
    BY <1>1, <1>3, <1>5, <1>6

-----------------------------------------------------------------------------
(***************************************************************************)
(* Memory.                                                                 *)
(***************************************************************************)
Burnt == {"COPIED", "COPIED_TO"}
Pointers == {"INDIRECTION", "REDIRECTION"}
YoungPointer(c) == c.tag = "INDIRECTION" /\ contains_addr(c.to)

\* A cell at a, where P are the places of the pointers that are remembered and
\* malloc has handed out what is below brk: no old pointer leads into the nursery
\* unless it is remembered, forwarding pointers lead to the old generation, and
\* footers tell the size of a chunk.
GoodCell(a, c, P, brk) ==
    /\ a \in Nat \ {0}
    /\ a < heap_start => a + SizeOf(c) <= brk
    /\ a > heap_end => c.tag \in Burnt
    /\ c.tag = "COPIED_TO" => c.to \in Int /\ c.to < heap_start
    /\ ~contains_addr(a) /\ c.tag \in Pointers /\ contains_addr(c.to)
         => c.tag = "INDIRECTION" /\ a \in P
    /\ c.tag = "nursery_footer" => GoodSize(c.size)
    /\ c.tag = "footer" => /\ c = Footer(c.reg_info, c.size, c.next)
                           /\ c.size \in Nat /\ GoodSize(c.size + FooterBytes)

\* What is remembered is there, and a pointer into the nursery.
RememberedOK(m, P, brk) ==
    \A p \in P : /\ p \in DOMAIN m /\ YoungPointer(m[p])
                 /\ p \in Nat /\ p + PtrBytes <= brk
MemOK(m, P, brk) ==
    /\ IsFiniteSet(DOMAIN m)
    /\ \A a \in DOMAIN m : GoodCell(a, m[a], P, brk)
    /\ RememberedOK(m, P, brk)

\* The data that a collection has still to copy.
IntactIn(m) == {a \in DOMAIN m : contains_addr(a) /\ m[a].tag \notin Burnt}

\* A write puts its cell there, and removes no cell but those that it overlaps.
LEMMA WriteCells ==
    ASSUME NEW m, NEW a, NEW c
    PROVE  /\ DOMAIN Write(m, a, c) \subseteq DOMAIN m \cup {a}
           /\ a \in DOMAIN Write(m, a, c) /\ Write(m, a, c)[a] = c
           /\ \A b \in DOMAIN Write(m, a, c) : b # a => b \in DOMAIN m /\ Write(m, a, c)[b] = m[b]
           /\ \A b \in DOMAIN m : b # a /\ ~(b < a + SizeOf(c) /\ a < b + SizeOf(m[b]))
                => b \in DOMAIN Write(m, a, c)
  BY DEF Write

\* The place a may come to be remembered, or no longer be: Q are the places then.
LEMMA UpdateOK ==
    ASSUME NEW m, NEW P, NEW brk, MemOK(m, P, brk),
           NEW a, NEW c, NEW Q, P \ {a} \subseteq Q, Q \subseteq P \cup {a},
           GoodCell(a, c, Q, brk),
           a \in Q => YoungPointer(c) /\ a + PtrBytes <= brk,
           \A p \in Q \ {a} : p + PtrBytes <= a \/ a + SizeOf(c) <= p
    PROVE  MemOK(Write(m, a, c), Q, brk)
  <1> DEFINE n == Write(m, a, c)
  <1>1. IsFiniteSet(DOMAIN n)
    <2>1. IsFiniteSet(DOMAIN m \cup {a})
      BY FS_AddElement DEF MemOK
    <2> QED
      BY <2>1, WriteCells, FS_Subset
  <1>2. ASSUME NEW b \in DOMAIN n
        PROVE  GoodCell(b, n[b], Q, brk)
    <2>1. CASE b = a
      BY <2>1, WriteCells
    <2>2. CASE b # a
      <3>1. b \in DOMAIN m /\ n[b] = m[b]
        BY <2>2, WriteCells
      <3>2. GoodCell(b, m[b], P, brk) /\ (b \in P => b \in Q)
        BY <2>2, <3>1 DEF MemOK
      <3> HIDE DEF n
      <3> QED
        BY <3>1, <3>2 DEF GoodCell
    <2> QED
      BY <2>1, <2>2
  <1>3. ASSUME NEW p \in Q
        PROVE  p \in DOMAIN n /\ YoungPointer(n[p]) /\ p \in Nat /\ p + PtrBytes <= brk
    <2>1. CASE p = a
      BY <2>1, WriteCells DEF GoodCell
    <2>2. CASE p # a
      <3>1. p \in DOMAIN m /\ YoungPointer(m[p]) /\ p \in Nat /\ p + PtrBytes <= brk
        BY <2>2 DEF MemOK, RememberedOK
      <3>2. SizeOf(m[p]) = PtrBytes
        BY <3>1, SizeOfCell DEF YoungPointer
      <3>3. SizeOf(c) \in Nat \ {0} /\ a \in Nat
        BY SizeOfCell DEF GoodCell
      <3>4. ~(p < a + SizeOf(c) /\ a < p + SizeOf(m[p]))
        BY <2>2, <3>1, <3>2, <3>3 DEF PtrBytes
      <3>5. p \in DOMAIN n /\ n[p] = m[p]
        BY <2>2, <3>1, <3>4, WriteCells
      <3> QED
        BY <3>1, <3>5
    <2> QED
      BY <2>1, <2>2
  <1> QED
    BY <1>1, <1>2, <1>3 DEF MemOK, RememberedOK

\* A good cell that overlaps nothing remembered leaves memory good.
LEMMA WriteOK ==
    ASSUME NEW m, NEW P, NEW brk, MemOK(m, P, brk),
           NEW a, NEW c, GoodCell(a, c, P, brk),
           \A p \in P : p + PtrBytes <= a \/ a + SizeOf(c) <= p
    PROVE  MemOK(Write(m, a, c), P, brk)
  <1>1. a \notin P
    BY SizeOfCell DEF GoodCell, PtrBytes
  <1> QED
    BY <1>1, UpdateOK

\* A write to the old generation, or of a burned byte, leaves no more to copy.
LEMMA WriteIntact ==
    ASSUME NEW m, NEW a, NEW c, contains_addr(a) => c.tag \in Burnt
    PROVE  /\ IntactIn(Write(m, a, c)) \subseteq IntactIn(m)
           /\ a \notin IntactIn(Write(m, a, c))
  BY WriteCells DEF IntactIn

\* Burning puts a burned byte at each address, and leaves what it does not overlap.
LEMMA BurnCells ==
    ASSUME NEW m, NEW a, NEW n
    PROVE  /\ DOMAIN Burn(m, a, n) \subseteq DOMAIN m \cup (a .. a + n - 1)
           /\ \A b \in a .. a + n - 1 : b \in DOMAIN Burn(m, a, n) /\ Burn(m, a, n)[b] = CopiedCell
           /\ \A b \in DOMAIN Burn(m, a, n) : b \notin a .. a + n - 1
                => b \in DOMAIN m /\ Burn(m, a, n)[b] = m[b]
           /\ \A b \in DOMAIN m : b \notin a .. a + n - 1 /\ ~(b < a + n /\ a < b + SizeOf(m[b]))
                => b \in DOMAIN Burn(m, a, n) /\ Burn(m, a, n)[b] = m[b]
  BY DEF Burn

\* Data is burned in the nursery only.
LEMMA BurnOK ==
    ASSUME NEW m, NEW P, NEW brk \in Nat, MemOK(m, P, brk), brk < heap_start,
           NEW a \in Nat, heap_start <= a, NEW n \in Nat
    PROVE  /\ MemOK(Burn(m, a, n), P, brk)
           /\ IntactIn(Burn(m, a, n)) \subseteq IntactIn(m)
           /\ n # 0 => a \notin IntactIn(Burn(m, a, n))
  <1> DEFINE k == Burn(m, a, n)
             burnt == a .. a + n - 1
  <1>1. IsFiniteSet(DOMAIN k)
    <2>1. IsFiniteSet(burnt)
      BY FS_Interval
    <2>2. IsFiniteSet(DOMAIN m \cup burnt)
      BY <2>1, FS_Union DEF MemOK
    <2> QED
      BY <2>2, BurnCells, FS_Subset
  <1>2. ASSUME NEW b \in DOMAIN k
        PROVE  GoodCell(b, k[b], P, brk)
    <2>1. CASE b \in burnt
      <3>1. k[b] = CopiedCell
        BY <2>1, BurnCells
      <3>2. b \in Nat \ {0} /\ ~(b < heap_start)
        BY <2>1, Layout
      <3>3. k[b].tag = "COPIED" /\ "COPIED" \in Burnt /\ "COPIED" \notin Pointers
        BY <3>1 DEF CopiedCell, Burnt, Pointers
      <3> QED
        BY <3>2, <3>3 DEF GoodCell
    <2>2. CASE b \notin burnt
      BY <2>2, BurnCells DEF MemOK
    <2> QED
      BY <2>1, <2>2
  <1>3. ASSUME NEW p \in P
        PROVE  p \in DOMAIN k /\ YoungPointer(k[p]) /\ p \in Nat /\ p + PtrBytes <= brk
    <2>1. p \in DOMAIN m /\ YoungPointer(m[p]) /\ p \in Nat /\ p + PtrBytes <= brk
      BY DEF MemOK, RememberedOK
    <2>2. SizeOf(m[p]) = PtrBytes
      BY <2>1, SizeOfCell DEF YoungPointer
    <2>3. p \notin burnt /\ ~(p < a + n /\ a < p + SizeOf(m[p]))
      BY <2>1, <2>2, Layout DEF PtrBytes
    <2>4. p \in DOMAIN k /\ k[p] = m[p]
      BY <2>1, <2>3, BurnCells
    <2> QED
      BY <2>1, <2>4
  <1>4. ASSUME NEW b \in IntactIn(k)
        PROVE  b \in IntactIn(m) /\ b \notin burnt
    <2>1. b \in DOMAIN k /\ contains_addr(b) /\ k[b].tag \notin Burnt
      BY DEF IntactIn
    <2>2. b \notin burnt
      <3>1. CopiedCell.tag \in Burnt
        BY DEF CopiedCell, Burnt
      <3> QED
        BY <2>1, <3>1, BurnCells
    <2>3. b \in DOMAIN m /\ k[b] = m[b]
      BY <2>1, <2>2, BurnCells
    <2> QED
      BY <2>1, <2>2, <2>3 DEF IntactIn
  <1>5. n # 0 => a \in burnt
    OBVIOUS
  <1> QED
    BY <1>1, <1>2, <1>3, <1>4, <1>5 DEF MemOK, RememberedOK

\* The link or the region of a footer changes.
Relinked(m, n, f) ==
    /\ DOMAIN n = DOMAIN m
    /\ \A b \in DOMAIN m : b # f => n[b] = m[b]
    /\ f \in DOMAIN m => m[f].tag = "footer" /\ \E r, x : n[f] = Footer(r, m[f].size, x)

\* A change of one footer's metadata leaves memory good.
LEMMA RelinkOK ==
    ASSUME NEW m, NEW P, NEW brk, MemOK(m, P, brk),
           NEW f, NEW n, Relinked(m, n, f)
    PROVE  MemOK(n, P, brk) /\ IntactIn(n) \subseteq IntactIn(m)
  <1>1. DOMAIN n = DOMAIN m
    BY DEF Relinked
  <1>2. \A b \in DOMAIN m : b # f => n[b] = m[b]
    BY DEF Relinked
  <1>3. ASSUME f \in DOMAIN m
        PROVE  /\ m[f].tag = "footer" /\ n[f].tag = "footer" /\ n[f].size = m[f].size
               /\ n[f] = Footer(n[f].reg_info, n[f].size, n[f].next)
    BY <1>3 DEF Footer, Relinked
  <1>4. ASSUME NEW b \in DOMAIN m
        PROVE  GoodCell(b, n[b], P, brk)
    <2>1. CASE b = f
      <3>1. GoodCell(f, m[f], P, brk) /\ m[f].tag = "footer"
        BY <1>3, <2>1 DEF MemOK
      <3>2. SizeOf(n[f]) = FooterBytes /\ SizeOf(m[f]) = FooterBytes
        BY <1>3, <2>1, <3>1, SizeOfCell
      <3>3. n[f].size = m[f].size
        BY <1>3, <2>1
      <3>4. "footer" \notin Pointers /\ "footer" \notin Burnt
        BY DEF Pointers, Burnt
      <3>5. n[f].tag = "footer" /\ n[f] = Footer(n[f].reg_info, n[f].size, n[f].next)
        BY <1>3, <2>1
      <3> QED
        BY <2>1, <3>1, <3>2, <3>3, <3>4, <3>5 DEF GoodCell
    <2>2. CASE b # f
      BY <1>2, <2>2 DEF MemOK
    <2> QED
      BY <2>1, <2>2
  <1>5. \A p \in P : p # f
    BY <1>3 DEF MemOK, RememberedOK, YoungPointer
  <1>6. RememberedOK(n, P, brk)
    BY <1>1, <1>2, <1>5 DEF MemOK, RememberedOK
  <1>7. IntactIn(n) \subseteq IntactIn(m)
    <2>1. \A b \in DOMAIN m : n[b].tag = m[b].tag
      BY <1>2, <1>3
    <2> QED
      BY <1>1, <2>1 DEF IntactIn
  <1> QED
    BY <1>1, <1>4, <1>6, <1>7 DEF MemOK

\* Memory stays good when malloc hands out more.
LEMMA MallocMore ==
    ASSUME NEW m, NEW P, NEW brk \in Nat, NEW top \in Nat, MemOK(m, P, brk), brk <= top
    PROVE  MemOK(m, P, top)
  <1>1. \A a \in DOMAIN m : a \in Nat /\ SizeOf(m[a]) \in Nat
    BY SizeOfCell DEF MemOK, GoodCell
  <1>2. \A a \in DOMAIN m : a < heap_start => a + SizeOf(m[a]) <= top
    BY <1>1, Layout DEF MemOK, GoodCell
  <1>3. \A a \in DOMAIN m : GoodCell(a, m[a], P, top)
    BY <1>2 DEF MemOK, GoodCell
  <1>4. RememberedOK(m, P, top)
    BY DEF MemOK, RememberedOK, PtrBytes
  <1> QED
    BY <1>3, <1>4 DEF MemOK
-----------------------------------------------------------------------------
(***************************************************************************)
(* The heap.                                                               *)
(***************************************************************************)
HeapShape(g) ==
    g = [mem |-> g.mem, alloc |-> g.alloc, brk |-> g.brk, regs |-> g.regs,
         old_zct |-> g.old_zct, new_zct |-> g.new_zct, rem_set |-> g.rem_set,
         released |-> g.released, fault |-> g.fault]

BrkOK(brk) == brk \in Nat /\ OldBase <= brk /\ brk < heap_start
HeapOK(g, P) ==
    /\ HeapShape(g)
    /\ g.fault = "none" => MemOK(g.mem, P, g.brk) /\ BrkOK(g.brk)

\* The operations below make of heap g a later one, n.
Later(g, n, P) ==
    /\ HeapOK(n, P)
    /\ n.rem_set = g.rem_set /\ n.alloc = g.alloc
    /\ n.fault = "none" => g.fault = "none" /\ g.brk <= n.brk
\* ... and they leave the data in the nursery alone, or burn it.
NoneNew(g, n) == n.fault = "none" => IntactIn(n.mem) \subseteq IntactIn(g.mem)
LaterOld(g, n, P) == Later(g, n, P) /\ NoneNew(g, n)

\* Only metadata differs.
SameMemory(g, n) ==
    /\ HeapShape(n)
    /\ n.mem = g.mem /\ n.brk = g.brk /\ n.alloc = g.alloc /\ n.rem_set = g.rem_set
    /\ n.fault = "none" => g.fault = "none"

\* The heap is a later one of itself,
LEMMA LaterRefl == ASSUME NEW g, NEW P, HeapOK(g, P) PROVE LaterOld(g, g, P)
  BY DEF LaterOld, Later, NoneNew, HeapOK, BrkOK

\* and one operation may follow another.
LEMMA LaterTrans ==
    ASSUME NEW g, NEW n, NEW k, NEW P, HeapOK(g, P), Later(g, n, P), Later(n, k, P)
    PROVE  /\ Later(g, k, P)
           /\ NoneNew(g, n) /\ NoneNew(n, k) => NoneNew(g, k)
  BY DEF Later, NoneNew, HeapOK, BrkOK

\* An operation on metadata makes a later heap.
LEMMA SameLater ==
    ASSUME NEW g, NEW n, NEW P, HeapOK(g, P), SameMemory(g, n)
    PROVE  LaterOld(g, n, P)
  BY DEF LaterOld, Later, NoneNew, HeapOK, BrkOK, SameMemory

\* A fault stops the system and changes nothing else.
LEMMA FailSame ==
    ASSUME NEW g, NEW what, HeapShape(g), what # "none"
    PROVE  SameMemory(g, Fail(g, what)) /\ Fail(g, what).fault # "none"
  BY DEF HeapShape, SameMemory, Fail

\* Outsets, counts and the zero-count tables are metadata (add_to_outset,
\* add_old_to_old_indirection, remove_old_to_old_indirection, insert_new_zct).
LEMMA MetadataSame ==
    ASSUME NEW g, HeapShape(g), NEW from, NEW to
    PROVE  /\ SameMemory(g, add_to_outset(g, from, to))
           /\ SameMemory(g, add_old_to_old_indirection(g, from, to))
           /\ SameMemory(g, remove_old_to_old_indirection(g, from, to))
           /\ SameMemory(g, insert_new_zct(g, from))
  <1>1. ASSUME NEW k, HeapShape(k), NEW f, NEW t
        PROVE  SameMemory(k, add_to_outset(k, f, t))
    BY <1>1, FailSame DEF add_to_outset, HeapShape, SameMemory
  <1>2. SameMemory(g, add_old_to_old_indirection(g, from, to))
    <2> DEFINE h1 == add_to_outset(g, from, to)
    <2>1. SameMemory(g, h1)
      BY <1>1
    <2> HIDE DEF h1
    <2>2. SameMemory(g, [h1 EXCEPT !.regs[RegOf(g, to)].refcount = u16(@ + 1)])
      BY <2>1 DEF SameMemory, HeapShape
    <2>3. SameMemory(g, g)
      BY DEF SameMemory
    <2> QED
      BY <2>1, <2>2, <2>3 DEF add_old_to_old_indirection, h1
  <1>3. SameMemory(g, remove_old_to_old_indirection(g, from, to))
    BY FailSame DEF remove_old_to_old_indirection, HeapShape, SameMemory
  <1>4. SameMemory(g, insert_new_zct(g, from))
    BY DEF insert_new_zct, HeapShape, SameMemory
  <1> QED
    BY <1>1, <1>2, <1>3, <1>4

\* A write to the heap changes its memory only.
LEMMA StoreShape ==
    ASSUME NEW g, HeapShape(g), NEW a, NEW c
    PROVE  /\ HeapShape(Store(g, a, c))
           /\ Store(g, a, c).mem = Write(g.mem, a, c)
           /\ Store(g, a, c).brk = g.brk /\ Store(g, a, c).alloc = g.alloc
           /\ Store(g, a, c).rem_set = g.rem_set /\ Store(g, a, c).fault = g.fault
           /\ Store(g, a, c).regs = g.regs
  BY DEF Store, HeapShape

\* Writing a good cell beside what is remembered makes a later heap.
LEMMA StoreLater ==
    ASSUME NEW g, NEW P, HeapOK(g, P), NEW a, NEW c,
           g.fault = "none" => /\ GoodCell(a, c, P, g.brk)
                               /\ \A p \in P : p + PtrBytes <= a \/ a + SizeOf(c) <= p
    PROVE  /\ Later(g, Store(g, a, c), P)
           /\ (contains_addr(a) => c.tag \in Burnt) => NoneNew(g, Store(g, a, c))
  <1> DEFINE n == Store(g, a, c)
  <1>1. HeapShape(n) /\ n.mem = Write(g.mem, a, c) /\ n.brk = g.brk /\ n.alloc = g.alloc
        /\ n.rem_set = g.rem_set /\ n.fault = g.fault
    BY StoreShape DEF HeapOK
  <1> HIDE DEF n
  <1>2. ASSUME g.fault = "none"
        PROVE  MemOK(n.mem, P, n.brk) /\ BrkOK(n.brk)
    BY <1>1, <1>2, WriteOK DEF HeapOK
  <1>3. Later(g, n, P)
    BY <1>1, <1>2 DEF Later, HeapOK, BrkOK
  <1>4. (contains_addr(a) => c.tag \in Burnt) => NoneNew(g, n)
    BY <1>1, WriteIntact DEF NoneNew
  <1> QED
    BY <1>3, <1>4 DEF n

-----------------------------------------------------------------------------
(***************************************************************************)
(* Allocation.                                                             *)
(***************************************************************************)
LEMMA AllocateLater ==
    ASSUME NEW g, NEW P, HeapOK(g, P), NEW size, g.fault = "none" => size \in Nat
    PROVE  LET c == allocate(g, size)
           IN /\ LaterOld(g, c.h, P)
              /\ c.h.mem = g.mem /\ c.h.regs = g.regs
              /\ c.start = g.brk
              /\ c.h.fault = "none" => c.start + size + 8 <= c.h.brk
  <1> DEFINE c == allocate(g, size)
             top == AlignUp(g.brk + size) + 8
  <1>1. CASE top < heap_start
    <2>1. c.h = [g EXCEPT !.brk = top] /\ c.start = g.brk
      BY <1>1 DEF allocate
    <2>2. HeapShape(c.h) /\ c.h.mem = g.mem /\ c.h.regs = g.regs /\ c.h.brk = top
          /\ c.h.alloc = g.alloc /\ c.h.rem_set = g.rem_set /\ c.h.fault = g.fault
      BY <2>1 DEF HeapOK, HeapShape
    <2>3. ASSUME g.fault = "none"
          PROVE  BrkOK(top) /\ g.brk + size + 8 <= top /\ g.brk <= top /\ MemOK(g.mem, P, top)
      <3>1. BrkOK(g.brk) /\ MemOK(g.mem, P, g.brk)
        BY <2>3 DEF HeapOK
      <3>2. g.brk + size \in Int /\ AlignUp(g.brk + size) \in Int
            /\ g.brk + size <= AlignUp(g.brk + size)
        BY <2>3, <3>1, AlignUpBounds DEF BrkOK
      <3>3. top \in Nat /\ g.brk + size + 8 <= top /\ g.brk <= top
        BY <2>3, <3>1, <3>2 DEF BrkOK
      <3>4. BrkOK(top)
        BY <1>1, <3>1, <3>3, Layout DEF BrkOK
      <3> QED
        BY <3>1, <3>3, <3>4, MallocMore DEF BrkOK
    <2> HIDE DEF c, top
    <2>4. LaterOld(g, c.h, P)
      BY <2>2, <2>3 DEF LaterOld, Later, HeapOK, NoneNew
    <2> QED
      BY <2>1, <2>2, <2>3, <2>4 DEF c
  <1>2. CASE ~(top < heap_start)
    <2>1. c.h = Fail(g, "exit: malloc failed") /\ c.start = g.brk
      BY <1>2 DEF allocate
    <2>2. SameMemory(g, c.h) /\ c.h.fault # "none" /\ c.h.regs = g.regs
      <3>1. Fail(g, "exit: malloc failed").regs = g.regs
        BY DEF Fail, HeapOK, HeapShape
      <3> QED
        BY <2>1, <3>1, FailSame DEF HeapOK
    <2> HIDE DEF c
    <2>3. LaterOld(g, c.h, P)
      BY <2>2, SameLater
    <2> QED
      BY <2>1, <2>2, <2>3 DEF c, SameMemory
  <1> QED
    BY <1>1, <1>2

\* A new chunk lies above everything that malloc had handed out.
NewChunk(g, c, size) ==
    /\ c.dst = g.brk /\ c.dst_end = c.dst + size - FooterBytes
    /\ c.dst_end + FooterBytes <= c.h.brk

\* The fields of a footer,
LEMMA FooterShape ==
    ASSUME NEW r, NEW size, NEW next
    PROVE  /\ Footer(r, size, next).tag = "footer" /\ Footer(r, size, next).size = size
           /\ Footer(r, size, next).reg_info = r /\ Footer(r, size, next).next = next
           /\ SizeOf(Footer(r, size, next)) = FooterBytes
  <1>1. Footer(r, size, next).tag = "footer"
    BY DEF Footer
  <1> QED
    BY <1>1, SizeOfCell DEF Footer

\* and of a pointer.
LEMMA PtrShape ==
    ASSUME NEW t, NEW to, NEW offset
    PROVE  /\ PtrCell(t, to, offset).tag = t /\ PtrCell(t, to, offset).to = to
           /\ t \in {"INDIRECTION", "REDIRECTION", "COPIED_TO"}
                => SizeOf(PtrCell(t, to, offset)) = PtrBytes
  <1>1. PtrCell(t, to, offset).tag = t /\ PtrCell(t, to, offset).to = to
    BY DEF PtrCell
  <1> QED
    BY <1>1, SizeOfCell

\* A footer with a large enough size may stand anywhere in the old generation,
LEMMA GoodFooter ==
    ASSUME NEW a \in Nat, NEW brk, BrkOK(brk), OldBase <= a, a + FooterBytes <= brk,
           NEW P, NEW r, NEW size, GoodSize(size), NEW next
    PROVE  GoodCell(a, Footer(r, size - FooterBytes, next), P, brk) /\ ~contains_addr(a)
  <1> DEFINE c == Footer(r, size - FooterBytes, next)
  <1>1. c.tag = "footer" /\ c.size = size - FooterBytes /\ c.reg_info = r /\ c.next = next
        /\ SizeOf(c) = FooterBytes
    BY FooterShape
  <1>2. size \in Nat /\ size >= 56
    BY SizesFit
  <1>3. c.size \in Nat /\ c.size + FooterBytes = size
    BY <1>1, <1>2 DEF FooterBytes
  <1>4. c = Footer(c.reg_info, c.size, c.next)
    BY <1>1
  <1>5. a \in Nat \ {0} /\ a < heap_start /\ ~(a > heap_end)
    BY Layout DEF BrkOK, FooterBytes
  <1>6. "footer" \notin Pointers \cup Burnt
    BY DEF Pointers, Burnt
  <1>7. ~contains_addr(a)
    BY <1>5, Layout DEF contains_addr
  <1> HIDE DEF c
  <1>8. GoodCell(a, c, P, brk)
    BY <1>1, <1>3, <1>4, <1>5, <1>6 DEF GoodCell
  <1> QED
    BY <1>7, <1>8 DEF c

\* and be written there, behind what is remembered.
LEMMA FooterStored ==
    ASSUME NEW g, NEW P, HeapOK(g, P), NEW a, NEW r, NEW size, NEW next,
           g.fault = "none" => /\ GoodSize(size)
                               /\ a \in Nat /\ OldBase <= a /\ a + FooterBytes <= g.brk
                               /\ \A p \in P : p + PtrBytes <= a
    PROVE  LaterOld(g, Store(g, a, Footer(r, size - FooterBytes, next)), P)
  <1>1. ASSUME g.fault = "none"
        PROVE  GoodCell(a, Footer(r, size - FooterBytes, next), P, g.brk) /\ ~contains_addr(a)
    BY <1>1, GoodFooter DEF HeapOK
  <1>2. Later(g, Store(g, a, Footer(r, size - FooterBytes, next)), P)
    BY <1>1, StoreLater
  <1>3. CASE g.fault = "none"
    BY <1>1, <1>2, <1>3, StoreLater DEF LaterOld
  <1>4. CASE g.fault # "none"
    BY <1>2, <1>4, StoreShape DEF LaterOld, NoneNew, HeapOK
  <1> QED
    BY <1>3, <1>4

\* init_footer_at keeps what the heap promises.
LEMMA InitFooterLater ==
    ASSUME NEW g, NEW P, HeapOK(g, P), NEW e, NEW size, GoodSize(size), NEW refcount,
           g.fault = "none" => /\ e \in Nat /\ OldBase + FooterBytes <= e /\ e <= g.brk
                               /\ \A p \in P : p + PtrBytes <= e - FooterBytes
    PROVE  LET n == init_footer_at(g, e, size, refcount)
           IN LaterOld(g, n, P) /\ n.brk = g.brk /\ n.fault = g.fault
  <1> DEFINE f == e - FooterBytes
             footer == Footer(Len(g.regs) + 1, size - FooterBytes, 0)
             info == [refcount |-> refcount, outset |-> {}, first |-> e - FooterBytes]
             n == Store(g, e - FooterBytes, footer)
             k == init_footer_at(g, e, size, refcount)
  <1>1. k = [g EXCEPT !.mem = Write(@, e - FooterBytes, footer), !.regs = Append(@, info)]
    BY Zenon DEF init_footer_at
  <1>2. n = [g EXCEPT !.mem = Write(@, e - FooterBytes, footer)]
    BY Zenon DEF Store
  <1>3. g.fault = "none" => /\ f \in Nat /\ OldBase <= f /\ f + FooterBytes <= g.brk
                            /\ \A p \in P : p + PtrBytes <= f
    BY Layout DEF HeapOK, BrkOK, FooterBytes
  <1>4. LaterOld(g, n, P) /\ n.brk = g.brk /\ n.fault = g.fault
    <2> HIDE DEF f
    <2>1. LaterOld(g, Store(g, f, footer), P)
      BY <1>3, FooterStored
    <2>2. n.brk = g.brk /\ n.fault = g.fault
      BY StoreShape DEF HeapOK
    <2> QED
      BY <2>1, <2>2 DEF f
  <1> HIDE DEF footer, info, k, n
  <1>5. HeapShape(g)
    BY DEF HeapOK
  <1>6. SameMemory(n, k) /\ k.fault = n.fault
    BY <1>1, <1>2, <1>5 DEF SameMemory, HeapShape
  <1>7. LaterOld(n, k, P)
    BY <1>4, <1>6, SameLater DEF LaterOld, Later
  <1>8. LaterOld(g, k, P)
    BY <1>4, <1>7, LaterTrans DEF LaterOld
  <1> QED
    BY <1>4, <1>6, <1>8 DEF k, SameMemory

\* A first chunk is new memory, from where malloc was (allocate_first_chunk),
LEMMA FirstChunkLater ==
    ASSUME NEW g, NEW P, HeapOK(g, P), NEW size, GoodSize(size), NEW refcount
    PROVE  LET c == allocate_first_chunk(g, size, refcount)
           IN /\ LaterOld(g, c.h, P)
              /\ c.dst = g.brk
              /\ c.h.fault = "none" => NewChunk(g, c, size)
  <1>1. PICK a : a = allocate(g, size)
    OBVIOUS
  <1>2. PICK e : e = a.start + size
    OBVIOUS
  <1> DEFINE c == allocate_first_chunk(g, size, refcount)
  <1>3. size \in Nat /\ size >= 56
    BY SizesFit
  <1>4. LaterOld(g, a.h, P) /\ a.start = g.brk
        /\ (a.h.fault = "none" => a.start + size + 8 <= a.h.brk)
    BY <1>1, <1>3, AllocateLater
  <1>5. HeapOK(a.h, P)
    BY <1>4 DEF LaterOld, Later
  <1>6. ASSUME a.h.fault = "none"
        PROVE  /\ e \in Nat /\ OldBase + FooterBytes <= e /\ e <= a.h.brk
               /\ \A p \in P : p + PtrBytes <= e - FooterBytes
    <2>1. g.fault = "none" /\ BrkOK(g.brk) /\ RememberedOK(g.mem, P, g.brk)
      BY <1>4, <1>6 DEF LaterOld, Later, HeapOK, MemOK
    <2>2. BrkOK(a.h.brk)
      BY <1>5, <1>6 DEF HeapOK
    <2>3. e \in Nat /\ OldBase + FooterBytes <= e /\ e <= a.h.brk /\ g.brk <= e - FooterBytes
      BY <1>2, <1>3, <1>4, <1>6, <2>1, <2>2, Layout DEF BrkOK, FooterBytes
    <2> QED
      BY <2>1, <2>3 DEF RememberedOK, PtrBytes, BrkOK, FooterBytes
  <1>7. c = [h |-> init_footer_at(a.h, e, size, refcount),
             dst |-> a.start, dst_end |-> a.start + size - FooterBytes]
    BY <1>1, <1>2 DEF allocate_first_chunk
  <1>8. c.h = init_footer_at(a.h, e, size, refcount)
        /\ c.dst = a.start /\ c.dst_end = a.start + size - FooterBytes
    <2> HIDE DEF c
    <2> QED
      BY <1>7
  <1> HIDE DEF c
  <1>9. LaterOld(a.h, c.h, P) /\ c.h.brk = a.h.brk /\ c.h.fault = a.h.fault
    <2>1. PICK k : k = a.h
      OBVIOUS
    <2>2. HeapOK(k, P)
      BY <1>5, <2>1
    <2>3. k.fault = "none" => /\ e \in Nat /\ OldBase + FooterBytes <= e /\ e <= k.brk
                              /\ \A p \in P : p + PtrBytes <= e - FooterBytes
      BY <1>6, <2>1
    <2>4. PICK n : n = init_footer_at(k, e, size, refcount)
      OBVIOUS
    <2>5. LaterOld(k, n, P) /\ n.brk = k.brk /\ n.fault = k.fault
      BY <2>2, <2>3, <2>4, InitFooterLater
    <2> QED
      BY <1>8, <2>1, <2>4, <2>5
  <1>10. LaterOld(g, c.h, P)
    BY <1>4, <1>9, LaterTrans DEF LaterOld
  <1>11. c.h.fault = "none" => NewChunk(g, c, size)
    <2> HAVE c.h.fault = "none"
    <2>1. BrkOK(a.h.brk) /\ BrkOK(g.brk)
      BY <1>4, <1>5, <1>9 DEF HeapOK, LaterOld, Later
    <2> QED
      BY <1>3, <1>4, <1>8, <1>9, <2>1 DEF NewChunk, BrkOK, FooterBytes
  <1> QED
    BY <1>4, <1>8, <1>10, <1>11 DEF c

\* also if its region is put on the zero-count table.
LEMMA FreshRegionLater ==
    ASSUME NEW g, NEW P, HeapOK(g, P), NEW size, GoodSize(size), NEW refcount
    PROVE  LET c == FreshRegion(g, size, refcount)
           IN /\ LaterOld(g, c.h, P)
              /\ c.dst = g.brk
              /\ c.h.fault = "none" => NewChunk(g, c, size)
  <1>1. PICK c : c = allocate_first_chunk(g, size, refcount)
    OBVIOUS
  <1> DEFINE d == FreshRegion(g, size, refcount)
  <1>2. /\ LaterOld(g, c.h, P)
        /\ c.dst = g.brk
        /\ c.h.fault = "none" => NewChunk(g, c, size)
    BY <1>1, FirstChunkLater
  <1>3. d = [c EXCEPT !.h = insert_new_zct(@, Len(@.regs))]
    BY <1>1 DEF FreshRegion
  <1>4. c = [h |-> c.h, dst |-> c.dst, dst_end |-> c.dst_end]
    BY <1>1 DEF allocate_first_chunk
  <1>5. d.dst = c.dst /\ d.dst_end = c.dst_end /\ d.h = insert_new_zct(c.h, Len(c.h.regs))
    BY <1>3, <1>4
  <1>6. SameMemory(c.h, d.h)
    BY <1>2, <1>5, MetadataSame DEF LaterOld, Later, HeapOK
  <1> HIDE DEF d
  <1>7. LaterOld(c.h, d.h, P)
    BY <1>2, <1>6, SameLater DEF LaterOld, Later
  <1>8. LaterOld(g, d.h, P)
    BY <1>2, <1>7, LaterTrans DEF LaterOld
  <1>9. d.h.fault = "none" => NewChunk(g, d, size)
    BY <1>2, <1>5, <1>6 DEF NewChunk, SameMemory
  <1> QED
    BY <1>2, <1>5, <1>8, <1>9 DEF d

-----------------------------------------------------------------------------
(***************************************************************************)
(* Copying into the old generation.                                        *)
(***************************************************************************)
\* There is room for n bytes at d, in old memory that malloc has handed out, beside
\* what is remembered.
Room(g, P, d, n) ==
    /\ d \in Nat /\ OldBase <= d /\ d + n <= g.brk
    /\ \A p \in P : p + PtrBytes <= d \/ d + n <= p

\* A cell that may be anywhere in the old generation.
OldCell(c) == c.tag \in Con \/ (c.tag \in Pointers /\ ~contains_addr(c.to))

\* A cell that does not point into the nursery may be copied to where there is room.
LEMMA CopyLater ==
    ASSUME NEW g, NEW P, HeapOK(g, P), NEW d, NEW c, OldCell(c), NEW n, n = Store(g, d, c),
           g.fault = "none" => Room(g, P, d, SizeOf(c))
    PROVE  LaterOld(g, n, P) /\ n.brk = g.brk /\ n.fault = g.fault
  <1>1. n.brk = g.brk /\ n.fault = g.fault
    BY StoreShape DEF HeapOK
  <1>2. ASSUME g.fault = "none"
        PROVE  /\ GoodCell(d, c, P, g.brk) /\ ~contains_addr(d)
               /\ \A p \in P : p + PtrBytes <= d \/ d + SizeOf(c) <= p
    <2>1. Room(g, P, d, SizeOf(c)) /\ BrkOK(g.brk)
      BY <1>2 DEF HeapOK
    <2>2. SizeOf(c) \in Nat \ {0}
      BY SizeOfCell
    <2>3. d \in Nat \ {0} /\ d < heap_start /\ ~(d > heap_end) /\ ~contains_addr(d)
      BY <2>1, <2>2, Layout DEF Room, BrkOK, contains_addr
    <2>4. c.tag \notin {"nursery_footer", "footer", "COPIED_TO"}
      BY TagsApart DEF OldCell, Pointers
    <2>5. ~(c.tag \in Pointers /\ contains_addr(c.to))
      BY TagsApart DEF OldCell, Pointers
    <2> QED
      BY <2>1, <2>3, <2>4, <2>5 DEF GoodCell, Room
  <1>3. Later(g, n, P)
    BY <1>2, StoreLater
  <1>4. NoneNew(g, n)
    BY <1>2, <1>1, StoreLater DEF NoneNew
  <1> QED
    BY <1>1, <1>3, <1>4 DEF LaterOld

\* Changing one footer's metadata makes a later heap.
LEMMA RelinkLater ==
    ASSUME NEW g, NEW P, HeapOK(g, P), NEW f, NEW n, HeapShape(n),
           n.brk = g.brk, n.alloc = g.alloc, n.rem_set = g.rem_set, n.fault = g.fault,
           g.fault = "none" => Relinked(g.mem, n.mem, f)
    PROVE  LaterOld(g, n, P)
  <1>1. ASSUME g.fault = "none"
        PROVE  MemOK(n.mem, P, n.brk) /\ IntactIn(n.mem) \subseteq IntactIn(g.mem)
    BY <1>1, RelinkOK DEF HeapOK
  <1> QED
    BY <1>1 DEF LaterOld, Later, NoneNew, HeapOK, BrkOK

\* The footers in memory have the fields of a footer and tell a large enough size.
LEMMA FooterIs ==
    ASSUME NEW m, NEW P, NEW brk, MemOK(m, P, brk), NEW f \in DOMAIN m, m[f].tag = "footer",
           NEW c, c = m[f]
    PROVE  /\ c = [tag |-> "footer", reg_info |-> c.reg_info, size |-> c.size, next |-> c.next]
           /\ c.size \in Nat /\ GoodSize(c.size + FooterBytes)
  BY DEF MemOK, GoodCell, Footer

\* Linking a chunk to a region needs room for the redirection that leads to it, and
\* gives new memory (allocate_next_chunk).
LEMMA LinkChunkLater ==
    ASSUME NEW g, NEW P, HeapOK(g, P), NEW a, NEW f, IsFooter(g, f),
           NEW size, NEW c, c = LinkChunk(g, a, f, size),
           g.fault = "none" => GoodSize(size) /\ Room(g, P, a, PtrBytes)
    PROVE  /\ LaterOld(g, c.h, P)
           /\ c.dst = g.brk
           /\ c.h.fault = "none" => NewChunk(g, c, size)
  <1>1. PICK t : t = allocate(g, size)
    OBVIOUS
  <1>2. PICK k, start : k = t.h /\ start = t.start
    OBVIOUS
  <1>3. g.fault = "none" => size \in Nat /\ size >= 56
    BY SizesFit
  <1>4. /\ LaterOld(g, k, P) /\ k.mem = g.mem /\ start = g.brk
        /\ k.fault = "none" => start + size + 8 <= k.brk
    BY <1>1, <1>2, <1>3, AllocateLater
  <1>5. PICK e : e = start + size - FooterBytes
    OBVIOUS
  <1>6. PICK r : r = RegOf(g, f)
    OBVIOUS
  <1>7. PICK n1 : n1 = Store(k, e, Footer(r, size - FooterBytes, 0))
    OBVIOUS
  <1>8. PICK n2 : n2 = [n1 EXCEPT !.mem = [n1.mem EXCEPT ![f] = [@ EXCEPT !.next = e]]]
    OBVIOUS
  <1>9. PICK cell : cell = PtrCell("REDIRECTION", start, e - start)
    OBVIOUS
  <1>10. PICK n3 : n3 = Store(n2, a, cell)
    OBVIOUS
  <1>11. c.h = n3 /\ c.dst = start /\ c.dst_end = e
    <2>1. c = [h |-> [k EXCEPT !.mem =
                        Write([Write(k.mem, e, Footer(r, size - FooterBytes, 0))
                                 EXCEPT ![f] = [@ EXCEPT !.next = e]], a, cell)],
               dst |-> start, dst_end |-> e]
      BY <1>1, <1>2, <1>5, <1>6, <1>9 DEF LinkChunk
    <2>2. PICK m : m = Write(k.mem, e, Footer(r, size - FooterBytes, 0))
      OBVIOUS
    <2>3. PICK m2 : m2 = [m EXCEPT ![f] = [@ EXCEPT !.next = e]]
      OBVIOUS
    <2>4. PICK m3 : m3 = Write(m2, a, cell)
      OBVIOUS
    <2>5. c = [h |-> [k EXCEPT !.mem = m3], dst |-> start, dst_end |-> e]
      BY <2>1, <2>2, <2>3, <2>4
    <2>6. c.h = [k EXCEPT !.mem = m3] /\ c.dst = start /\ c.dst_end = e
      BY <2>5
    <2>7. HeapShape(k)
      BY <1>4 DEF LaterOld, Later, HeapOK
    <2>8. n1 = [k EXCEPT !.mem = m] /\ n1.mem = m /\ HeapShape(n1)
      BY <1>7, <2>2, <2>7 DEF Store, HeapShape
    <2>9. n2 = [n1 EXCEPT !.mem = m2]
      BY <1>8, <2>3, <2>8
    <2>10. n2 = [k EXCEPT !.mem = m2]
      BY <2>7, <2>8, <2>9 DEF HeapShape
    <2>11. n3 = [k EXCEPT !.mem = m3]
      BY <1>10, <2>4, <2>7, <2>10 DEF HeapShape, Store
    <2> QED
      BY <2>6, <2>11
  <1>12. HeapOK(k, P)
    BY <1>4 DEF LaterOld, Later
  <1>13. ASSUME k.fault = "none"
         PROVE  /\ g.fault = "none" /\ BrkOK(g.brk) /\ BrkOK(k.brk) /\ MemOK(g.mem, P, g.brk)
                /\ Room(k, P, a, PtrBytes)
                /\ e \in Nat /\ g.brk <= e /\ e + FooterBytes <= k.brk
                /\ \A p \in P : p + PtrBytes <= e
    <2>1. g.fault = "none" /\ BrkOK(g.brk) /\ MemOK(g.mem, P, g.brk) /\ g.brk <= k.brk
      BY <1>4, <1>13 DEF LaterOld, Later, HeapOK
    <2>2. BrkOK(k.brk)
      BY <1>12, <1>13 DEF HeapOK
    <2>3. e \in Nat /\ g.brk <= e /\ e + FooterBytes <= k.brk
      BY <1>3, <1>4, <1>5, <1>13, <2>1, <2>2 DEF BrkOK, FooterBytes
    <2>4. Room(k, P, a, PtrBytes)
      BY <2>1, <2>2 DEF Room, PtrBytes, BrkOK
    <2>5. \A p \in P : p + PtrBytes <= e
      BY <2>1, <2>3 DEF MemOK, RememberedOK, PtrBytes, BrkOK
    <2> QED
      BY <2>1, <2>2, <2>3, <2>4, <2>5
  <1>14. LaterOld(k, n1, P) /\ n1.brk = k.brk /\ n1.fault = k.fault
         /\ n1.mem = Write(k.mem, e, Footer(r, size - FooterBytes, 0))
    <2>1. k.fault = "none" => /\ GoodSize(size) /\ e \in Nat /\ OldBase <= e /\ e + FooterBytes <= k.brk
                              /\ \A p \in P : p + PtrBytes <= e
      BY <1>13, Layout DEF BrkOK
    <2> QED
      BY <1>7, <1>12, <2>1, FooterStored, StoreShape DEF HeapOK
  <1>15. LaterOld(n1, n2, P) /\ n2.brk = n1.brk /\ n2.fault = n1.fault
    <2>1. ASSUME n1.fault = "none", f \in DOMAIN n1.mem
          PROVE  n1.mem[f].tag = "footer"
      <3>1. CASE f = e
        BY <1>14, <3>1, WriteCells, FooterShape
      <3>2. CASE f # e
        <4>1. n1.mem[f] = k.mem[f] /\ f \in DOMAIN k.mem
          BY <1>14, <2>1, <3>2, WriteCells
        <4> QED
          BY <1>4, <4>1 DEF IsFooter, Tag
      <3> QED
        BY <3>1, <3>2
    <2>2. HeapOK(n1, P)
      BY <1>14 DEF LaterOld, Later
    <2>3. PICK m : m = n1.mem
      OBVIOUS
    <2>4. PICK m2 : m2 = [m EXCEPT ![f] = [@ EXCEPT !.next = e]]
      OBVIOUS
    <2>5. n2 = [n1 EXCEPT !.mem = m2]
      BY <1>8, <2>3, <2>4
    <2>6. /\ HeapShape(n2) /\ n2.mem = m2
          /\ n2.brk = n1.brk /\ n2.alloc = n1.alloc /\ n2.rem_set = n1.rem_set
          /\ n2.fault = n1.fault
      BY <2>2, <2>5 DEF HeapOK, HeapShape
    <2>7. ASSUME n1.fault = "none"
          PROVE  Relinked(m, m2, f)
      <3>1. MemOK(m, P, n1.brk)
        BY <2>2, <2>3, <2>7 DEF HeapOK
      <3>2. ASSUME f \in DOMAIN m
            PROVE  m[f].tag = "footer" /\ \E q : m2[f] = Footer(q, m[f].size, e)
        <4>1. m[f].tag = "footer"
          BY <2>1, <2>3, <2>7, <3>2
        <4>2. m2[f] = [m[f] EXCEPT !.next = e]
          BY <2>4, <3>2
        <4>3. PICK o : o = m[f]
          OBVIOUS
        <4>4. [o EXCEPT !.next = e] = Footer(o.reg_info, o.size, e)
          <5>1. o = [tag |-> "footer", reg_info |-> o.reg_info, size |-> o.size, next |-> o.next]
            BY <3>1, <3>2, <4>1, <4>3, FooterIs
          <5> QED
            BY <5>1 DEF Footer
        <4> QED
          BY <4>1, <4>2, <4>3, <4>4
      <3>3. DOMAIN m2 = DOMAIN m /\ \A b \in DOMAIN m : b # f => m2[b] = m[b]
        BY <2>4
      <3> QED
        BY <3>2, <3>3 DEF Relinked
    <2> QED
      BY <2>2, <2>3, <2>6, <2>7, RelinkLater
  <1>16. LaterOld(n2, n3, P) /\ n3.brk = n2.brk /\ n3.fault = n2.fault
    <2>1. HeapOK(n2, P)
      BY <1>15 DEF LaterOld, Later
    <2>2. cell.tag = "REDIRECTION" /\ cell.to = start /\ SizeOf(cell) = PtrBytes
      BY <1>9, PtrShape
    <2>3. CASE n2.fault = "none"
      <3>1. Room(n2, P, a, PtrBytes)
        BY <1>13, <1>14, <1>15, <2>3 DEF Room
      <3>2. ~contains_addr(start)
        BY <1>4, <1>13, <1>14, <1>15, <2>3, Layout DEF contains_addr, BrkOK
      <3>3. OldCell(cell)
        BY <2>2, <3>2 DEF OldCell, Pointers
      <3> QED
        BY <1>10, <2>1, <2>2, <3>1, <3>3, CopyLater
    <2>4. CASE n2.fault # "none"
      BY <1>10, <2>1, <2>4, StoreShape DEF LaterOld, Later, NoneNew, HeapOK
    <2> QED
      BY <2>3, <2>4
  <1>17. LaterOld(k, n2, P)
    BY <1>12, <1>14, <1>15, LaterTrans DEF LaterOld
  <1>18. LaterOld(k, n3, P)
    BY <1>12, <1>16, <1>17, LaterTrans DEF LaterOld
  <1>19. LaterOld(g, n3, P)
    BY <1>4, <1>18, LaterTrans DEF LaterOld
  <1>20. c.h.fault = "none" => NewChunk(g, c, size)
    BY <1>4, <1>5, <1>11, <1>13, <1>14, <1>15, <1>16 DEF NewChunk
  <1> QED
    BY <1>4, <1>11, <1>19, <1>20

\* The place d of the collector, which has the footer e: above what is remembered,
\* and not beyond e.
Above(P, d) == \A p \in P : p + PtrBytes <= d
Cursor(g, P, d, e) ==
    /\ Room(g, P, d, PtrBytes) /\ Above(P, d)
    /\ e \in Int /\ d <= e /\ e + FooterBytes <= g.brk

\* What bounds checks ask for.
Space(n) == n = 32 \/ \E c \in Con : n = 32 + ScalarBytes[c]

\* What a bounds check may ask for is in every chunk that is made for it.
LEMMA SpaceFits ==
    ASSUME NEW n, Space(n)
    PROVE  n \in Nat /\ n >= 32 /\ \A size : Roomy(size) => n + FooterBytes <= size
  <1>1. n \in Nat /\ n >= 32
    BY InfoTable DEF Space
  <1>2. ASSUME NEW size, Roomy(size)
        PROVE  n + FooterBytes <= size
    <2>1. size \in Nat /\ size >= 32 + FooterBytes
      BY <1>2 DEF Roomy, GoodSize, Enough, PtrBytes, FooterBytes
    <2> QED
      BY <1>2, <2>1 DEF Space, Roomy, RoomFor
  <1> QED
    BY <1>1, <1>2

\* The next chunk of a region is twice as large as its last, or as large as may be.
LEMMA NextChunkRoomy ==
    ASSUME NEW g, NEW P, HeapOK(g, P), g.fault = "none", NEW f, IsFooter(g, f)
    PROVE  Roomy(NextChunkSize(g, f))
  <1>1. f \in DOMAIN g.mem /\ g.mem[f].tag = "footer"
    BY DEF IsFooter, Tag
  <1>2. GoodSize(g.mem[f].size + FooterBytes)
    BY <1>1, FooterIs DEF HeapOK
  <1> QED
    BY <1>2, SizesFit DEF NextChunkSize

\* Behind a bounds check there is room for what it was asked for (check_bounds).
LEMMA CheckBoundsLater ==
    ASSUME NEW g, NEW P, HeapOK(g, P), NEW n, Space(n), NEW d, NEW e,
           g.fault = "none" => Cursor(g, P, d, e),
           NEW c, c = check_bounds(g, n, d, e)
    PROVE  /\ LaterOld(g, c.h, P)
           /\ c.h.fault = "none" => /\ Room(c.h, P, c.dst, n) /\ Above(P, c.dst) /\ d <= c.dst
                                    /\ c.dst + n <= c.dst_end
                                    /\ c.dst_end \in Int /\ c.dst_end + FooterBytes <= c.h.brk
  <1>1. n \in Nat /\ n >= 32 /\ \A size : Roomy(size) => n + FooterBytes <= size
    BY SpaceFits
  <1>2. CASE d > e \/ e - d >= n
    <2>1. c.h = g /\ c.dst = d /\ c.dst_end = e
      BY <1>2 DEF check_bounds
    <2>2. LaterOld(g, g, P)
      BY LaterRefl
    <2>3. ASSUME g.fault = "none"
          PROVE  /\ Room(g, P, d, n) /\ Above(P, d) /\ d <= d /\ d + n <= e
                 /\ e \in Int /\ e + FooterBytes <= g.brk
      <3>1. Cursor(g, P, d, e) /\ BrkOK(g.brk)
        BY <2>3 DEF HeapOK
      <3>2. d + n <= e /\ d + n <= g.brk
        BY <1>1, <1>2, <3>1 DEF Cursor, Room, BrkOK, FooterBytes
      <3> QED
        BY <3>1, <3>2 DEF Cursor, Room, Above
    <2> QED
      BY <2>1, <2>2, <2>3
  <1>3. CASE ~(d > e \/ e - d >= n) /\ ~IsFooter(g, e)
    <2>1. c.h = Fail(g, "wild")
      BY <1>3 DEF check_bounds
    <2>2. SameMemory(g, c.h) /\ c.h.fault # "none"
      BY <2>1, FailSame DEF HeapOK
    <2> QED
      BY <2>2, SameLater
  <1>4. CASE ~(d > e \/ e - d >= n) /\ IsFooter(g, e)
    <2>1. PICK size : size = NextChunkSize(g, e)
      OBVIOUS
    <2>2. c = LinkChunk(g, d, e, size)
      BY <1>4, <2>1 DEF check_bounds
    <2>3. g.fault = "none" => Roomy(size)
      BY <1>4, <2>1, NextChunkRoomy
    <2>4. g.fault = "none" => GoodSize(size) /\ Room(g, P, d, PtrBytes)
      BY <2>3 DEF Roomy, Cursor
    <2>5. /\ LaterOld(g, c.h, P) /\ c.dst = g.brk
          /\ c.h.fault = "none" => NewChunk(g, c, size)
      BY <1>4, <2>2, <2>4, LinkChunkLater
    <2>6. ASSUME c.h.fault = "none"
          PROVE  /\ Room(c.h, P, c.dst, n) /\ Above(P, c.dst) /\ d <= c.dst
                 /\ c.dst + n <= c.dst_end
                 /\ c.dst_end \in Int /\ c.dst_end + FooterBytes <= c.h.brk
      <3>1. g.fault = "none" /\ BrkOK(g.brk) /\ BrkOK(c.h.brk) /\ NewChunk(g, c, size)
            /\ MemOK(g.mem, P, g.brk)
        BY <2>5, <2>6 DEF LaterOld, Later, HeapOK
      <3>2. n + FooterBytes <= size /\ size \in Nat
        BY <1>1, <2>3, <3>1, SizesFit DEF Roomy
      <3>3. Room(g, P, d, PtrBytes)
        BY <2>4, <3>1
      <3>4. c.dst \in Nat /\ OldBase <= c.dst /\ c.dst + n <= c.h.brk
        BY <1>1, <2>5, <3>1, <3>2 DEF BrkOK, NewChunk, FooterBytes
      <3>5. Above(P, c.dst)
        BY <2>5, <3>1 DEF MemOK, RememberedOK, Above
      <3>6. d <= c.dst
        BY <2>5, <3>1, <3>3 DEF Room, PtrBytes, BrkOK
      <3>7. c.dst_end \in Int /\ c.dst_end + FooterBytes <= c.h.brk
        BY <2>5, <3>1, <3>2 DEF BrkOK, NewChunk, FooterBytes
      <3>8. c.dst + n <= c.dst_end
        BY <1>1, <2>5, <3>1, <3>2 DEF BrkOK, NewChunk, FooterBytes
      <3> QED
        BY <3>4, <3>5, <3>6, <3>7, <3>8 DEF Room, Above
    <2> QED
      BY <2>5, <2>6
  <1> QED
    BY <1>2, <1>3, <1>4

\* Burned data leads to its copy.
LEMMA ForwardLater ==
    ASSUME NEW g, NEW P, HeapOK(g, P), NEW a \in Int, heap_start <= a,
           NEW to \in Int, to < heap_start, NEW offset,
           NEW n, n = Store(g, a, PtrCell("COPIED_TO", to, offset))
    PROVE  /\ LaterOld(g, n, P) /\ n.brk = g.brk /\ n.fault = g.fault
           /\ a \notin IntactIn(n.mem)
  <1>1. PICK c : c = PtrCell("COPIED_TO", to, offset)
    OBVIOUS
  <1>2. c.tag = "COPIED_TO" /\ c.to = to /\ SizeOf(c) = PtrBytes
    BY <1>1, PtrShape
  <1>3. c.tag \in Burnt /\ c.tag \notin Pointers
    BY <1>2 DEF Burnt, Pointers
  <1>4. ASSUME g.fault = "none"
        PROVE  /\ GoodCell(a, c, P, g.brk)
               /\ \A p \in P : p + PtrBytes <= a \/ a + SizeOf(c) <= p
    <2>1. a \in Nat \ {0} /\ ~(a < heap_start)
      BY Layout
    <2>2. GoodCell(a, c, P, g.brk)
      BY <1>2, <1>3, <2>1 DEF GoodCell
    <2>3. \A p \in P : p \in Nat /\ p + PtrBytes <= g.brk
      BY <1>4 DEF HeapOK, MemOK, RememberedOK
    <2>4. g.brk \in Nat /\ g.brk < heap_start
      BY <1>4 DEF HeapOK, BrkOK
    <2> QED
      BY <2>2, <2>3, <2>4, Layout DEF PtrBytes
  <1>5. LaterOld(g, n, P)
    BY <1>1, <1>3, <1>4, StoreLater DEF LaterOld
  <1>6. n.mem = Write(g.mem, a, c) /\ n.brk = g.brk /\ n.fault = g.fault
    BY <1>1, StoreShape DEF HeapOK
  <1>7. a \notin IntactIn(n.mem)
    BY <1>3, <1>6, WriteIntact
  <1> QED
    BY <1>5, <1>6, <1>7

\* Burning data of the nursery makes a later heap, with less to copy.
LEMMA BurnLater ==
    ASSUME NEW g, NEW P, HeapOK(g, P), NEW a \in Nat, heap_start <= a, NEW k \in Nat \ {0},
           NEW n, HeapShape(n), n.mem = Burn(g.mem, a, k),
           n.brk = g.brk, n.alloc = g.alloc, n.rem_set = g.rem_set, n.fault = g.fault
    PROVE  /\ LaterOld(g, n, P) /\ n.brk = g.brk /\ n.fault = g.fault
           /\ n.fault = "none" => a \notin IntactIn(n.mem)
  <1>1. ASSUME g.fault = "none"
        PROVE  /\ MemOK(n.mem, P, n.brk) /\ BrkOK(n.brk)
               /\ IntactIn(n.mem) \subseteq IntactIn(g.mem) /\ a \notin IntactIn(n.mem)
    <2>1. BrkOK(g.brk) /\ MemOK(g.mem, P, g.brk)
      BY <1>1 DEF HeapOK
    <2> QED
      BY <2>1, BurnOK DEF BrkOK
  <1> QED
    BY <1>1 DEF LaterOld, Later, NoneNew, HeapOK, BrkOK

\* An indirection into the old generation.
LEMMA IndirectionOld ==
    ASSUME NEW to, ~contains_addr(to), NEW offset
    PROVE  /\ OldCell(PtrCell("INDIRECTION", to, offset))
           /\ SizeOf(PtrCell("INDIRECTION", to, offset)) = PtrBytes
  <1>1. PICK c : c = PtrCell("INDIRECTION", to, offset)
    OBVIOUS
  <1>2. c.tag = "INDIRECTION" /\ c.to = to /\ SizeOf(c) = PtrBytes
    BY <1>1, PtrShape
  <1> QED
    BY <1>1, <1>2 DEF OldCell, Pointers
-----------------------------------------------------------------------------
(***************************************************************************)
(* What the program does.  Pointers from the old generation are remembered *)
(* even when it stops in the middle.                                       *)
(***************************************************************************)
PointersOK(m, P) ==
    \A a \in DOMAIN m :
      ~contains_addr(a) /\ m[a].tag \in Pointers /\ contains_addr(m[a].to)
        => m[a].tag = "INDIRECTION" /\ a \in P

\* Good memory has no pointer into the nursery that is not remembered.
LEMMA PointersAre == ASSUME NEW m, NEW P, NEW brk, MemOK(m, P, brk) PROVE PointersOK(m, P)
  BY DEF MemOK, GoodCell, PointersOK

\* This stays so under writes, if what is written is remembered, whatever they overlap.
LEMMA PointersWrite ==
    ASSUME NEW m, NEW P, PointersOK(m, P), NEW a, NEW c, NEW Q, P \subseteq Q,
           ~contains_addr(a) /\ c.tag \in Pointers /\ contains_addr(c.to)
             => c.tag = "INDIRECTION" /\ a \in Q
    PROVE  PointersOK(Write(m, a, c), Q)
  BY WriteCells DEF PointersOK

\* A fresh chunk or region adds no pointer,
LEMMA FreshPointers ==
    ASSUME NEW g, NEW P, HeapShape(g), PointersOK(g.mem, P), NEW size, NEW refcount,
           NEW c, c = allocate_first_chunk(g, size, refcount) \/ c = FreshRegion(g, size, refcount)
    PROVE  HeapShape(c.h) /\ PointersOK(c.h.mem, P) /\ c.dst = g.brk
  <1>1. PICK k, start : k = allocate(g, size).h /\ start = allocate(g, size).start
    OBVIOUS
  <1>2. HeapShape(k) /\ k.mem = g.mem /\ start = g.brk
    BY <1>1 DEF allocate, Fail, HeapShape
  <1>3. PICK d : d = allocate_first_chunk(g, size, refcount)
    OBVIOUS
  <1>4. PICK e : e = start + size
    OBVIOUS
  <1>5. d = [h |-> init_footer_at(k, e, size, refcount),
             dst |-> start, dst_end |-> start + size - FooterBytes]
    BY <1>1, <1>3, <1>4 DEF allocate_first_chunk
  <1>6. d.h = init_footer_at(k, e, size, refcount) /\ d.dst = start
    BY <1>5
  <1>7. PICK footer, info : /\ footer = Footer(Len(k.regs) + 1, size - FooterBytes, 0)
                            /\ d.h = [k EXCEPT !.mem = Write(@, e - FooterBytes, footer),
                                               !.regs = Append(@, info)]
    <2>1. PICK footer : footer = Footer(Len(k.regs) + 1, size - FooterBytes, 0)
      OBVIOUS
    <2>2. PICK info : info = [refcount |-> refcount, outset |-> {}, first |-> e - FooterBytes]
      OBVIOUS
    <2>3. init_footer_at(k, e, size, refcount)
            = [k EXCEPT !.mem = Write(@, e - FooterBytes, footer), !.regs = Append(@, info)]
      BY <2>1, <2>2, Zenon DEF init_footer_at
    <2> QED
      BY <1>6, <2>1, <2>3
  <1>8. HeapShape(d.h) /\ d.h.mem = Write(g.mem, e - FooterBytes, footer)
    BY <1>2, <1>7 DEF HeapShape
  <1>9. PointersOK(d.h.mem, P)
    <2>1. footer.tag = "footer"
      BY <1>7, FooterShape
    <2> QED
      BY <1>8, <2>1, PointersWrite DEF Pointers
  <1>10. CASE c = FreshRegion(g, size, refcount)
    <2>1. c = [d EXCEPT !.h = insert_new_zct(@, Len(@.regs))]
      BY <1>3, <1>10 DEF FreshRegion
    <2>2. c.h = insert_new_zct(d.h, Len(d.h.regs)) /\ c.dst = d.dst
      BY <1>5, <2>1
    <2>3. SameMemory(d.h, c.h)
      BY <1>8, <2>2, MetadataSame
    <2> QED
      BY <1>2, <1>6, <1>9, <2>2, <2>3 DEF SameMemory
  <1> QED
    BY <1>2, <1>3, <1>6, <1>8, <1>9, <1>10

\* nor does a linked one: its redirection leads to the old generation.
LEMMA LinkPointers ==
    ASSUME NEW g, NEW P, HeapOK(g, P), g.fault = "none", NEW a, NEW f, IsFooter(g, f),
           NEW size, NEW c, c = LinkChunk(g, a, f, size)
    PROVE  PointersOK(c.h.mem, P)
  <1>1. PICK k, start : k = allocate(g, size).h /\ start = allocate(g, size).start
    OBVIOUS
  <1>2. HeapShape(k) /\ k.mem = g.mem /\ start = g.brk
    BY <1>1 DEF allocate, Fail, HeapShape, HeapOK
  <1>3. PICK e : e = start + size - FooterBytes
    OBVIOUS
  <1>4. PICK footer : footer = Footer(RegOf(g, f), size - FooterBytes, 0)
    OBVIOUS
  <1>5. PICK cell : cell = PtrCell("REDIRECTION", start, e - start)
    OBVIOUS
  <1>6. PICK m : m = Write(k.mem, e, footer)
    OBVIOUS
  <1>7. PICK m2 : m2 = [m EXCEPT ![f] = [@ EXCEPT !.next = e]]
    OBVIOUS
  <1>8. PICK m3 : m3 = Write(m2, a, cell)
    OBVIOUS
  <1>9. c = [h |-> [k EXCEPT !.mem = m3], dst |-> start, dst_end |-> e]
    BY <1>1, <1>3, <1>4, <1>5, <1>6, <1>7, <1>8 DEF LinkChunk
  <1>10. c.h.mem = m3
    BY <1>2, <1>9 DEF HeapShape
  <1>11. PointersOK(g.mem, P)
    BY PointersAre DEF HeapOK
  <1>12. PointersOK(m, P)
    BY <1>2, <1>4, <1>6, <1>11, FooterShape, PointersWrite DEF Pointers
  <1>13. PointersOK(m2, P)
    <2>1. ASSUME f \in DOMAIN m
          PROVE  m2[f].tag = "footer"
      <3>1. PICK d : d = m[f]
        OBVIOUS
      <3>2. d = [tag |-> "footer", reg_info |-> d.reg_info, size |-> d.size, next |-> d.next]
        <4>1. CASE f = e
          BY <1>4, <1>6, <3>1, <4>1, WriteCells DEF Footer
        <4>2. CASE f # e
          <5>1. f \in DOMAIN g.mem /\ d = g.mem[f] /\ g.mem[f].tag = "footer"
            BY <1>2, <1>6, <2>1, <3>1, <4>2, WriteCells DEF IsFooter, Tag
          <5> QED
            BY <5>1, FooterIs DEF HeapOK
        <4> QED
          BY <4>1, <4>2
      <3>3. m2[f] = [d EXCEPT !.next = e]
        BY <1>7, <2>1, <3>1
      <3> QED
        BY <3>2, <3>3
    <2>2. DOMAIN m2 = DOMAIN m /\ \A b \in DOMAIN m : b # f => m2[b] = m[b]
      BY <1>7
    <2> QED
      BY <1>12, <2>1, <2>2 DEF PointersOK, Pointers
  <1>14. cell.tag = "REDIRECTION" /\ cell.to = start /\ ~contains_addr(start)
    BY <1>2, <1>5, PtrShape, Layout DEF HeapOK, BrkOK, contains_addr
  <1> QED
    BY <1>8, <1>10, <1>13, <1>14, PointersWrite

\* Growing a region gives new memory, with room for any constructor, and leaves no
\* pointer behind that is not remembered (gib_grow_region).
LEMMA GrowLater ==
    ASSUME NEW g, NEW P, HeapOK(g, P), g.fault = "none", NEW a, NEW f,
           contains_addr(a) <=> contains_addr(f),
           ~contains_addr(a) => Room(g, P, a, PtrBytes),
           NEW c, c = gib_grow_region(g, a, f)
    PROVE  /\ Later(g, c.h, P) /\ PointersOK(c.h.mem, P)
           /\ c.h.fault = "none" => \E size : Roomy(size) /\ NewChunk(g, c, size)
  <1>1. BrkOK(g.brk) /\ MemOK(g.mem, P, g.brk) /\ PointersOK(g.mem, P) /\ HeapShape(g)
    BY PointersAre DEF HeapOK
  <1>2. CASE Tag(g.mem, f) # (IF contains_addr(f) THEN "nursery_footer" ELSE "footer")
    <2>1. c.h = Fail(g, "wild")
      BY <1>2 DEF gib_grow_region
    <2>2. SameMemory(g, c.h) /\ c.h.fault # "none"
      BY <1>1, <2>1, FailSame
    <2> QED
      BY <1>1, <2>2, SameLater DEF LaterOld, SameMemory
  <1>3. CASE Tag(g.mem, f) = "nursery_footer" /\ contains_addr(f)
    <2>1. PICK size : size = AlignUp(2 * g.mem[f].size)
      OBVIOUS
    <2>2. Roomy(size)
      <3>1. f \in DOMAIN g.mem /\ g.mem[f].tag = "nursery_footer"
        BY <1>3 DEF Tag
      <3>2. GoodSize(g.mem[f].size)
        BY <1>1, <3>1 DEF MemOK, GoodCell
      <3> QED
        BY <2>1, <3>2, SizesFit
    <2>3. PICK d : d = FreshRegion(g, size, 0)
      OBVIOUS
    <2>4. /\ LaterOld(g, d.h, P) /\ d.dst = g.brk
          /\ d.h.fault = "none" => NewChunk(g, d, size)
      BY <2>2, <2>3, FreshRegionLater DEF Roomy
    <2>5. PointersOK(d.h.mem, P) /\ HeapShape(d.h)
      BY <1>1, <2>3, FreshPointers
    <2>6. PICK cell : cell = PtrCell("REDIRECTION", d.dst, d.dst_end - d.dst)
      OBVIOUS
    <2>7. cell.tag = "REDIRECTION" /\ cell.to = d.dst /\ ~contains_addr(d.dst) /\ SizeOf(cell) = PtrBytes
      BY <1>1, <2>4, <2>6, PtrShape, Layout DEF BrkOK, contains_addr
    <2>8. PICK n : n = Store(d.h, a, cell)
      OBVIOUS
    <2>9. c.h = n /\ c.dst = d.dst /\ c.dst_end = d.dst_end
      <3>1. c = [d EXCEPT !.h = n]
        BY <1>3, <2>1, <2>3, <2>6, <2>8 DEF gib_grow_region
      <3>2. PICK t : t = allocate_first_chunk(g, size, 0)
        OBVIOUS
      <3>3. t = [h |-> t.h, dst |-> t.dst, dst_end |-> t.dst_end]
        BY <3>2 DEF allocate_first_chunk
      <3>4. d = [t EXCEPT !.h = insert_new_zct(@, Len(@.regs))]
        BY <2>3, <3>2 DEF FreshRegion
      <3>5. d = [h |-> d.h, dst |-> d.dst, dst_end |-> d.dst_end]
        BY <3>3, <3>4
      <3> QED
        BY <3>1, <3>5
    <2>10. Later(d.h, n, P)
      <3>1. HeapOK(d.h, P)
        BY <2>4 DEF LaterOld, Later
      <3>2. ASSUME d.h.fault = "none"
            PROVE  /\ GoodCell(a, cell, P, d.h.brk)
                   /\ \A p \in P : p + PtrBytes <= a \/ a + SizeOf(cell) <= p
        <4>1. contains_addr(a)
          BY <1>3
        <4>2. a \in Nat \ {0} /\ ~(a < heap_start) /\ ~(a > heap_end)
          BY <4>1, Layout DEF contains_addr
        <4>3. GoodCell(a, cell, P, d.h.brk)
          BY <2>7, <4>1, <4>2 DEF GoodCell
        <4>4. \A p \in P : p \in Nat /\ p + PtrBytes <= g.brk
          BY <1>1 DEF MemOK, RememberedOK
        <4> QED
          BY <1>1, <4>2, <4>3, <4>4, Layout DEF BrkOK, PtrBytes
      <3> QED
        BY <2>8, <3>1, <3>2, StoreLater
    <2>11. n.mem = Write(d.h.mem, a, cell) /\ n.brk = d.h.brk /\ n.fault = d.h.fault
      BY <2>5, <2>8, StoreShape
    <2>12. PointersOK(n.mem, P)
      BY <2>5, <2>7, <2>11, PointersWrite
    <2>13. Later(g, n, P)
      BY <2>4, <2>10, LaterTrans DEF LaterOld
    <2>14. n.fault = "none" => NewChunk(g, c, size)
      BY <2>4, <2>9, <2>11 DEF NewChunk
    <2> QED
      BY <2>2, <2>9, <2>12, <2>13, <2>14
  <1>4. CASE Tag(g.mem, f) = "footer" /\ ~contains_addr(f)
    <2>1. PICK size : size = AlignUp(NextChunkSize(g, f))
      OBVIOUS
    <2>2. Roomy(size)
      BY <1>4, <2>1, NextChunkRoomy, SizesFit DEF IsFooter
    <2>3. c = LinkChunk(g, a, f, size)
      BY <1>4, <2>1 DEF gib_grow_region
    <2>4. GoodSize(size) /\ Room(g, P, a, PtrBytes) /\ IsFooter(g, f)
      BY <1>4, <2>2 DEF Roomy, IsFooter
    <2>5. /\ LaterOld(g, c.h, P) /\ c.dst = g.brk
          /\ c.h.fault = "none" => NewChunk(g, c, size)
      BY <2>3, <2>4, LinkChunkLater
    <2>6. PointersOK(c.h.mem, P)
      BY <2>3, <2>4, LinkPointers
    <2> QED
      BY <2>2, <2>5, <2>6 DEF LaterOld
  <1> QED
    BY <1>2, <1>3, <1>4

\* After the write barrier the heap promises the same as before, with the place of
\* the new pointer if it leads from the old generation into the nursery.
LEMMA BarrierLater ==
    ASSUME NEW g, NEW P, HeapOK(g, P), NEW a, NEW e, NEW to, NEW to_footer,
           g.fault = "none" => contains_addr(a) \/ Room(g, P, a, PtrBytes),
           PointersOK(g.mem, P),
           NEW n, n = gib_indirection_barrier(g, a, e, to, to_footer)
    PROVE  /\ n.brk = g.brk /\ n.alloc = g.alloc
           /\ n.fault = "none" => g.fault = "none"
           /\ \/ n.rem_set = g.rem_set /\ HeapOK(n, P) /\ PointersOK(n.mem, P)
              \/ /\ n.rem_set = g.rem_set \cup {[ptr |-> a + 1, endptr |-> e]}
                 /\ ~contains_addr(a)
                 /\ HeapOK(n, P \cup {a}) /\ PointersOK(n.mem, P \cup {a})
  <1>1. PICK p : p = ChaseIndirections(g, to, to_footer)
    OBVIOUS
  <1>2. PICK t, footer : t = p[1] /\ footer = p[2]
    OBVIOUS
  <1>3. PICK c : c = PtrCell("INDIRECTION", t, footer - t)
    OBVIOUS
  <1>4. c.tag = "INDIRECTION" /\ c.to = t /\ SizeOf(c) = PtrBytes
    BY <1>3, PtrShape
  <1>5. PICK h1 : h1 = Store(g, a, c)
    OBVIOUS
  <1>6. /\ HeapShape(h1) /\ h1.mem = Write(g.mem, a, c) /\ h1.brk = g.brk /\ h1.alloc = g.alloc
        /\ h1.rem_set = g.rem_set /\ h1.fault = g.fault
    BY <1>5, StoreShape DEF HeapOK
  <1>7. n = IF contains_addr(a) THEN h1
            ELSE IF contains_addr(t)
            THEN [h1 EXCEPT !.rem_set = @ \cup {[ptr |-> a + 1, endptr |-> e]}]
            ELSE add_old_to_old_indirection(h1, e, footer)
    BY <1>1, <1>2, <1>3, <1>5 DEF gib_indirection_barrier
  <1>8. ASSUME g.fault = "none"
        PROVE  /\ BrkOK(g.brk) /\ MemOK(g.mem, P, g.brk)
               /\ \A q \in P : q \in Nat /\ q + PtrBytes <= g.brk
               /\ a \in Nat \ {0} /\ ~(a > heap_end)
               /\ a < heap_start => a + PtrBytes <= g.brk
               /\ ~contains_addr(a) => a + PtrBytes <= g.brk
               /\ \A q \in P : q + PtrBytes <= a \/ a + PtrBytes <= q
    <2>1. BrkOK(g.brk) /\ MemOK(g.mem, P, g.brk)
      BY <1>8 DEF HeapOK
    <2>2. \A q \in P : q \in Nat /\ q + PtrBytes <= g.brk
      BY <2>1 DEF MemOK, RememberedOK
    <2>3. CASE contains_addr(a)
      BY <2>1, <2>2, <2>3, Layout DEF contains_addr, BrkOK, PtrBytes
    <2>4. CASE ~contains_addr(a)
      BY <1>8, <2>1, <2>2, <2>4, Layout DEF Room, BrkOK, PtrBytes
    <2> QED
      BY <2>1, <2>2, <2>3, <2>4
  <1>9. CASE contains_addr(a) \/ ~contains_addr(t)
    <2>1. ASSUME g.fault = "none"
          PROVE  MemOK(h1.mem, P, h1.brk)
      <3>1. GoodCell(a, c, P, g.brk)
        BY <1>4, <1>8, <1>9, <2>1 DEF GoodCell, Burnt
      <3> QED
        BY <1>4, <1>6, <1>8, <2>1, <3>1, WriteOK
    <2>2. HeapOK(h1, P)
      BY <1>6, <1>8, <2>1 DEF HeapOK
    <2>3. PointersOK(h1.mem, P)
      BY <1>4, <1>6, <1>9, PointersWrite
    <2>4. n = h1 \/ n = add_old_to_old_indirection(h1, e, footer)
      BY <1>7, <1>9
    <2>5. SameMemory(h1, n)
      BY <1>6, <2>4, MetadataSame DEF SameMemory
    <2>6. HeapOK(n, P)
      BY <2>2, <2>5, SameLater DEF LaterOld, Later
    <2> QED
      BY <1>6, <2>3, <2>5, <2>6 DEF SameMemory
  <1>10. CASE ~contains_addr(a) /\ contains_addr(t)
    <2>1. PICK Q : Q = P \cup {a}
      OBVIOUS
    <2>2. n = [h1 EXCEPT !.rem_set = @ \cup {[ptr |-> a + 1, endptr |-> e]}]
      BY <1>7, <1>10
    <2>3. /\ HeapShape(n) /\ n.mem = h1.mem /\ n.brk = h1.brk /\ n.alloc = h1.alloc
          /\ n.rem_set = h1.rem_set \cup {[ptr |-> a + 1, endptr |-> e]} /\ n.fault = h1.fault
      BY <1>6, <2>2 DEF HeapShape
    <2>4. ASSUME g.fault = "none"
          PROVE  MemOK(n.mem, Q, n.brk)
      <3>1. GoodCell(a, c, Q, g.brk)
        BY <1>4, <1>8, <2>1, <2>4 DEF GoodCell, Burnt
      <3>2. YoungPointer(c) /\ a + PtrBytes <= g.brk
        BY <1>4, <1>8, <1>10, <2>4 DEF YoungPointer
      <3>3. \A q \in Q \ {a} : q + PtrBytes <= a \/ a + SizeOf(c) <= q
        BY <1>4, <1>8, <2>1, <2>4
      <3> QED
        BY <1>6, <1>8, <2>1, <2>3, <2>4, <3>1, <3>2, <3>3, UpdateOK
    <2>5. HeapOK(n, Q)
      BY <1>6, <1>8, <2>3, <2>4 DEF HeapOK
    <2>6. PointersOK(n.mem, Q)
      BY <1>4, <1>6, <2>1, <2>3, PointersWrite
    <2> QED
      BY <1>6, <1>10, <2>1, <2>3, <2>5, <2>6
  <1> QED
    BY <1>9, <1>10

-----------------------------------------------------------------------------
(***************************************************************************)
(* Footers.                                                                *)
(***************************************************************************)
\* The footers of a heap
FootersOf(g) == {f \in DOMAIN g.mem : g.mem[f].tag = "footer"}

\* Nothing that is written at d, in a chunk with the end e, goes over a footer: a
\* pointer fits, and so does what ends before e.
Clear(g, d, e) == \A f \in FootersOf(g) : f + FooterBytes <= d \/ (d + PtrBytes <= f /\ e <= f)
EndOK(g, d, e) == Clear(g, d, e) /\ IsFooter(g, e)

\* Footers are in what malloc has handed out, and have the fields of a footer.
FootersOK(g) ==
    /\ BrkOK(g.brk)
    /\ \A f \in FootersOf(g) : f \in Nat /\ f + FooterBytes <= g.brk
    /\ \A f \in FootersOf(g) : /\ g.mem[f] = Footer(g.mem[f].reg_info, g.mem[f].size, g.mem[f].next)
                               /\ g.mem[f].size \in Nat /\ GoodSize(g.mem[f].size + FooterBytes)
Low(g) == HeapShape(g) /\ (g.fault = "none" => FootersOK(g))

\* New footers are in new memory,
Footed(g, n) ==
    /\ Low(n)
    /\ n.fault = "none" => /\ g.fault = "none" /\ g.brk <= n.brk
                           /\ \A f \in FootersOf(n) : f \in FootersOf(g) \/ g.brk <= f

\* The metadata hangs together: see MetadataLinked.
Infos == [refcount : Counts, outset : SUBSET Nat, first : Nat]
Linked(g) ==
    /\ g.regs \in Seq(Infos)
    /\ \A r \in DOMAIN g.regs :
         g.regs[r].outset \subseteq DOMAIN g.regs /\ g.regs[r].first \in FootersOf(g)
    /\ g.old_zct \cup g.new_zct \subseteq DOMAIN g.regs
    /\ \A f \in FootersOf(g) :
         /\ g.mem[f].reg_info \in DOMAIN g.regs
         /\ g.mem[f].next = 0 \/ g.mem[f].next \in FootersOf(g)
LinksKept(g, n) == n.fault = "none" /\ Linked(g) => Linked(n)

\* and the others stay, and so does what links them.
FootKept(g, n) == LinksKept(g, n) /\ (n.fault = "none" => FootersOf(g) \subseteq FootersOf(n))

\* A step that changes nothing keeps the footers,
LEMMA FootRefl == ASSUME NEW g, Low(g) PROVE Footed(g, g) /\ FootKept(g, g)
  BY DEF Footed, FootKept, LinksKept, Low, FootersOK, BrkOK

\* and one step that does may follow another.
LEMMA FootTrans ==
    ASSUME NEW g, NEW n, NEW k, Low(g), Footed(g, n), Footed(n, k)
    PROVE  /\ Footed(g, k)
           /\ FootKept(g, n) /\ FootKept(n, k) => FootKept(g, k)
  <1>1. FootKept(g, n) /\ FootKept(n, k) => FootKept(g, k)
    BY DEF FootKept, LinksKept, Footed
  <1>2. ASSUME k.fault = "none"
        PROVE  /\ g.fault = "none" /\ g.brk <= k.brk
               /\ \A f \in FootersOf(k) : f \in FootersOf(g) \/ g.brk <= f
    <2>1. g.fault = "none" /\ n.fault = "none" /\ g.brk <= n.brk /\ n.brk <= k.brk
      BY <1>2 DEF Footed
    <2>2. FootersOK(g) /\ FootersOK(n) /\ FootersOK(k)
      BY <1>2, <2>1 DEF Footed, Low
    <2>3. ASSUME NEW f \in FootersOf(k)
          PROVE  f \in FootersOf(g) \/ g.brk <= f
      <3>1. f \in FootersOf(n) \/ n.brk <= f
        BY <1>2 DEF Footed
      <3>2. f \in FootersOf(n) => f \in FootersOf(g) \/ g.brk <= f
        BY <2>1 DEF Footed
      <3>3. f \in Nat
        BY <2>2 DEF FootersOK
      <3> QED
        BY <2>1, <2>2, <3>1, <3>2, <3>3 DEF FootersOK, BrkOK
    <2> QED
      BY <2>1, <2>2, <2>3 DEF FootersOK, BrkOK
  <1> QED
    BY <1>1, <1>2 DEF Footed

\* What was clear of footers stays so, and an end stays an end.
LEMMA ClearLater ==
    ASSUME NEW g, NEW n, Low(g), Footed(g, n), n.fault = "none",
           NEW d \in Int, NEW e \in Int, Clear(g, d, e), d + PtrBytes <= g.brk, e <= g.brk
    PROVE  Clear(n, d, e)
  <1>1. g.fault = "none" /\ FootersOK(g) /\ FootersOK(n)
    BY DEF Footed, Low
  <1> SUFFICES ASSUME NEW f \in FootersOf(n)
               PROVE  f + FooterBytes <= d \/ (d + PtrBytes <= f /\ e <= f)
    BY DEF Clear
  <1>2. f \in Nat /\ g.brk \in Nat
    BY <1>1 DEF FootersOK, BrkOK
  <1>3. CASE f \in FootersOf(g)
    BY <1>3 DEF Clear
  <1>4. CASE g.brk <= f
    BY <1>2, <1>4 DEF PtrBytes
  <1> QED
    BY <1>3, <1>4 DEF Footed

\* An end stays an end while the footers stay.
LEMMA EndLater ==
    ASSUME NEW g, NEW n, Low(g), Footed(g, n), FootKept(g, n), n.fault = "none",
           NEW d \in Int, NEW e, EndOK(g, d, e), d + PtrBytes <= g.brk
    PROVE  EndOK(n, d, e)
  <1>1. g.fault = "none" /\ FootersOK(g)
    BY DEF Footed, Low
  <1>2. e \in FootersOf(g)
    BY DEF EndOK, IsFooter, Tag, FootersOf
  <1>3. e \in Int /\ e <= g.brk
    BY <1>1, <1>2 DEF FootersOK, BrkOK, FooterBytes
  <1>4. Clear(n, d, e)
    BY <1>3, ClearLater DEF EndOK
  <1>5. IsFooter(n, e)
    BY <1>2 DEF FootKept, IsFooter, Tag, FootersOf
  <1> QED
    BY <1>4, <1>5 DEF EndOK

\* Behind what was written there is still room for a pointer.
LEMMA ClearBehind ==
    ASSUME NEW g, Low(g), g.fault = "none", NEW d \in Int, NEW e \in Int, Clear(g, d, e),
           NEW m \in Nat, d + m + PtrBytes <= e, NEW e2 \in Int, e2 <= e
    PROVE  Clear(g, d + m, e2)
  BY DEF Clear, Low, FootersOK, PtrBytes, FooterBytes

\* Operations on metadata change no footer.
LEMMA FootSame ==
    ASSUME NEW g, Low(g), NEW n, SameMemory(g, n)
    PROVE  /\ Footed(g, n) /\ FootersOf(n) = FootersOf(g)
           /\ LinksKept(g, n) => FootKept(g, n)
  BY DEF SameMemory, Footed, FootKept, Low, FootersOK, FootersOf, BrkOK

LEMMA FootFail ==
    ASSUME NEW g, Low(g), NEW n, SameMemory(g, n), n.fault # "none"
    PROVE  Footed(g, n) /\ FootKept(g, n) /\ FootersOf(n) = FootersOf(g)
  BY FootSame DEF LinksKept

\* A footer's region.
LEMMA FooterLinked ==
    ASSUME NEW g, Linked(g), NEW f, IsFooter(g, f)
    PROVE  RegOf(g, f) \in DOMAIN g.regs /\ f \in FootersOf(g)
  BY DEF Linked, IsFooter, Tag, FootersOf, RegOf

\* A region may become any that leads to footers and regions.
LEMMA RegionSet ==
    ASSUME NEW g, Linked(g), NEW r \in DOMAIN g.regs,
           NEW i \in Infos, i.outset \subseteq DOMAIN g.regs, i.first \in FootersOf(g),
           NEW n, n.regs = [g.regs EXCEPT ![r] = i], n.mem = g.mem,
           n.old_zct = g.old_zct, n.new_zct = g.new_zct
    PROVE  Linked(n)
  <1>1. PICK s, q : s = g.regs /\ q = n.regs
    OBVIOUS
  <1>2. s \in Seq(Infos)
    BY <1>1 DEF Linked
  <1>3. q \in Seq(Infos) /\ DOMAIN q = DOMAIN s
        /\ \A j \in DOMAIN s : q[j] = IF j = r THEN i ELSE s[j]
    BY <1>1, <1>2
  <1>4. FootersOf(n) = FootersOf(g)
    BY DEF FootersOf
  <1> QED
    BY <1>1, <1>3, <1>4 DEF Linked

\* A region's outset and count.
LEMMA RegionIs ==
    ASSUME NEW g, Linked(g), NEW r \in DOMAIN g.regs
    PROVE  /\ g.regs[r] \in Infos /\ g.regs[r].outset \subseteq DOMAIN g.regs
           /\ g.regs[r].first \in FootersOf(g)
           /\ r \in Nat
  BY DEF Linked

\* What a region may become.
LEMMA InfoIs ==
    ASSUME NEW g, Linked(g), NEW out, out \subseteq DOMAIN g.regs, NEW count \in Counts,
           NEW first \in Nat, NEW i, i = [refcount |-> count, outset |-> out, first |-> first]
    PROVE  i \in Infos /\ i.outset = out /\ i.first = first
  <1>1. PICK s : s = g.regs
    OBVIOUS
  <1>2. s \in Seq(Infos)
    BY <1>1 DEF Linked
  <1>3. DOMAIN s \subseteq Nat
    BY <1>2
  <1>4. out \in SUBSET Nat
    BY <1>1, <1>3
  <1> QED
    BY <1>4 DEF Infos

\* An outset grows by a region there is (add_to_outset).
LEMMA OutsetLinks ==
    ASSUME NEW g, HeapShape(g), NEW from, NEW to, NEW n, n = add_to_outset(g, from, to)
    PROVE  /\ LinksKept(g, n)
           /\ n.fault = "none" => /\ IsFooter(g, from) /\ IsFooter(g, to)
                                  /\ DOMAIN n.regs = DOMAIN g.regs
  <1>1. CASE ~(IsFooter(g, from) /\ IsFooter(g, to))
    <2>1. n.fault # "none"
      BY <1>1, FailSame DEF add_to_outset
    <2> QED
      BY <2>1 DEF LinksKept
  <1>2. CASE IsFooter(g, from) /\ IsFooter(g, to)
    <2>1. PICK r, t : r = RegOf(g, from) /\ t = RegOf(g, to)
      OBVIOUS
    <2>2. n = [g EXCEPT !.regs[r].outset = @ \cup {t}]
      BY <1>2, <2>1 DEF add_to_outset
    <2>3. ASSUME Linked(g)
          PROVE  Linked(n)
      <3>1. r \in DOMAIN g.regs /\ t \in DOMAIN g.regs
        BY <1>2, <2>1, <2>3, FooterLinked
      <3>2. PICK o : o = g.regs[r]
        OBVIOUS
      <3>3. o \in Infos /\ o.outset \subseteq DOMAIN g.regs /\ o.first \in FootersOf(g) /\ t \in Nat
        BY <2>3, <3>1, <3>2, RegionIs
      <3>4. PICK i : i = [o EXCEPT !.outset = @ \cup {t}]
        OBVIOUS
      <3>5. i \in Infos /\ i.outset \subseteq DOMAIN g.regs /\ i.first \in FootersOf(g)
        <4>1. i = [refcount |-> o.refcount, outset |-> o.outset \cup {t}, first |-> o.first]
              /\ o.refcount \in Counts /\ o.first \in Nat
          BY <3>3, <3>4 DEF Infos
        <4>2. PICK out : out = o.outset \cup {t}
          OBVIOUS
        <4>3. out \subseteq DOMAIN g.regs
          BY <3>1, <3>3, <4>2
        <4> QED
          BY <2>3, <3>3, <4>1, <4>2, <4>3, InfoIs
      <3>6. n = [g EXCEPT !.regs = [g.regs EXCEPT ![r] = i]]
        BY <2>2, <3>2, <3>4 DEF HeapShape
      <3>7. /\ n.regs = [g.regs EXCEPT ![r] = i] /\ n.mem = g.mem
            /\ n.old_zct = g.old_zct /\ n.new_zct = g.new_zct
        BY <3>6 DEF HeapShape
      <3> QED
        BY <2>3, <3>1, <3>5, <3>7, RegionSet
    <2>4. DOMAIN n.regs = DOMAIN g.regs
      BY <2>2 DEF HeapShape
    <2> QED
      BY <1>2, <2>3, <2>4 DEF LinksKept
  <1> QED
    BY <1>1, <1>2

\* A count is 16 bits wide.
LEMMA CountsAre ==
    /\ 0 \in Counts /\ 1 \in Counts /\ \A k \in Counts : k \in Int
    /\ \A k \in Int : u16(k) \in Counts
  BY DEF Counts, u16

\* A region counted again, or once less.
LEMMA CountLinks ==
    ASSUME NEW g, HeapShape(g), Linked(g), NEW r \in DOMAIN g.regs, NEW k \in Counts,
           NEW n, n = [g EXCEPT !.regs[r].refcount = k]
    PROVE  Linked(n) /\ HeapShape(n)
  <1>1. PICK o : o = g.regs[r]
    OBVIOUS
  <1>2. o \in Infos /\ o.outset \subseteq DOMAIN g.regs /\ o.first \in FootersOf(g)
    BY <1>1, RegionIs
  <1>5. PICK i : i = [o EXCEPT !.refcount = k]
    OBVIOUS
  <1>6. i \in Infos /\ i.outset = o.outset /\ i.first = o.first
    BY <1>2, <1>5 DEF Infos
  <1>7. n = [g EXCEPT !.regs = [g.regs EXCEPT ![r] = i]]
    BY <1>1, <1>5 DEF HeapShape
  <1>8. /\ n.regs = [g.regs EXCEPT ![r] = i] /\ n.mem = g.mem
        /\ n.old_zct = g.old_zct /\ n.new_zct = g.new_zct /\ HeapShape(n)
    BY <1>7 DEF HeapShape
  <1> QED
    BY <1>2, <1>6, <1>8, RegionSet

\* An old-to-old indirection relates regions there are, and bumps the count of one
\* (add_old_to_old_indirection),
LEMMA AddLinks ==
    ASSUME NEW g, HeapShape(g), NEW from, NEW to, NEW n, n = add_old_to_old_indirection(g, from, to)
    PROVE  LinksKept(g, n)
  <1>1. CASE from = to
    BY <1>1 DEF add_old_to_old_indirection, LinksKept
  <1>2. CASE from # to
    <2>1. PICK h1 : h1 = add_to_outset(g, from, to)
      OBVIOUS
    <2>2. /\ LinksKept(g, h1) /\ HeapShape(h1)
          /\ h1.fault = "none" => IsFooter(g, to) /\ DOMAIN h1.regs = DOMAIN g.regs
      BY <2>1, OutsetLinks, MetadataSame DEF SameMemory
    <2>3. CASE n = h1
      BY <2>2, <2>3
    <2>4. CASE n # h1
      <3>1. /\ n = [h1 EXCEPT !.regs[RegOf(g, to)].refcount = u16(@ + 1)]
            /\ h1.fault = "none"
        BY <1>2, <2>1, <2>4 DEF add_old_to_old_indirection
      <3>2. ASSUME Linked(g)
            PROVE  Linked(n)
        <4>1. Linked(h1) /\ RegOf(g, to) \in DOMAIN g.regs
          BY <2>2, <3>1, <3>2, FooterLinked DEF LinksKept
        <4>2. RegOf(g, to) \in DOMAIN h1.regs
          BY <2>2, <3>1, <4>1
        <4>3. PICK t : t = RegOf(g, to)
          OBVIOUS
        <4>4. PICK o : o = h1.regs[t]
          OBVIOUS
        <4>5. PICK k : k = u16(o.refcount + 1)
          OBVIOUS
        <4>6. k \in Counts
          BY <4>1, <4>2, <4>3, <4>4, <4>5, RegionIs, CountsAre DEF Infos
        <4>7. n = [h1 EXCEPT !.regs[t].refcount = k]
          BY <3>1, <4>3, <4>4, <4>5
        <4> QED
          BY <2>2, <4>1, <4>2, <4>3, <4>6, <4>7, CountLinks
      <3> QED
        BY <3>2 DEF LinksKept
    <2> QED
      BY <2>3, <2>4
  <1> QED
    BY <1>1, <1>2

\* and so does its removal (remove_old_to_old_indirection).
LEMMA RemoveLinks ==
    ASSUME NEW g, HeapShape(g), NEW from, NEW to,
           NEW n, n = remove_old_to_old_indirection(g, from, to)
    PROVE  LinksKept(g, n)
  <1>1. CASE from = to
    BY <1>1 DEF remove_old_to_old_indirection, LinksKept
  <1>2. CASE from # to /\ ~(IsFooter(g, from) /\ IsFooter(g, to))
    <2>1. n.fault # "none"
      BY <1>2, FailSame DEF remove_old_to_old_indirection
    <2> QED
      BY <2>1 DEF LinksKept
  <1>3. CASE from # to /\ IsFooter(g, from) /\ IsFooter(g, to)
    <2>1. PICK r, t : r = RegOf(g, from) /\ t = RegOf(g, to)
      OBVIOUS
    <2>2. CASE t \notin g.regs[r].outset
      BY <1>3, <2>1, <2>2 DEF remove_old_to_old_indirection, LinksKept
    <2>3. CASE t \in g.regs[r].outset
      <3>1. PICK k : k = [g EXCEPT !.regs[r].outset = @ \ {t}]
        OBVIOUS
      <3>2. n = [g EXCEPT !.regs[r].outset = @ \ {t}, !.regs[t].refcount = u16(@ - 1)]
        BY <1>3, <2>1, <2>3 DEF remove_old_to_old_indirection
      <3>3. PICK count : count = u16(g.regs[t].refcount - 1)
        OBVIOUS
      <3>4. n = [g EXCEPT !.regs[r].outset = @ \ {t}, !.regs[t].refcount = count]
        BY <3>2, <3>3
      <3>5. n = [k EXCEPT !.regs[t].refcount = count]
        BY <3>1, <3>4 DEF HeapShape
      <3>6. ASSUME Linked(g)
            PROVE  Linked(n)
        <4>1. r \in DOMAIN g.regs /\ t \in DOMAIN g.regs
          BY <1>3, <2>1, <3>6, FooterLinked
        <4>2. PICK o : o = g.regs[r]
          OBVIOUS
        <4>3. o \in Infos /\ o.outset \subseteq DOMAIN g.regs /\ o.first \in FootersOf(g)
          BY <3>6, <4>1, <4>2, RegionIs
        <4>4. PICK i : i = [o EXCEPT !.outset = @ \ {t}]
          OBVIOUS
        <4>5. i \in Infos /\ i.outset \subseteq DOMAIN g.regs /\ i.first \in FootersOf(g)
          BY <4>3, <4>4 DEF Infos
        <4>6. k = [g EXCEPT !.regs = [g.regs EXCEPT ![r] = i]]
          BY <3>1, <4>2, <4>4 DEF HeapShape
        <4>7. /\ k.regs = [g.regs EXCEPT ![r] = i] /\ k.mem = g.mem
              /\ k.old_zct = g.old_zct /\ k.new_zct = g.new_zct /\ HeapShape(k)
          BY <4>6 DEF HeapShape
        <4>8. Linked(k) /\ t \in DOMAIN k.regs
          BY <3>6, <4>1, <4>5, <4>7, RegionSet
        <4>9. count \in Counts
          BY <3>3, <3>6, <4>1, RegionIs, CountsAre DEF Infos
        <4> QED
          BY <3>5, <4>7, <4>8, <4>9, CountLinks
      <3> QED
        BY <3>6 DEF LinksKept
    <2> QED
      BY <2>2, <2>3
  <1> QED
    BY <1>1, <1>2, <1>3

\* The zero-count table takes regions there are (insert_new_zct).
LEMMA ZctLinks ==
    ASSUME NEW g, HeapShape(g), NEW r, NEW n, n = insert_new_zct(g, r)
    PROVE  Linked(g) /\ r \in DOMAIN g.regs => Linked(n)
  <1>1. n.mem = g.mem /\ n.regs = g.regs /\ n.old_zct = g.old_zct /\ n.new_zct = g.new_zct \cup {r}
    BY DEF insert_new_zct, HeapShape
  <1>2. FootersOf(n) = FootersOf(g)
    BY <1>1 DEF FootersOf
  <1> QED
    BY <1>1, <1>2 DEF Linked

\* Where neither footers nor metadata change, nothing does.
SameInfo(g, n) == n.regs = g.regs /\ n.old_zct = g.old_zct /\ n.new_zct = g.new_zct
LEMMA SameLinks ==
    ASSUME NEW g, NEW n, SameInfo(g, n), FootersOf(n) = FootersOf(g),
           \A f \in FootersOf(g) : n.mem[f] = g.mem[f]
    PROVE  LinksKept(g, n)
  BY DEF SameInfo, Linked, LinksKept

\* A sequence with one more at its end.
LEMMA Appended ==
    ASSUME NEW S, NEW s \in Seq(S), NEW i \in S, NEW q, q = Append(s, i)
    PROVE  /\ q \in Seq(S) /\ Len(q) = Len(s) + 1 /\ DOMAIN q = DOMAIN s \cup {Len(s) + 1}
           /\ \A j \in DOMAIN s : q[j] = s[j]
           /\ q[Len(s) + 1] = i
  <1>1. DOMAIN q = 1 .. Len(s) + 1 /\ DOMAIN s = 1 .. Len(s) /\ Len(s) \in Nat
    OBVIOUS
  <1> QED
    BY <1>1

\* A new footer, of a region,
LEMMA ChunkLinks ==
    ASSUME NEW g, Linked(g), NEW n, SameInfo(g, n), NEW f, FootersOf(n) = FootersOf(g) \cup {f},
           \A x \in FootersOf(g) : n.mem[x] = g.mem[x] \/ x = f,
           n.mem[f].reg_info \in DOMAIN g.regs,
           n.mem[f].next = 0 \/ n.mem[f].next \in FootersOf(n)
    PROVE  Linked(n)
  BY DEF SameInfo, Linked

\* and a region with its first.
LEMMA RegionLinks ==
    ASSUME NEW g, Linked(g), NEW f \in Nat, NEW count \in Counts,
           NEW n, n.regs = Append(g.regs, [refcount |-> count, outset |-> {}, first |-> f]),
           n.old_zct = g.old_zct, n.new_zct = g.new_zct,
           FootersOf(n) = FootersOf(g) \cup {f},
           \A x \in FootersOf(g) : n.mem[x] = g.mem[x] \/ x = f,
           n.mem[f].reg_info = Len(g.regs) + 1, n.mem[f].next = 0
    PROVE  Linked(n) /\ n.mem[f].reg_info \in DOMAIN n.regs /\ Len(n.regs) \in DOMAIN n.regs
  <1>1. PICK s, q, i : s = g.regs /\ q = n.regs /\ i = [refcount |-> count, outset |-> {}, first |-> f]
    OBVIOUS
  <1>2. s \in Seq(Infos) /\ i \in Infos /\ i.first = f /\ i.outset = {}
    BY <1>1 DEF Linked, Infos
  <1>3. /\ q \in Seq(Infos) /\ Len(q) = Len(s) + 1 /\ DOMAIN q = DOMAIN s \cup {Len(s) + 1}
        /\ \A j \in DOMAIN s : q[j] = s[j]
        /\ q[Len(s) + 1] = i
    BY <1>1, <1>2, Appended
  <1>4. ASSUME NEW r \in DOMAIN q
        PROVE  q[r].outset \subseteq DOMAIN q /\ q[r].first \in FootersOf(n)
    BY <1>1, <1>2, <1>3 DEF Linked
  <1>5. n.old_zct \cup n.new_zct \subseteq DOMAIN q
    BY <1>1, <1>3 DEF Linked
  <1>6. ASSUME NEW x \in FootersOf(n)
        PROVE  n.mem[x].reg_info \in DOMAIN q /\ (n.mem[x].next = 0 \/ n.mem[x].next \in FootersOf(n))
    BY <1>1, <1>3 DEF Linked
  <1> QED
    BY <1>1, <1>3, <1>4, <1>5, <1>6 DEF Linked

\* A write to memory leaves the metadata alone.
LEMMA StoreInfo ==
    ASSUME NEW g, HeapShape(g), NEW a, NEW c
    PROVE  SameInfo(g, Store(g, a, c))
  BY DEF Store, HeapShape, SameInfo

\* A footer is not written over by what is beside it.
Beyond(g, a, k) == \A f \in FootersOf(g) : f + FooterBytes <= a \/ a + k <= f

\* A write beside the footers makes no footer and keeps them.
LEMMA FootStore ==
    ASSUME NEW g, Low(g), NEW a, NEW c, c.tag # "footer", NEW n, n = Store(g, a, c)
    PROVE  /\ Footed(g, n) /\ n.brk = g.brk /\ n.fault = g.fault
           /\ (g.fault = "none" => a \in Int /\ Beyond(g, a, SizeOf(c))) => FootKept(g, n)
           /\ n.fault = "none" /\ a \in Int => Beyond(n, a, SizeOf(c))
  <1>1. /\ HeapShape(n) /\ n.mem = Write(g.mem, a, c) /\ n.brk = g.brk /\ n.fault = g.fault
    BY StoreShape DEF Low
  <1>2. ASSUME NEW f \in FootersOf(n)
        PROVE  f \in FootersOf(g) /\ n.mem[f] = g.mem[f] /\ f # a
    <2>1. f \in DOMAIN n.mem /\ n.mem[f].tag = "footer"
      BY DEF FootersOf
    <2>2. f # a
      BY <1>1, <2>1, WriteCells
    <2> QED
      BY <1>1, <2>1, <2>2, WriteCells DEF FootersOf
  <1>3. Footed(g, n)
    BY <1>1, <1>2 DEF Footed, Low, FootersOK, BrkOK
  <1>4. ASSUME g.fault = "none", a \in Int, Beyond(g, a, SizeOf(c)), NEW f \in FootersOf(g)
        PROVE  f \in FootersOf(n)
    <2>1. f \in DOMAIN g.mem /\ g.mem[f].tag = "footer" /\ SizeOf(g.mem[f]) = FooterBytes
      BY SizeOfCell DEF FootersOf
    <2>2. f \in Nat /\ SizeOf(c) \in Nat \ {0}
      BY <1>4, SizeOfCell DEF Low, FootersOK
    <2>3. f + FooterBytes <= a \/ a + SizeOf(c) <= f
      BY <1>4 DEF Beyond
    <2>4. f # a /\ ~(f < a + SizeOf(c) /\ a < f + SizeOf(g.mem[f]))
      BY <1>4, <2>1, <2>2, <2>3 DEF FooterBytes
    <2>5. f \in DOMAIN n.mem /\ n.mem[f] = g.mem[f]
      BY <1>1, <2>1, <2>4, WriteCells
    <2> QED
      BY <2>1, <2>5 DEF FootersOf
  <1>5. ASSUME n.fault = "none", a \in Int, NEW f \in FootersOf(n)
        PROVE  f + FooterBytes <= a \/ a + SizeOf(c) <= f
    <2>1. f \in FootersOf(g) /\ f # a
      BY <1>2
    <2>2. SizeOf(g.mem[f]) = FooterBytes
      BY <2>1, SizeOfCell DEF FootersOf
    <2>3. ~(f < a + SizeOf(c) /\ a < f + SizeOf(g.mem[f]))
      <3>1. f \in DOMAIN Write(g.mem, a, c)
        BY <1>1 DEF FootersOf
      <3> QED
        BY <2>1, <3>1 DEF Write
    <2>4. f \in Nat /\ SizeOf(c) \in Nat
      BY <1>1, <1>5, <2>1, SizeOfCell DEF Low, FootersOK
    <2> QED
      BY <1>5, <2>2, <2>3, <2>4 DEF FooterBytes
  <1>6. ASSUME g.fault = "none" => a \in Int /\ Beyond(g, a, SizeOf(c))
        PROVE  FootKept(g, n)
    <2>1. CASE g.fault # "none"
      BY <1>1, <2>1 DEF FootKept, LinksKept
    <2>2. CASE g.fault = "none"
      <3>1. FootersOf(n) = FootersOf(g) /\ \A f \in FootersOf(g) : n.mem[f] = g.mem[f]
        BY <1>2, <1>4, <1>6, <2>2
      <3>2. SameInfo(g, n)
        BY StoreInfo DEF Low
      <3> QED
        BY <3>1, <3>2, SameLinks DEF FootKept
    <2> QED
      BY <2>1, <2>2
  <1> QED
    BY <1>1, <1>3, <1>5, <1>6 DEF Beyond

\* What is written in the nursery goes over no footer.
LEMMA FootYoung ==
    ASSUME NEW g, Low(g), g.fault = "none", NEW a \in Int, heap_start <= a, NEW k
    PROVE  Beyond(g, a, k)
  BY Layout DEF Low, FootersOK, BrkOK, Beyond, FooterBytes

\* Nor does what is written where it is clear of footers.
LEMMA ClearBeyond ==
    ASSUME NEW g, Low(g), g.fault = "none", NEW d \in Int, NEW e \in Int, Clear(g, d, e),
           NEW k \in Nat, k <= PtrBytes \/ d + k <= e
    PROVE  Beyond(g, d, k)
  BY DEF Clear, Beyond, Low, FootersOK, PtrBytes, FooterBytes

\* malloc writes nothing.
LEMMA FootAllocate ==
    ASSUME NEW g, Low(g), NEW size, g.fault = "none" => size \in Nat,
           NEW c, c = allocate(g, size)
    PROVE  /\ Footed(g, c.h) /\ FootKept(g, c.h)
           /\ c.h.mem = g.mem /\ SameInfo(g, c.h) /\ c.start = g.brk /\ HeapShape(c.h)
           /\ c.h.fault = "none" => c.start + size + 8 <= c.h.brk
  <1>1. PICK top : top = AlignUp(g.brk + size) + 8
    OBVIOUS
  <1>2. CASE top < heap_start
    <2>1. c.h = [g EXCEPT !.brk = top] /\ c.start = g.brk
      BY <1>1, <1>2 DEF allocate
    <2>2. /\ HeapShape(c.h) /\ c.h.mem = g.mem /\ SameInfo(g, c.h) /\ c.h.brk = top
          /\ c.h.fault = g.fault
      BY <2>1 DEF Low, HeapShape, SameInfo
    <2>3. ASSUME g.fault = "none"
          PROVE  BrkOK(top) /\ g.brk + size + 8 <= top /\ g.brk <= top
      <3>1. BrkOK(g.brk)
        BY <2>3 DEF Low, FootersOK
      <3>2. g.brk + size \in Int /\ AlignUp(g.brk + size) \in Int
            /\ g.brk + size <= AlignUp(g.brk + size)
        BY <2>3, <3>1, AlignUpBounds DEF BrkOK
      <3>3. top \in Nat /\ g.brk + size + 8 <= top /\ g.brk <= top
        BY <1>1, <2>3, <3>1, <3>2 DEF BrkOK
      <3> QED
        BY <1>2, <3>1, <3>3, Layout DEF BrkOK
    <2>4. FootersOf(c.h) = FootersOf(g)
      BY <2>2 DEF FootersOf
    <2>5. ASSUME g.fault = "none"
          PROVE  FootersOK(c.h)
      BY <2>2, <2>3, <2>4, <2>5 DEF Low, FootersOK, BrkOK, FooterBytes
    <2>6. LinksKept(g, c.h)
      BY <2>2, <2>4, SameLinks
    <2> QED
      BY <2>1, <2>2, <2>3, <2>4, <2>5, <2>6 DEF Footed, FootKept, Low
  <1>3. CASE ~(top < heap_start)
    <2>1. c.h = Fail(g, "exit: malloc failed") /\ c.start = g.brk
      BY <1>1, <1>3 DEF allocate
    <2>2. SameInfo(g, Fail(g, "exit: malloc failed"))
      BY DEF Fail, Low, HeapShape, SameInfo
    <2>3. SameMemory(g, c.h) /\ c.h.fault # "none" /\ SameInfo(g, c.h)
      BY <2>1, <2>2, FailSame DEF Low
    <2>4. Footed(g, c.h) /\ FootKept(g, c.h)
      BY <2>3, FootFail
    <2> QED
      BY <2>1, <2>3, <2>4 DEF SameMemory
  <1> QED
    BY <1>2, <1>3

\* A footer where there was none, of a large enough size.
LEMMA FootStoreFooter ==
    ASSUME NEW g, Low(g), NEW a, NEW r, NEW size, NEW next,
           g.fault = "none" => /\ GoodSize(size) /\ a \in Nat /\ a + FooterBytes <= g.brk
                               /\ Beyond(g, a, FooterBytes),
           NEW n, n = Store(g, a, Footer(r, size - FooterBytes, next))
    PROVE  /\ Low(n) /\ n.brk = g.brk /\ n.fault = g.fault
           /\ n.fault = "none" => /\ FootersOf(n) = FootersOf(g) \cup {a}
                                  /\ n.mem[a] = Footer(r, size - FooterBytes, next)
                                  /\ \A x \in FootersOf(g) : n.mem[x] = g.mem[x] \/ x = a
           /\ n.mem = Write(g.mem, a, Footer(r, size - FooterBytes, next))
           /\ SameInfo(g, n)
  <1>1. PICK c : c = Footer(r, size - FooterBytes, next)
    OBVIOUS
  <1>2. c.tag = "footer" /\ c.size = size - FooterBytes /\ SizeOf(c) = FooterBytes
        /\ c = Footer(c.reg_info, c.size, c.next)
    BY <1>1, FooterShape
  <1>3. HeapShape(n) /\ n.mem = Write(g.mem, a, c) /\ n.brk = g.brk /\ n.fault = g.fault
    BY <1>1, StoreShape DEF Low
  <1>4. ASSUME g.fault = "none"
        PROVE  /\ FootersOf(n) = FootersOf(g) \cup {a} /\ n.mem[a] = c
               /\ \A f \in FootersOf(g) : n.mem[f] = g.mem[f] \/ f = a
    <2>1. \A f \in FootersOf(n) : f \in FootersOf(g) \/ f = a
      BY <1>3, WriteCells DEF FootersOf
    <2>2. a \in FootersOf(n) /\ n.mem[a] = c
      BY <1>2, <1>3, WriteCells DEF FootersOf
    <2>3. ASSUME NEW f \in FootersOf(g), f # a
          PROVE  f \in FootersOf(n) /\ n.mem[f] = g.mem[f]
      <3>1. f \in DOMAIN g.mem /\ g.mem[f].tag = "footer" /\ SizeOf(g.mem[f]) = FooterBytes
        BY SizeOfCell DEF FootersOf
      <3>2. f \in Nat /\ a \in Nat /\ (f + FooterBytes <= a \/ a + FooterBytes <= f)
        BY <1>4 DEF Low, FootersOK, Beyond
      <3>3. ~(f < a + SizeOf(c) /\ a < f + SizeOf(g.mem[f]))
        BY <1>2, <3>1, <3>2 DEF FooterBytes
      <3>4. f \in DOMAIN n.mem /\ n.mem[f] = g.mem[f]
        BY <1>3, <2>3, <3>1, <3>3, WriteCells
      <3> QED
        BY <3>1, <3>4 DEF FootersOf
    <2> QED
      BY <2>1, <2>2, <2>3
  <1>5. ASSUME g.fault = "none"
        PROVE  FootersOK(n)
    <2>1. size \in Nat /\ size >= 57
      BY <1>5, SizesFit
    <2>2. c.size \in Nat /\ c.size + FooterBytes = size
      BY <1>2, <2>1 DEF FooterBytes
    <2>3. FootersOK(g)
      BY <1>5 DEF Low
    <2>4. GoodSize(c.size + FooterBytes)
      BY <1>5, <2>2
    <2>5. ASSUME NEW f \in FootersOf(n)
          PROVE  /\ f \in Nat /\ f + FooterBytes <= n.brk
                 /\ n.mem[f] = Footer(n.mem[f].reg_info, n.mem[f].size, n.mem[f].next)
                 /\ n.mem[f].size \in Nat /\ GoodSize(n.mem[f].size + FooterBytes)
      <3>1. CASE f = a
        BY <1>2, <1>3, <1>4, <1>5, <2>2, <2>4, <3>1
      <3>2. CASE f # a
        <4>1. f \in FootersOf(g) /\ n.mem[f] = g.mem[f]
          BY <1>4, <1>5, <3>2
        <4> QED
          BY <1>3, <2>3, <4>1 DEF FootersOK
      <3> QED
        BY <3>1, <3>2
    <2> QED
      BY <1>3, <2>3, <2>5 DEF FootersOK
  <1>6. SameInfo(g, n)
    BY StoreInfo DEF Low
  <1> QED
    BY <1>1, <1>3, <1>4, <1>5, <1>6 DEF Low

\* A first chunk has its footer at its end, and nothing else is written
\* (allocate_first_chunk).
LEMMA FootFirst ==
    ASSUME NEW g, Low(g), NEW size, GoodSize(size), NEW refcount \in Counts,
           NEW c, c = allocate_first_chunk(g, size, refcount)
    PROVE  /\ Footed(g, c.h) /\ FootKept(g, c.h) /\ c.dst = g.brk
           /\ c.h.fault = "none" => /\ NewChunk(g, c, size) /\ c.dst_end \in Nat
                                    /\ EndOK(c.h, c.dst, c.dst_end)
                                    /\ Linked(g) => Len(c.h.regs) \in DOMAIN c.h.regs
  <1>1. size \in Nat /\ size >= 57
    BY SizesFit
  <1>2. PICK t : t = allocate(g, size)
    OBVIOUS
  <1>3. PICK k, start : k = t.h /\ start = t.start
    OBVIOUS
  <1>4. /\ Footed(g, k) /\ FootKept(g, k) /\ k.mem = g.mem /\ SameInfo(g, k) /\ start = g.brk /\ HeapShape(k)
        /\ k.fault = "none" => start + size + 8 <= k.brk
    BY <1>1, <1>2, <1>3, FootAllocate
  <1>5. PICK e : e = start + size
    OBVIOUS
  <1>6. PICK f : f = e - FooterBytes
    OBVIOUS
  <1>7. PICK n : n = Store(k, f, Footer(Len(k.regs) + 1, size - FooterBytes, 0))
    OBVIOUS
  <1>8. c.h = init_footer_at(k, e, size, refcount) /\ c.dst = start
        /\ c.dst_end = start + size - FooterBytes
    <2>1. c = [h |-> init_footer_at(k, e, size, refcount),
               dst |-> start, dst_end |-> start + size - FooterBytes]
      BY <1>2, <1>3, <1>5 DEF allocate_first_chunk
    <2> QED
      BY <2>1
  <1>9. /\ SameMemory(n, c.h) /\ c.h.fault = n.fault
        /\ c.h.regs = Append(k.regs, [refcount |-> refcount, outset |-> {}, first |-> f])
        /\ c.h.old_zct = k.old_zct /\ c.h.new_zct = k.new_zct
    <2>1. PICK cell : cell = Footer(Len(k.regs) + 1, size - FooterBytes, 0)
      OBVIOUS
    <2>2. PICK info : info = [refcount |-> refcount, outset |-> {}, first |-> f]
      OBVIOUS
    <2>3. c.h = [k EXCEPT !.mem = Write(@, f, cell), !.regs = Append(@, info)]
      BY <1>6, <1>8, <2>1, <2>2, Zenon DEF init_footer_at
    <2>4. n = [k EXCEPT !.mem = Write(@, f, cell)]
      BY <1>7, <2>1, Zenon DEF Store
    <2> QED
      BY <1>4, <2>2, <2>3, <2>4 DEF SameMemory, HeapShape
  <1>10. Low(k)
    BY <1>4 DEF Footed
  <1>11. ASSUME k.fault = "none"
         PROVE  /\ g.fault = "none" /\ g.brk \in Nat /\ k.brk \in Nat
                /\ f \in Nat /\ f + FooterBytes <= k.brk /\ g.brk + PtrBytes <= f
                /\ c.dst_end = f
                /\ FootersOf(k) = FootersOf(g)
                /\ \A x \in FootersOf(g) : x \in Nat /\ x + FooterBytes <= g.brk
    <2>1. g.fault = "none" /\ FootersOK(g) /\ FootersOK(k)
      BY <1>4, <1>10, <1>11 DEF Footed, Low
    <2>2. g.brk \in Nat /\ k.brk \in Nat
      BY <2>1 DEF FootersOK, BrkOK
    <2>3. f \in Nat /\ f + FooterBytes <= k.brk /\ g.brk + PtrBytes <= f /\ c.dst_end = f
      BY <1>1, <1>4, <1>5, <1>6, <1>8, <1>11, <2>2 DEF FooterBytes, PtrBytes
    <2> QED
      BY <1>4, <2>1, <2>2, <2>3 DEF FootersOK, FootersOf
  <1>12. /\ Low(n) /\ n.brk = k.brk /\ n.fault = k.fault
         /\ n.fault = "none" => /\ FootersOf(n) = FootersOf(k) \cup {f}
                                /\ n.mem[f] = Footer(Len(k.regs) + 1, size - FooterBytes, 0)
                                /\ \A x \in FootersOf(k) : n.mem[x] = k.mem[x] \/ x = f
    <2>1. ASSUME k.fault = "none"
          PROVE  Beyond(k, f, FooterBytes)
      BY <1>11, <2>1 DEF Beyond, PtrBytes, FooterBytes
    <2>2. k.fault = "none" => /\ GoodSize(size) /\ f \in Nat /\ f + FooterBytes <= k.brk
                              /\ Beyond(k, f, FooterBytes)
      BY <1>11, <2>1
    <2> QED
      BY <1>7, <1>10, <2>2, FootStoreFooter
  <1>13. Low(c.h) /\ FootersOf(c.h) = FootersOf(n) /\ c.h.brk = n.brk
    BY <1>9, <1>12, FootSame DEF Footed, SameMemory
  <1>14. ASSUME c.h.fault = "none"
         PROVE  /\ g.fault = "none" /\ g.brk <= c.h.brk
                /\ FootersOf(c.h) = FootersOf(g) \cup {f} /\ g.brk <= f
                /\ NewChunk(g, c, size) /\ f \in Nat /\ c.dst_end = f
                /\ EndOK(c.h, c.dst, f)
    <2>1. k.fault = "none" /\ n.fault = "none"
      BY <1>9, <1>12, <1>14
    <2>2. FootersOf(c.h) = FootersOf(g) \cup {f}
      BY <1>11, <1>12, <1>13, <2>1
    <2>3. g.fault = "none" /\ g.brk <= c.h.brk /\ g.brk <= f
      BY <1>4, <1>11, <1>12, <1>13, <2>1 DEF PtrBytes, FooterBytes
    <2>4. NewChunk(g, c, size)
      <3>1. c.dst = g.brk /\ c.dst_end + FooterBytes <= c.h.brk
        BY <1>4, <1>8, <1>11, <1>12, <1>13, <2>1
      <3>2. c.dst_end = c.dst + size - FooterBytes
        BY <1>8
      <3> QED
        BY <3>1, <3>2 DEF NewChunk
    <2>5. IsFooter(c.h, f)
      BY <2>2 DEF FootersOf, IsFooter, Tag
    <2>6. Clear(c.h, c.dst, f)
      BY <1>4, <1>8, <1>11, <2>1, <2>2 DEF Clear
    <2>7. c.dst_end = f /\ f \in Nat
      BY <1>11, <2>1
    <2> QED
      BY <2>2, <2>3, <2>4, <2>5, <2>6, <2>7 DEF EndOK
  <1>15. ASSUME c.h.fault = "none", Linked(g)
         PROVE  Linked(c.h) /\ Len(c.h.regs) \in DOMAIN c.h.regs
    <2>1. k.fault = "none" /\ n.fault = "none" /\ c.h.mem = n.mem
      BY <1>9, <1>12, <1>15 DEF SameMemory
    <2>2. Linked(k)
      BY <1>4, <1>15, <2>1 DEF FootKept, LinksKept
    <2>3. c.h.mem[f].reg_info = Len(k.regs) + 1 /\ c.h.mem[f].next = 0
      BY <1>12, <2>1 DEF Footer
    <2>4. /\ FootersOf(c.h) = FootersOf(k) \cup {f} /\ f \in Nat
          /\ \A x \in FootersOf(k) : c.h.mem[x] = k.mem[x] \/ x = f
      BY <1>11, <1>12, <1>13, <2>1
    <2> QED
      BY <1>9, <2>2, <2>3, <2>4, RegionLinks
  <1>16. Footed(g, c.h) /\ FootKept(g, c.h)
    BY <1>13, <1>14, <1>15 DEF Footed, FootKept, LinksKept
  <1> QED
    BY <1>4, <1>8, <1>14, <1>15, <1>16

\* So does a fresh region (FreshRegion).
LEMMA FootFresh ==
    ASSUME NEW g, Low(g), NEW size, GoodSize(size), NEW refcount \in Counts,
           NEW c, c = FreshRegion(g, size, refcount)
    PROVE  /\ Footed(g, c.h) /\ FootKept(g, c.h) /\ c.dst = g.brk
           /\ c.h.fault = "none" => /\ NewChunk(g, c, size) /\ c.dst_end \in Nat
                                    /\ EndOK(c.h, c.dst, c.dst_end)
           /\ c = [h |-> c.h, dst |-> c.dst, dst_end |-> c.dst_end]
  <1>1. PICK d : d = allocate_first_chunk(g, size, refcount)
    OBVIOUS
  <1>2. /\ Footed(g, d.h) /\ FootKept(g, d.h) /\ d.dst = g.brk
        /\ d.h.fault = "none" => /\ NewChunk(g, d, size) /\ d.dst_end \in Nat
                                 /\ EndOK(d.h, d.dst, d.dst_end)
                                 /\ Linked(g) => Len(d.h.regs) \in DOMAIN d.h.regs
    BY <1>1, FootFirst
  <1>3. c = [d EXCEPT !.h = insert_new_zct(@, Len(@.regs))]
    BY <1>1 DEF FreshRegion
  <1>4. d = [h |-> d.h, dst |-> d.dst, dst_end |-> d.dst_end]
    BY <1>1 DEF allocate_first_chunk
  <1>5. c.dst = d.dst /\ c.dst_end = d.dst_end /\ c.h = insert_new_zct(d.h, Len(d.h.regs))
        /\ c = [h |-> c.h, dst |-> c.dst, dst_end |-> c.dst_end]
    BY <1>3, <1>4
  <1>6. SameMemory(d.h, c.h) /\ Low(d.h)
    BY <1>2, <1>5, MetadataSame DEF Footed, Low
  <1>7. Footed(d.h, c.h) /\ FootersOf(c.h) = FootersOf(d.h)
    BY <1>6, FootSame
  <1>8. Footed(g, c.h) /\ FootKept(g, c.h)
    <2>1. Footed(g, c.h)
      BY <1>2, <1>7, FootTrans
    <2>2. ASSUME c.h.fault = "none", Linked(g)
          PROVE  Linked(c.h)
      <3>1. Linked(d.h) /\ Len(d.h.regs) \in DOMAIN d.h.regs
        BY <1>2, <1>6, <2>2 DEF SameMemory, FootKept, LinksKept
      <3> QED
        BY <1>5, <1>6, <3>1, ZctLinks DEF Low
    <2>3. c.h.fault = "none" => FootersOf(g) \subseteq FootersOf(c.h)
      BY <1>2, <1>6, <1>7 DEF FootKept, SameMemory
    <2> QED
      BY <2>1, <2>2, <2>3 DEF FootKept, LinksKept
  <1>9. c.h.fault = "none" => /\ NewChunk(g, c, size) /\ c.dst_end \in Nat
                              /\ EndOK(c.h, c.dst, c.dst_end)
    BY <1>2, <1>5, <1>6, <1>7 DEF NewChunk, SameMemory, EndOK, Clear, IsFooter, Tag
  <1> QED
    BY <1>2, <1>5, <1>8, <1>9

\* A change of one footer's metadata leaves it a footer.
LEMMA FootRelink ==
    ASSUME NEW g, Low(g), NEW n, HeapShape(n), n.brk = g.brk, n.fault = g.fault,
           NEW f, g.fault = "none" => Relinked(g.mem, n.mem, f)
    PROVE  /\ Footed(g, n) /\ (n.fault = "none" => FootersOf(n) = FootersOf(g))
           /\ /\ SameInfo(g, n)
              /\ n.fault = "none" /\ Linked(g) =>
                   /\ n.mem[f].reg_info \in DOMAIN g.regs
                   /\ n.mem[f].next = 0 \/ n.mem[f].next \in FootersOf(g)
              => FootKept(g, n)
  <1>1. ASSUME g.fault = "none"
        PROVE  FootersOf(n) = FootersOf(g) /\ FootersOK(n)
    <2>1. /\ DOMAIN n.mem = DOMAIN g.mem
          /\ \A b \in DOMAIN g.mem : b # f => n.mem[b] = g.mem[b]
      BY <1>1 DEF Relinked
    <2>2. ASSUME f \in DOMAIN g.mem
          PROVE  /\ g.mem[f].tag = "footer" /\ n.mem[f].tag = "footer"
                 /\ n.mem[f].size = g.mem[f].size
                 /\ n.mem[f] = Footer(n.mem[f].reg_info, n.mem[f].size, n.mem[f].next)
      <3>1. PICK r, x : n.mem[f] = Footer(r, g.mem[f].size, x)
        BY <1>1, <2>2 DEF Relinked
      <3>2. g.mem[f].tag = "footer"
        BY <1>1, <2>2 DEF Relinked
      <3> QED
        BY <3>1, <3>2, FooterShape
    <2>3. FootersOf(n) = FootersOf(g)
      BY <2>1, <2>2 DEF FootersOf
    <2>4. FootersOK(g)
      BY <1>1 DEF Low
    <2>5. ASSUME NEW b \in FootersOf(n)
          PROVE  /\ b \in Nat /\ b + FooterBytes <= n.brk
                 /\ n.mem[b] = Footer(n.mem[b].reg_info, n.mem[b].size, n.mem[b].next)
                 /\ n.mem[b].size \in Nat /\ GoodSize(n.mem[b].size + FooterBytes)
      <3>1. b \in FootersOf(g) /\ b \in DOMAIN g.mem
        BY <2>3 DEF FootersOf
      <3>2. /\ b \in Nat /\ b + FooterBytes <= g.brk
            /\ g.mem[b] = Footer(g.mem[b].reg_info, g.mem[b].size, g.mem[b].next)
            /\ g.mem[b].size \in Nat /\ GoodSize(g.mem[b].size + FooterBytes)
        BY <2>4, <3>1 DEF FootersOK
      <3>3. CASE b = f
        BY <2>2, <3>1, <3>2, <3>3
      <3>4. CASE b # f
        BY <2>1, <3>1, <3>2, <3>4
      <3> QED
        BY <3>3, <3>4
    <2> QED
      BY <2>3, <2>4, <2>5 DEF FootersOK
  <1>2. ASSUME g.fault = "none"
        PROVE  g.brk <= n.brk
    BY <1>2 DEF Low, FootersOK, BrkOK
  <1>3. ASSUME SameInfo(g, n), n.fault = "none", Linked(g),
               n.mem[f].reg_info \in DOMAIN g.regs,
               n.mem[f].next = 0 \/ n.mem[f].next \in FootersOf(g)
        PROVE  Linked(n)
    <2>1. \A b \in FootersOf(g) : b # f => n.mem[b] = g.mem[b]
      BY <1>3 DEF Relinked, FootersOf
    <2> QED
      BY <1>1, <1>3, <2>1 DEF Linked, SameInfo
  <1> QED
    BY <1>1, <1>2, <1>3 DEF Footed, FootKept, LinksKept, Low

\* A linked chunk has its footer at its end; the redirection that leads to it goes over
\* no footer where there was room for it.
LEMMA FootLink ==
    ASSUME NEW g, Low(g), NEW a, NEW f, IsFooter(g, f),
           NEW size, NEW c, c = LinkChunk(g, a, f, size),
           g.fault = "none" => GoodSize(size) /\ a \in Nat /\ a + PtrBytes <= g.brk
    PROVE  /\ Footed(g, c.h) /\ c.dst = g.brk
           /\ (g.fault = "none" => Beyond(g, a, PtrBytes)) => FootKept(g, c.h)
           /\ c.h.fault = "none" => /\ NewChunk(g, c, size) /\ c.dst_end \in Nat
                                    /\ EndOK(c.h, c.dst, c.dst_end)
  <1>1. PICK t : t = allocate(g, size)
    OBVIOUS
  <1>2. PICK k, start : k = t.h /\ start = t.start
    OBVIOUS
  <1>3. g.fault = "none" => size \in Nat /\ size >= 57
    BY SizesFit
  <1>4. /\ Footed(g, k) /\ FootKept(g, k) /\ k.mem = g.mem /\ SameInfo(g, k) /\ start = g.brk /\ HeapShape(k)
        /\ k.fault = "none" => start + size + 8 <= k.brk
    BY <1>1, <1>2, <1>3, FootAllocate
  <1>5. PICK e : e = start + size - FooterBytes
    OBVIOUS
  <1>6. PICK r : r = RegOf(g, f)
    OBVIOUS
  <1>7. PICK n1 : n1 = Store(k, e, Footer(r, size - FooterBytes, 0))
    OBVIOUS
  <1>8. PICK n2 : n2 = [n1 EXCEPT !.mem = [n1.mem EXCEPT ![f] = [@ EXCEPT !.next = e]]]
    OBVIOUS
  <1>9. PICK cell : cell = PtrCell("REDIRECTION", start, e - start)
    OBVIOUS
  <1>10. PICK n3 : n3 = Store(n2, a, cell)
    OBVIOUS
  <1>11. c.h = n3 /\ c.dst = start /\ c.dst_end = e
    <2>1. c = [h |-> [k EXCEPT !.mem =
                        Write([Write(k.mem, e, Footer(r, size - FooterBytes, 0))
                                 EXCEPT ![f] = [@ EXCEPT !.next = e]], a, cell)],
               dst |-> start, dst_end |-> e]
      BY <1>1, <1>2, <1>5, <1>6, <1>9 DEF LinkChunk
    <2>2. PICK m : m = Write(k.mem, e, Footer(r, size - FooterBytes, 0))
      OBVIOUS
    <2>3. PICK m2 : m2 = [m EXCEPT ![f] = [@ EXCEPT !.next = e]]
      OBVIOUS
    <2>4. PICK m3 : m3 = Write(m2, a, cell)
      OBVIOUS
    <2>5. c = [h |-> [k EXCEPT !.mem = m3], dst |-> start, dst_end |-> e]
      BY <2>1, <2>2, <2>3, <2>4
    <2>6. c.h = [k EXCEPT !.mem = m3] /\ c.dst = start /\ c.dst_end = e
      BY <2>5
    <2>7. HeapShape(k)
      BY <1>4
    <2>8. n1 = [k EXCEPT !.mem = m] /\ n1.mem = m /\ HeapShape(n1)
      BY <1>7, <2>2, <2>7 DEF Store, HeapShape
    <2>9. n2 = [n1 EXCEPT !.mem = m2]
      BY <1>8, <2>3, <2>8
    <2>10. n2 = [k EXCEPT !.mem = m2]
      BY <2>7, <2>8, <2>9 DEF HeapShape
    <2>11. n3 = [k EXCEPT !.mem = m3]
      BY <1>10, <2>4, <2>7, <2>10 DEF HeapShape, Store
    <2> QED
      BY <2>6, <2>11
  <1>12. Low(k)
    BY <1>4 DEF Footed
  <1>13. ASSUME k.fault = "none"
         PROVE  /\ g.fault = "none" /\ g.brk \in Nat /\ k.brk \in Nat
                /\ e \in Nat /\ e + FooterBytes <= k.brk /\ g.brk + PtrBytes <= e
                /\ FootersOf(k) = FootersOf(g)
                /\ \A x \in FootersOf(g) : x \in Nat /\ x + FooterBytes <= g.brk
    <2>1. g.fault = "none" /\ FootersOK(g) /\ FootersOK(k)
      BY <1>4, <1>12, <1>13 DEF Footed, Low
    <2>2. g.brk \in Nat /\ k.brk \in Nat
      BY <2>1 DEF FootersOK, BrkOK
    <2>3. e \in Nat /\ e + FooterBytes <= k.brk /\ g.brk + PtrBytes <= e
      BY <1>3, <1>4, <1>5, <1>13, <2>1, <2>2 DEF FooterBytes, PtrBytes
    <2> QED
      BY <1>4, <2>1, <2>2, <2>3 DEF FootersOK, FootersOf
  <1>14. /\ Low(n1) /\ n1.brk = k.brk /\ n1.fault = k.fault /\ SameInfo(k, n1)
         /\ n1.fault = "none" => /\ FootersOf(n1) = FootersOf(k) \cup {e}
                                 /\ n1.mem[e] = Footer(r, size - FooterBytes, 0)
                                 /\ \A x \in FootersOf(k) : n1.mem[x] = k.mem[x] \/ x = e
    <2>1. ASSUME k.fault = "none"
          PROVE  Beyond(k, e, FooterBytes)
      BY <1>13, <2>1 DEF Beyond, PtrBytes, FooterBytes
    <2>2. k.fault = "none" => /\ GoodSize(size) /\ e \in Nat /\ e + FooterBytes <= k.brk
                              /\ Beyond(k, e, FooterBytes)
      BY <1>13, <2>1
    <2> QED
      BY <1>7, <1>12, <2>2, FootStoreFooter
  <1>15. /\ Footed(n1, n2) /\ FootKept(g, n1) /\ FootKept(n1, n2) /\ n2.brk = n1.brk /\ n2.fault = n1.fault
         /\ n2.fault = "none" => FootersOf(n2) = FootersOf(n1)
    <2>1. PICK m : m = n1.mem
      OBVIOUS
    <2>2. PICK m2 : m2 = [m EXCEPT ![f] = [@ EXCEPT !.next = e]]
      OBVIOUS
    <2>3. n2 = [n1 EXCEPT !.mem = m2]
      BY <1>8, <2>1, <2>2
    <2>4. /\ HeapShape(n2) /\ n2.mem = m2 /\ n2.brk = n1.brk /\ n2.fault = n1.fault
          /\ SameInfo(n1, n2)
      BY <1>14, <2>3 DEF Low, HeapShape, SameInfo
    <2>5. ASSUME n1.fault = "none"
          PROVE  Relinked(m, m2, f)
      <3>1. FootersOK(n1) /\ FootersOf(n1) = FootersOf(g) \cup {e}
        BY <1>13, <1>14, <2>5 DEF Low
      <3>2. f \in FootersOf(g)
        BY DEF IsFooter, Tag, FootersOf
      <3>3. f \in FootersOf(n1)
        BY <3>1, <3>2
      <3>4. PICK o : o = m[f]
        OBVIOUS
      <3>5. f \in DOMAIN m /\ o.tag = "footer" /\ o = Footer(o.reg_info, o.size, o.next)
        BY <2>1, <3>1, <3>3, <3>4 DEF FootersOK, FootersOf
      <3>6. m2[f] = [o EXCEPT !.next = e]
        BY <2>2, <3>4, <3>5
      <3>7. [o EXCEPT !.next = e] = Footer(o.reg_info, o.size, e)
        BY <3>5 DEF Footer
      <3>8. DOMAIN m2 = DOMAIN m /\ \A b \in DOMAIN m : b # f => m2[b] = m[b]
        BY <2>2
      <3> QED
        BY <3>4, <3>5, <3>6, <3>7, <3>8 DEF Relinked
    <2>6. n1.fault = "none" => e \in FootersOf(n1) /\ f \in FootersOf(n1)
      BY <1>13, <1>14 DEF IsFooter, Tag, FootersOf
    <2>7. ASSUME n1.fault = "none", Linked(g)
          PROVE  Linked(n1)
      <3>1. Linked(k) /\ r \in DOMAIN g.regs
        BY <1>4, <1>6, <1>14, <2>7, FooterLinked DEF FootKept, LinksKept
      <3>2. n1.mem[e].reg_info = r /\ n1.mem[e].next = 0 /\ r \in DOMAIN k.regs
        BY <1>4, <1>14, <2>7, <3>1 DEF Footer, SameInfo
      <3> QED
        BY <1>14, <2>7, <3>1, <3>2, ChunkLinks
    <2>8. FootKept(g, n1)
      BY <1>13, <1>14, <2>7 DEF FootKept, LinksKept
    <2>9. ASSUME n1.fault = "none", Linked(n1)
          PROVE  n2.mem[f].reg_info \in DOMAIN n1.regs /\ n2.mem[f].next \in FootersOf(n1)
      <3>1. f \in DOMAIN m /\ FootersOK(n1) /\ m[f].reg_info \in DOMAIN n1.regs
        BY <1>14, <2>1, <2>6, <2>9 DEF FootersOf, Low, Linked
      <3>2. PICK o : o = m[f]
        OBVIOUS
      <3>3. m2[f] = [o EXCEPT !.next = e] /\ o = Footer(o.reg_info, o.size, o.next)
        BY <2>1, <2>2, <2>6, <2>9, <3>1, <3>2 DEF FootersOK
      <3>4. m2[f].reg_info = o.reg_info /\ m2[f].next = e
        BY <3>3 DEF Footer
      <3> QED
        BY <2>4, <2>6, <2>9, <3>1, <3>2, <3>4
    <2>10. Footed(n1, n2) /\ FootKept(n1, n2) /\ (n2.fault = "none" => FootersOf(n2) = FootersOf(n1))
      BY <1>14, <2>1, <2>4, <2>5, <2>9, FootRelink
    <2> QED
      BY <2>4, <2>8, <2>10
  <1>16. Low(n2)
    BY <1>15 DEF Footed
  <1>17. cell.tag = "REDIRECTION" /\ SizeOf(cell) = PtrBytes
    BY <1>9, PtrShape
  <1>18. /\ Footed(n2, n3) /\ n3.brk = n2.brk /\ n3.fault = n2.fault
         /\ (n2.fault = "none" => a \in Int /\ Beyond(n2, a, PtrBytes)) => FootKept(n2, n3)
    BY <1>10, <1>16, <1>17, FootStore
  <1>19. ASSUME n3.fault = "none"
         PROVE  /\ g.fault = "none" /\ g.brk <= n3.brk /\ g.brk \in Nat
                /\ FootersOf(n2) = FootersOf(g) \cup {e}
                /\ FootersOf(n3) \subseteq FootersOf(g) \cup {e} /\ e \in FootersOf(n3)
                /\ Beyond(g, a, PtrBytes) => FootersOf(g) \subseteq FootersOf(n3)
                /\ NewChunk(g, c, size) /\ EndOK(n3, start, e) /\ e \in Nat
    <2>1. k.fault = "none" /\ n1.fault = "none" /\ n2.fault = "none"
      BY <1>14, <1>15, <1>18, <1>19
    <2>2. g.fault = "none" /\ g.brk \in Nat /\ e \in Nat /\ g.brk <= n3.brk /\ g.brk + PtrBytes <= e
      BY <1>13, <1>14, <1>15, <1>18, <2>1 DEF PtrBytes, FooterBytes
    <2>3. FootersOf(n2) = FootersOf(g) \cup {e}
      BY <1>13, <1>14, <1>15, <2>1
    <2>4. a \in Nat /\ a + PtrBytes <= g.brk
      BY <2>2
    <2>5. e \in FootersOf(n3) /\ FootersOf(n3) \subseteq FootersOf(g) \cup {e}
      <3>1. n3.mem = Write(n2.mem, a, cell)
        BY <1>10, <1>16, StoreShape DEF Low
      <3>2. e \in DOMAIN n2.mem /\ n2.mem[e].tag = "footer" /\ SizeOf(n2.mem[e]) = FooterBytes
        BY <2>3, SizeOfCell DEF FootersOf
      <3>3. e # a /\ ~(e < a + SizeOf(cell) /\ a < e + SizeOf(n2.mem[e]))
        BY <1>17, <2>2, <2>4, <3>2 DEF PtrBytes, FooterBytes
      <3>4. e \in DOMAIN n3.mem /\ n3.mem[e] = n2.mem[e]
        BY <3>1, <3>2, <3>3, WriteCells
      <3>5. \A x \in FootersOf(n3) : x \in FootersOf(n2)
        BY <1>17, <3>1, WriteCells DEF FootersOf
      <3> QED
        BY <2>3, <3>2, <3>4, <3>5 DEF FootersOf
    <2>6. ASSUME Beyond(g, a, PtrBytes)
          PROVE  FootersOf(g) \subseteq FootersOf(n3)
      <3>1. Beyond(n2, a, PtrBytes)
        BY <2>2, <2>3, <2>4, <2>6 DEF Beyond, PtrBytes
      <3>2. FootKept(n2, n3)
        BY <1>18, <2>4, <3>1
      <3> QED
        BY <1>19, <2>3, <3>2 DEF FootKept
    <2>7. Clear(n3, start, e)
      BY <1>4, <1>13, <2>1, <2>2, <2>5 DEF Clear
    <2>8. IsFooter(n3, e)
      BY <2>5 DEF IsFooter, Tag, FootersOf
    <2>9. NewChunk(g, c, size)
      BY <1>4, <1>5, <1>11, <1>13, <1>14, <1>15, <1>18, <2>1 DEF NewChunk
    <2> QED
      BY <2>2, <2>3, <2>5, <2>6, <2>7, <2>8, <2>9 DEF EndOK
  <1>20. Footed(g, n3)
    <2>1. Low(n3)
      BY <1>18 DEF Footed
    <2>2. ASSUME n3.fault = "none"
          PROVE  \A x \in FootersOf(n3) : x \in FootersOf(g) \/ g.brk <= x
      BY <1>13, <1>14, <1>15, <1>18, <1>19, <2>2 DEF PtrBytes
    <2> QED
      BY <1>19, <2>1, <2>2 DEF Footed
  <1>21. ASSUME g.fault = "none" => Beyond(g, a, PtrBytes)
         PROVE  FootKept(g, n3)
    <2>1. ASSUME n2.fault = "none"
          PROVE  a \in Int /\ Beyond(n2, a, PtrBytes)
      <3>1. g.fault = "none" /\ g.brk + PtrBytes <= e /\ FootersOf(n2) = FootersOf(g) \cup {e}
            /\ e \in Nat /\ g.brk \in Nat
        BY <1>13, <1>14, <1>15, <2>1
      <3>2. a \in Nat /\ a + PtrBytes <= g.brk
        BY <3>1
      <3> QED
        BY <1>21, <3>1, <3>2 DEF Beyond, PtrBytes
    <2>2. FootKept(n2, n3)
      BY <1>18, <2>1
    <2>3. LinksKept(g, n3)
      BY <1>15, <1>18, <2>2 DEF FootKept, LinksKept
    <2> QED
      BY <1>19, <1>21, <2>3 DEF FootKept
  <1> QED
    BY <1>4, <1>11, <1>19, <1>20, <1>21

\* The next chunk is large enough.
LEMMA FootNextSize ==
    ASSUME NEW g, Low(g), g.fault = "none", NEW f, IsFooter(g, f)
    PROVE  Roomy(NextChunkSize(g, f))
  <1>1. f \in FootersOf(g)
    BY DEF IsFooter, Tag, FootersOf
  <1>2. GoodSize(g.mem[f].size + FooterBytes)
    BY <1>1 DEF Low, FootersOK
  <1> QED
    BY <1>2, SizesFit DEF NextChunkSize

\* A bounds check goes over no footer, and leaves room before one (check_bounds).
LEMMA FootCheck ==
    ASSUME NEW g, Low(g), NEW n, Space(n), NEW d, NEW e,
           g.fault = "none" => EndOK(g, d, e) /\ d \in Nat /\ d + PtrBytes <= g.brk /\ d <= e,
           NEW c, c = check_bounds(g, n, d, e)
    PROVE  /\ Footed(g, c.h) /\ FootKept(g, c.h)
           /\ c.h.fault = "none" => /\ EndOK(c.h, c.dst, c.dst_end)
                                    /\ c.dst \in Nat /\ c.dst_end \in Nat /\ e \in Nat
                                    /\ c.dst + n <= c.dst_end /\ e <= c.dst_end
  <1>1. n \in Nat /\ n >= 32 /\ \A size : Roomy(size) => n + FooterBytes <= size
    BY SpaceFits
  <1>2. ASSUME g.fault = "none"
        PROVE  e \in Nat /\ d \in Nat /\ e + FooterBytes <= g.brk /\ g.brk \in Nat /\ IsFooter(g, e)
    <2>1. e \in FootersOf(g)
      BY <1>2 DEF EndOK, IsFooter, Tag, FootersOf
    <2> QED
      BY <1>2, <2>1 DEF Low, FootersOK, BrkOK, EndOK
  <1>3. CASE d > e \/ e - d >= n
    <2>1. c.h = g /\ c.dst = d /\ c.dst_end = e
      BY <1>3 DEF check_bounds
    <2>2. Footed(g, g) /\ FootKept(g, g)
      BY FootRefl
    <2>3. g.fault = "none" => d + n <= e /\ e <= e
      BY <1>1, <1>2, <1>3
    <2> QED
      BY <1>2, <2>1, <2>2, <2>3
  <1>4. CASE ~(d > e \/ e - d >= n) /\ ~IsFooter(g, e)
    <2>1. c.h = Fail(g, "wild")
      BY <1>4 DEF check_bounds
    <2>2. SameMemory(g, c.h) /\ c.h.fault # "none"
      BY <2>1, FailSame DEF Low
    <2> QED
      BY <2>2, FootFail
  <1>5. CASE ~(d > e \/ e - d >= n) /\ IsFooter(g, e)
    <2>1. PICK size : size = NextChunkSize(g, e)
      OBVIOUS
    <2>2. c = LinkChunk(g, d, e, size)
      BY <1>5, <2>1 DEF check_bounds
    <2>3. g.fault = "none" => Roomy(size)
      BY <1>5, <2>1, FootNextSize
    <2>4. ASSUME g.fault = "none"
          PROVE  Beyond(g, d, PtrBytes)
      <3>1. Clear(g, d, e) /\ d \in Int /\ e \in Int
        BY <1>2, <2>4 DEF EndOK
      <3> QED
        BY <2>4, <3>1, ClearBeyond DEF PtrBytes
    <2>5. g.fault = "none" => GoodSize(size) /\ d \in Nat /\ d + PtrBytes <= g.brk
      BY <2>3 DEF Roomy
    <2>6. /\ Footed(g, c.h) /\ FootKept(g, c.h) /\ c.dst = g.brk
          /\ c.h.fault = "none" => /\ NewChunk(g, c, size) /\ c.dst_end \in Nat
                                   /\ EndOK(c.h, c.dst, c.dst_end)
      BY <1>5, <2>2, <2>4, <2>5, FootLink
    <2>7. ASSUME c.h.fault = "none"
          PROVE  c.dst \in Nat /\ c.dst + n <= c.dst_end /\ e <= c.dst_end /\ e \in Nat
      <3>1. g.fault = "none"
        BY <2>6, <2>7 DEF Footed
      <3>2. size \in Nat /\ n + FooterBytes <= size
        BY <1>1, <2>3, <3>1, SizesFit DEF Roomy
      <3> QED
        BY <1>1, <1>2, <2>6, <2>7, <3>1, <3>2 DEF NewChunk, FooterBytes
    <2> QED
      BY <2>6, <2>7
  <1> QED
    BY <1>3, <1>4, <1>5

\* After a bounds check a cell is copied over no footer, and there is still room for a
\* redirection behind it.
LEMMA FootCopy ==
    ASSUME NEW g, Low(g), NEW n, Space(n), NEW d, NEW e,
           g.fault = "none" => EndOK(g, d, e) /\ d \in Nat /\ d + PtrBytes <= g.brk /\ d <= e,
           NEW c, c = check_bounds(g, n, d, e),
           NEW cell, cell.tag # "footer", SizeOf(cell) + PtrBytes <= n,
           NEW k, k = Store(c.h, c.dst, cell)
    PROVE  /\ Footed(g, k) /\ FootKept(g, k)
           /\ k.fault = "none" => /\ EndOK(k, c.dst + SizeOf(cell), c.dst_end)
                                  /\ Clear(k, c.dst + SizeOf(cell), e)
                                  /\ c.dst \in Nat /\ c.dst_end \in Nat
                                  /\ c.dst + SizeOf(cell) <= c.dst_end
                                  /\ c.dst + SizeOf(cell) + PtrBytes <= k.brk
  <1>1. /\ Footed(g, c.h) /\ FootKept(g, c.h)
        /\ c.h.fault = "none" => /\ EndOK(c.h, c.dst, c.dst_end)
                                 /\ c.dst \in Nat /\ c.dst_end \in Nat /\ e \in Nat
                                 /\ c.dst + n <= c.dst_end /\ e <= c.dst_end
    BY FootCheck
  <1>2. PICK m : m = SizeOf(cell)
    OBVIOUS
  <1>3. m \in Nat /\ m # 0 /\ n \in Nat
    BY <1>2, SizeOfCell, SpaceFits
  <1>4. Low(c.h)
    BY <1>1 DEF Footed
  <1>5. ASSUME c.h.fault = "none"
        PROVE  c.dst \in Int /\ Beyond(c.h, c.dst, m) /\ c.dst + m + PtrBytes <= c.dst_end
    <2>1. c.dst + m + PtrBytes <= c.dst_end
      BY <1>1, <1>2, <1>3, <1>5 DEF PtrBytes
    <2>2. c.dst + m <= c.dst_end
      BY <1>1, <1>3, <1>5, <2>1 DEF PtrBytes
    <2> QED
      BY <1>1, <1>3, <1>4, <1>5, <2>1, <2>2, ClearBeyond DEF EndOK
  <1>6. Footed(c.h, k) /\ FootKept(c.h, k) /\ k.brk = c.h.brk /\ k.fault = c.h.fault
    BY <1>2, <1>4, <1>5, FootStore
  <1>7. Footed(g, k) /\ FootKept(g, k)
    BY <1>1, <1>6, FootTrans
  <1>8. ASSUME k.fault = "none"
        PROVE  /\ EndOK(k, c.dst + m, c.dst_end) /\ Clear(k, c.dst + m, e)
               /\ c.dst + m <= c.dst_end /\ c.dst + m + PtrBytes <= k.brk
    <2>1. Low(k)
      BY <1>6 DEF Footed
    <2>2. /\ Clear(k, c.dst, c.dst_end) /\ IsFooter(k, c.dst_end)
          /\ c.dst + m + PtrBytes <= k.brk
      <3>1. c.dst_end \in FootersOf(c.h)
        BY <1>1, <1>6, <1>8 DEF EndOK, IsFooter, Tag, FootersOf
      <3>2. c.dst_end + FooterBytes <= c.h.brk /\ c.h.brk \in Nat
        BY <1>4, <1>6, <1>8, <3>1 DEF Low, FootersOK, BrkOK
      <3>3. c.dst + PtrBytes <= c.h.brk
        BY <1>1, <1>3, <1>5, <1>6, <1>8, <3>2 DEF PtrBytes, FooterBytes
      <3>4. c.dst + m + PtrBytes <= k.brk
        BY <1>1, <1>3, <1>5, <1>6, <1>8, <3>2 DEF PtrBytes, FooterBytes
      <3> QED
        BY <1>1, <1>4, <1>6, <1>8, <3>3, <3>4, EndLater DEF EndOK
    <2>3. Clear(k, c.dst + m, c.dst_end) /\ Clear(k, c.dst + m, e)
      BY <1>1, <1>3, <1>5, <1>6, <1>8, <2>1, <2>2, ClearBehind
    <2>4. c.dst + m <= c.dst_end
      BY <1>1, <1>3, <1>5, <1>6, <1>8 DEF PtrBytes
    <2> QED
      BY <2>2, <2>3, <2>4 DEF EndOK
  <1> QED
    BY <1>1, <1>2, <1>6, <1>7, <1>8

\* What the growth of a region leaves behind: the redirection goes over no footer where
\* there was room for it (gib_grow_region).
LEMMA FootGrow ==
    ASSUME NEW g, Low(g), g.fault = "none", NEW a \in Nat, NEW f,
           contains_addr(a) <=> contains_addr(f),
           ~contains_addr(a) => a + PtrBytes <= g.brk,
           contains_addr(f) /\ Tag(g.mem, f) = "nursery_footer" => GoodSize(g.mem[f].size),
           NEW c, c = gib_grow_region(g, a, f)
    PROVE  /\ Footed(g, c.h)
           /\ contains_addr(a) \/ Beyond(g, a, PtrBytes) => FootKept(g, c.h)
           /\ c.h.fault = "none" => /\ c.dst = g.brk /\ c.dst_end \in Nat
                                    /\ EndOK(c.h, c.dst, c.dst_end)
                                    /\ \E size : Roomy(size) /\ NewChunk(g, c, size)
  <1>1. CASE Tag(g.mem, f) # (IF contains_addr(f) THEN "nursery_footer" ELSE "footer")
    <2>1. c.h = Fail(g, "wild")
      BY <1>1 DEF gib_grow_region
    <2>2. SameMemory(g, c.h) /\ c.h.fault # "none"
      BY <2>1, FailSame DEF Low
    <2> QED
      BY <2>2, FootFail
  <1>2. CASE Tag(g.mem, f) = "nursery_footer" /\ contains_addr(f)
    <2>1. PICK size : size = AlignUp(2 * g.mem[f].size)
      OBVIOUS
    <2>2. Roomy(size)
      BY <1>2, <2>1, SizesFit
    <2>3. PICK d : d = FreshRegion(g, size, 0)
      OBVIOUS
    <2>4. /\ Footed(g, d.h) /\ FootKept(g, d.h) /\ d.dst = g.brk
          /\ d.h.fault = "none" => /\ NewChunk(g, d, size) /\ d.dst_end \in Nat
                                   /\ EndOK(d.h, d.dst, d.dst_end)
          /\ d = [h |-> d.h, dst |-> d.dst, dst_end |-> d.dst_end]
      BY <2>2, <2>3, FootFresh, CountsAre DEF Roomy
    <2>5. PICK cell : cell = PtrCell("REDIRECTION", d.dst, d.dst_end - d.dst)
      OBVIOUS
    <2>6. cell.tag = "REDIRECTION" /\ SizeOf(cell) = PtrBytes
      BY <2>5, PtrShape
    <2>7. PICK n : n = Store(d.h, a, cell)
      OBVIOUS
    <2>8. c.h = n /\ c.dst = d.dst /\ c.dst_end = d.dst_end
      <3>1. c = [d EXCEPT !.h = n]
        BY <1>2, <2>1, <2>3, <2>5, <2>7 DEF gib_grow_region
      <3> QED
        BY <2>4, <3>1
    <2>9. Low(d.h)
      BY <2>4 DEF Footed
    <2>10. heap_start <= a
      BY <1>2, Layout DEF contains_addr
    <2>11. d.h.fault = "none" => Beyond(d.h, a, PtrBytes)
      BY <2>9, <2>10, FootYoung
    <2>12. Footed(d.h, n) /\ FootKept(d.h, n) /\ n.brk = d.h.brk /\ n.fault = d.h.fault
      BY <2>6, <2>7, <2>9, <2>11, FootStore
    <2>13. Footed(g, n) /\ FootKept(g, n)
      BY <2>4, <2>12, FootTrans
    <2>14. ASSUME n.fault = "none"
           PROVE  EndOK(n, d.dst, d.dst_end)
      <3>1. FootersOK(d.h) /\ d.dst_end \in FootersOf(d.h) /\ d.dst_end + FooterBytes <= d.h.brk
        BY <2>4, <2>9, <2>12, <2>14 DEF Low, EndOK, IsFooter, Tag, FootersOf, NewChunk
      <3>2. size \in Nat /\ size >= 57
        BY <2>2, SizesFit DEF Roomy
      <3>3. d.dst \in Nat /\ d.h.brk \in Nat
        BY <2>4, <2>12, <2>14, <3>1 DEF Footed, Low, FootersOK, BrkOK
      <3>4. d.dst + PtrBytes <= d.h.brk
        BY <2>4, <2>12, <2>14, <3>1, <3>2, <3>3 DEF NewChunk, FooterBytes, PtrBytes
      <3> QED
        BY <2>4, <2>9, <2>12, <2>14, <3>3, <3>4, EndLater
    <2>15. n.fault = "none" => NewChunk(g, c, size)
      BY <2>4, <2>8, <2>12 DEF NewChunk
    <2> QED
      BY <2>2, <2>4, <2>8, <2>12, <2>13, <2>14, <2>15
  <1>3. CASE Tag(g.mem, f) = "footer" /\ ~contains_addr(f)
    <2>1. PICK size : size = AlignUp(NextChunkSize(g, f))
      OBVIOUS
    <2>2. Roomy(size)
      BY <1>3, <2>1, FootNextSize, SizesFit DEF IsFooter
    <2>3. c = LinkChunk(g, a, f, size)
      BY <1>3, <2>1 DEF gib_grow_region
    <2>4. GoodSize(size) /\ a + PtrBytes <= g.brk /\ IsFooter(g, f)
      BY <1>3, <2>2 DEF Roomy, IsFooter
    <2>5. /\ Footed(g, c.h) /\ c.dst = g.brk
          /\ Beyond(g, a, PtrBytes) => FootKept(g, c.h)
          /\ c.h.fault = "none" => /\ NewChunk(g, c, size) /\ c.dst_end \in Nat
                                   /\ EndOK(c.h, c.dst, c.dst_end)
      BY <2>3, <2>4, FootLink
    <2> QED
      BY <1>3, <2>2, <2>5
  <1> QED
    BY <1>1, <1>2, <1>3

\* Burning data in the nursery, and forwarding it, goes over no footer.
LEMMA FootBurn ==
    ASSUME NEW g, Low(g), NEW a \in Nat, heap_start <= a, NEW k \in Nat,
           NEW n, HeapShape(n), n.mem = Burn(g.mem, a, k), n.brk = g.brk, n.fault = g.fault,
           SameInfo(g, n)
    PROVE  Footed(g, n) /\ FootKept(g, n)
  <1>1. ASSUME g.fault = "none"
        PROVE  /\ FootersOf(n) = FootersOf(g) /\ \A f \in FootersOf(g) : n.mem[f] = g.mem[f]
    <2>1. ASSUME NEW f \in FootersOf(n)
          PROVE  f \in FootersOf(g)
      <3>1. f \in DOMAIN n.mem /\ n.mem[f].tag = "footer"
        BY DEF FootersOf
      <3>2. CopiedCell.tag # "footer"
        BY DEF CopiedCell
      <3>3. f \notin a .. a + k - 1
        BY <3>1, <3>2, BurnCells
      <3> QED
        BY <3>1, <3>3, BurnCells DEF FootersOf
    <2>2. ASSUME NEW f \in FootersOf(g)
          PROVE  f \in FootersOf(n) /\ n.mem[f] = g.mem[f]
      <3>1. f \in DOMAIN g.mem /\ g.mem[f].tag = "footer" /\ SizeOf(g.mem[f]) = FooterBytes
        BY SizeOfCell DEF FootersOf
      <3>2. f \in Nat /\ f + FooterBytes <= a
        BY <1>1, Layout DEF Low, FootersOK, BrkOK, FooterBytes
      <3>3. f \notin a .. a + k - 1 /\ ~(f < a + k /\ a < f + SizeOf(g.mem[f]))
        BY <3>1, <3>2 DEF FooterBytes
      <3>4. f \in DOMAIN n.mem /\ n.mem[f] = g.mem[f]
        BY <3>1, <3>3, BurnCells
      <3> QED
        BY <3>1, <3>4 DEF FootersOf
    <2> QED
      BY <2>1, <2>2
  <1>2. ASSUME g.fault = "none"
        PROVE  FootersOK(n) /\ g.brk <= n.brk
    BY <1>1, <1>2 DEF Low, FootersOK, BrkOK
  <1>3. LinksKept(g, n)
    BY <1>1, SameLinks DEF LinksKept
  <1> QED
    BY <1>1, <1>2, <1>3 DEF Footed, FootKept, Low

\* Forwarding pointers are written where no footer is (evacuate_packed).
LEMMA FootForward ==
    ASSUME NEW g, Low(g), NEW a \in Int, heap_start <= a, NEW to, NEW offset,
           NEW n, n = Store(g, a, PtrCell("COPIED_TO", to, offset))
    PROVE  Footed(g, n) /\ FootKept(g, n) /\ n.brk = g.brk /\ n.fault = g.fault
  <1>1. PICK cell : cell = PtrCell("COPIED_TO", to, offset)
    OBVIOUS
  <1>2. cell.tag = "COPIED_TO" /\ SizeOf(cell) = PtrBytes
    BY <1>1, PtrShape
  <1>3. g.fault = "none" => Beyond(g, a, PtrBytes)
    BY FootYoung
  <1> QED
    BY <1>1, <1>2, <1>3, FootStore

\* The write barrier writes its indirection and, behind it, metadata only.
LEMMA FootBarrier ==
    ASSUME NEW g, Low(g), NEW a \in Int, NEW e, NEW to, NEW to_footer,
           NEW n, n = gib_indirection_barrier(g, a, e, to, to_footer)
    PROVE  /\ Footed(g, n)
           /\ (g.fault = "none" => Beyond(g, a, PtrBytes)) => FootKept(g, n)
           /\ n.fault = "none" => Beyond(n, a, PtrBytes)
  <1>1. PICK p : p = ChaseIndirections(g, to, to_footer)
    OBVIOUS
  <1>2. PICK t, footer : t = p[1] /\ footer = p[2]
    OBVIOUS
  <1>3. PICK c : c = PtrCell("INDIRECTION", t, footer - t)
    OBVIOUS
  <1>4. c.tag = "INDIRECTION" /\ SizeOf(c) = PtrBytes
    BY <1>3, PtrShape
  <1>5. PICK h1 : h1 = Store(g, a, c)
    OBVIOUS
  <1>6. /\ Footed(g, h1) /\ h1.fault = g.fault
        /\ (g.fault = "none" => a \in Int /\ Beyond(g, a, PtrBytes)) => FootKept(g, h1)
        /\ h1.fault = "none" /\ a \in Int => Beyond(h1, a, PtrBytes)
    BY <1>4, <1>5, FootStore
  <1>7. n = IF contains_addr(a) THEN h1
            ELSE IF contains_addr(t)
            THEN [h1 EXCEPT !.rem_set = @ \cup {[ptr |-> a + 1, endptr |-> e]}]
            ELSE add_old_to_old_indirection(h1, e, footer)
    BY <1>1, <1>2, <1>3, <1>5 DEF gib_indirection_barrier
  <1>8. Low(h1) /\ HeapShape(h1)
    BY <1>6 DEF Footed, Low
  <1>9. /\ HeapShape(n) /\ n.mem = h1.mem /\ n.brk = h1.brk
        /\ n.fault = "none" => h1.fault = "none"
        /\ LinksKept(h1, n)
    <2>1. CASE contains_addr(a)
      BY <1>7, <1>8, <2>1 DEF LinksKept
    <2>2. CASE ~contains_addr(a) /\ contains_addr(t)
      <3>1. n = [h1 EXCEPT !.rem_set = @ \cup {[ptr |-> a + 1, endptr |-> e]}]
        BY <1>7, <2>2
      <3>2. /\ HeapShape(n) /\ n.mem = h1.mem /\ n.brk = h1.brk /\ n.fault = h1.fault
            /\ SameInfo(h1, n)
        BY <1>8, <3>1 DEF HeapShape, SameInfo
      <3>3. FootersOf(n) = FootersOf(h1)
        BY <3>2 DEF FootersOf
      <3> QED
        BY <3>2, <3>3, SameLinks
    <2>3. CASE ~contains_addr(a) /\ ~contains_addr(t)
      BY <1>7, <1>8, <2>3, MetadataSame, AddLinks DEF SameMemory
    <2> QED
      BY <2>1, <2>2, <2>3
  <1>10. FootersOf(n) = FootersOf(h1)
    BY <1>9 DEF FootersOf
  <1>11. Footed(h1, n) /\ FootKept(h1, n)
    BY <1>8, <1>9, <1>10 DEF Footed, FootKept, Low, FootersOK, BrkOK
  <1>12. Footed(g, n)
    BY <1>6, <1>11, FootTrans
  <1>13. (g.fault = "none" => Beyond(g, a, PtrBytes)) => FootKept(g, n)
    BY <1>6, <1>11, FootTrans
  <1>14. n.fault = "none" => Beyond(n, a, PtrBytes)
    BY <1>6, <1>9, <1>10, <1>12 DEF Beyond, Footed
  <1> QED
    BY <1>12, <1>13, <1>14

\* Beside no footer, in old memory that malloc has handed out, a remembered pointer may
\* be written again.
LEMMA BeyondClear ==
    ASSUME NEW g, Low(g), g.fault = "none", NEW a \in Int
    PROVE  Beyond(g, a, PtrBytes) <=> Clear(g, a, a)
  BY DEF Beyond, Clear, PtrBytes, Low, FootersOK

\* What the bytes before an end are for, anything that ends no later may use.
LEMMA ClearShorter ==
    ASSUME NEW g, Low(g), g.fault = "none", NEW d, NEW e \in Int, Clear(g, d, e),
           NEW e2 \in Int, e2 <= e
    PROVE  Clear(g, d, e2)
  BY DEF Clear, Low, FootersOK
=============================================================================

------------------------------- MODULE Oldgen -------------------------------
(***************************************************************************)
(* The generational heap as the collector sees it: the operations on       *)
(* chunks, footers, region metadata and zero-count tables of               *)
(* rts-ng/src/gc.rs and of the write barrier and region growth of          *)
(* rts-c/gibbon_rts.h, as functions from heap to heap.                     *)
(*                                                                         *)
(* A heap is a record:                                                     *)
(*   mem            see PackedMemory; footers are cells of it              *)
(*   alloc          nursery->alloc; the nursery is used from its high end  *)
(*   brk            the next address malloc returns                        *)
(*   regs           the GibRegionInfo objects, numbered as allocated       *)
(*   old_zct, new_zct   the zero-count tables, sets of those numbers       *)
(*   rem_set        the remembered set: [ptr, endptr], ptr the address of  *)
(*                  the pointer, not of the tag before it                  *)
(*   released       footers of the chunks free_region has handed back      *)
(*   fault          "none", or why execution cannot go on: a panic!, or    *)
(*                  wild: metadata read where there is no footer           *)
(***************************************************************************)
EXTENDS PackedMemory, FiniteSetsExt

CONSTANTS heap_start, heap_end,   \* the nursery
          OldBase,                \* where malloc starts
          CHUNK_SIZE,             \* of a region made during collection
          GIB_MAX_CHUNK_SIZE

\* malloc has the addresses from OldBase up to the nursery to hand out.
ASSUME Layout ==
    /\ heap_start \in Nat /\ heap_end \in Nat /\ OldBase \in Nat
    /\ 0 < OldBase /\ OldBase < heap_start /\ heap_start < heap_end
    /\ CHUNK_SIZE \in Nat /\ GIB_MAX_CHUNK_SIZE \in Nat

\* What a bounds check asks for, with a footer, is there in twice such a chunk, and
\* in the largest: when a constructor did not fit, the chunk made for it has room,
\* since nobody checks again (gib_grow_region, allocate_next_chunk).  A chunk that
\* root_first_chunk makes without room for the second footer has room for a pointer.
RoomFor(c) == 32 + ScalarBytes[c] + FooterBytes
Enough(size) == size >= PtrBytes + 2 * FooterBytes /\ \A c \in Con : RoomFor(c) <= 2 * size
ASSUME ChunksFit ==
    /\ Enough(CHUNK_SIZE) /\ Enough(GIB_MAX_CHUNK_SIZE)
    /\ \A c \in Con : RoomFor(c) <= GIB_MAX_CHUNK_SIZE

\* gib_addr_in_nursery and GibNursery::contains_addr: both ends included.
contains_addr(a) == a \in heap_start .. heap_end

Fail(h, what) == [h EXCEPT !.fault = IF @ = "none" THEN what ELSE @]
IsFooter(h, f) == Tag(h.mem, f) = "footer"
Store(h, a, cell) == [h EXCEPT !.mem = Write(@, a, cell)]
RegOf(h, f) == h.mem[f].reg_info

\* What a reference count can be, a uint16_t.
Counts == {n \in Nat : n < 65536}

-----------------------------------------------------------------------------
\* Heap::allocate, gib_alloc: malloc, with room for its own header.  When it fails
\* the program panics or exits.
allocate(h, size) ==
    LET top == AlignUp(h.brk + size) + 8
    IN [h |-> IF top < heap_start THEN [h EXCEPT !.brk = top] ELSE Fail(h, "exit: malloc failed"),
        start |-> h.brk]

\* init_footer_at with a null reg_info: a region of its own.
init_footer_at(h, chunk_end, size, refcount) ==
    LET f == chunk_end - FooterBytes
        r == Len(h.regs) + 1
    IN [h EXCEPT !.mem = Write(@, f, Footer(r, size - FooterBytes, 0)),
                 !.regs = Append(@, [refcount |-> refcount, outset |-> {}, first |-> f])]

\* Heap::allocate_first_chunk
allocate_first_chunk(h, size, refcount) ==
    LET a == allocate(h, size)
    IN [h |-> init_footer_at(a.h, a.start + size, size, refcount),
        dst |-> a.start, dst_end |-> a.start + size - FooterBytes]

insert_new_zct(h, r) == [h EXCEPT !.new_zct = @ \cup {r}]

\* A fresh region that is also put on the new zct.
FreshRegion(h, size, refcount) ==
    LET c == allocate_first_chunk(h, size, refcount)
    IN [c EXCEPT !.h = insert_new_zct(@, Len(@.regs))]

\* A chunk that joins the region of footer f, reached by a redirection at a:
\* Heap::allocate_next_chunk, and gib_grow_region_on_heap for an old chunk; first
\* with a seeded fault, the new chunk in place of its footer.
LinkChunkToStart(h, a, f, size) ==
    LET c == allocate(h, size)
        g == c.start + size - FooterBytes
        m == Write(c.h.mem, g, Footer(RegOf(h, f), size - FooterBytes, 0))
    IN [h |-> [c.h EXCEPT !.mem =
                 Write([m EXCEPT ![f] = [@ EXCEPT !.next = c.start]], a,
                       PtrCell("REDIRECTION", c.start, g - c.start))],
        dst |-> c.start, dst_end |-> g]
LinkChunk(h, a, f, size) ==
    LET c == allocate(h, size)
        g == c.start + size - FooterBytes
        m == Write(c.h.mem, g, Footer(RegOf(h, f), size - FooterBytes, 0))
    IN [h |-> [c.h EXCEPT !.mem =
                 Write([m EXCEPT ![f] = [@ EXCEPT !.next = g]], a,
                       PtrCell("REDIRECTION", c.start, g - c.start))],
        dst |-> c.start, dst_end |-> g]

NextChunkSize(h, f) ==
    LET size == 2 * (h.mem[f].size + FooterBytes)
    IN IF size > GIB_MAX_CHUNK_SIZE THEN GIB_MAX_CHUNK_SIZE ELSE size

\* Heap::check_bounds with allocate_next_chunk; first with a seeded fault, no
\* check.  Beyond dst_end the distance, cast to usize, is huge: the check passes (the
\* debug build asserts dst < dst_end).
Unchecked(h, space_reqd, dst, dst_end) == [h |-> h, dst |-> dst, dst_end |-> dst_end]
check_bounds(h, space_reqd, dst, dst_end) ==
    IF dst > dst_end \/ dst_end - dst >= space_reqd
    THEN [h |-> h, dst |-> dst, dst_end |-> dst_end]
    ELSE IF ~IsFooter(h, dst_end)
    THEN [h |-> Fail(h, "wild"), dst |-> dst, dst_end |-> dst_end]
    ELSE LinkChunk(h, dst, dst_end, NextChunkSize(h, dst_end))

\* gib_grow_region with eager promotion: the write cursor at a of the chunk
\* with footer f moves to a new chunk in the old generation, in a region of
\* its own when the old chunk is in the nursery.
gib_grow_region(h, a, f) ==
    IF Tag(h.mem, f) # (IF contains_addr(f) THEN "nursery_footer" ELSE "footer")
    THEN [h |-> Fail(h, "wild"), dst |-> a, dst_end |-> f]
    ELSE IF contains_addr(f)
    THEN LET c == FreshRegion(h, AlignUp(2 * h.mem[f].size), 0)
         IN [c EXCEPT !.h = Store(@, a, PtrCell("REDIRECTION", c.dst, c.dst_end - c.dst))]
    ELSE LinkChunk(h, a, f, AlignUp(NextChunkSize(h, f)))

-----------------------------------------------------------------------------
\* is_loc0 for a nursery chunk.  Where e is no nursery footer the two bytes
\* there are not the distance, short of a coincidence.
is_loc0(h, a, e) == Tag(h.mem, e) = "nursery_footer" /\ a + h.mem[e].size = e

\* add_to_outset, and add_old_to_old_indirection with bump_refcount
add_to_outset(h, from, to) ==
    IF IsFooter(h, from) /\ IsFooter(h, to)
    THEN [h EXCEPT !.regs[RegOf(h, from)].outset = @ \cup {RegOf(h, to)}]
    ELSE Fail(h, "wild")

AddWithoutBump(h, from, to) ==   \* a seeded fault
    IF from = to THEN h ELSE add_to_outset(h, from, to)
add_old_to_old_indirection(h, from, to) ==
    IF from = to THEN h
    ELSE LET h1 == add_to_outset(h, from, to)
         IN IF h1.fault # "none" \/ RegOf(h, to) \in h.regs[RegOf(h, from)].outset
            THEN h1
            ELSE [h1 EXCEPT !.regs[RegOf(h, to)].refcount = u16(@ + 1)]

\* remove_old_to_old_indirection, remove_from_outset, decrement_refcount
remove_old_to_old_indirection(h, from, to) ==
    IF from = to THEN h
    ELSE IF ~IsFooter(h, from) \/ ~IsFooter(h, to) THEN Fail(h, "wild")
    ELSE IF RegOf(h, to) \notin h.regs[RegOf(h, from)].outset THEN h
    ELSE [h EXCEPT !.regs[RegOf(h, from)].outset = @ \ {RegOf(h, to)},
                   !.regs[RegOf(h, to)].refcount = u16(@ - 1)]

\* The end of a chain of indirections that starts at address a with footer e:
\* the loop of gib_indirection_barrier; first with a seeded fault, the footer
\* does not follow.
ChaseKeepsFooter(h, to, to_footer) ==
    LET chase[n \in Nat, a \in Int] ==
          IF n = 0 \/ Tag(h.mem, a) # "INDIRECTION" THEN a ELSE chase[n - 1, h.mem[a].to]
    IN <<chase[Cardinality(DOMAIN h.mem), to], to_footer>>
ChaseIndirections(h, to, to_footer) ==
    LET chase[n \in Nat, a \in Int, e \in Int] ==
          IF n = 0 \/ Tag(h.mem, a) # "INDIRECTION" THEN <<a, e>>
          ELSE chase[n - 1, h.mem[a].to, h.mem[a].to + h.mem[a].offset]
    IN chase[Cardinality(DOMAIN h.mem), to, to_footer]

\* The barrier and, before it, a seeded fault: no remembered set.
BarrierWithoutRemset(h, from, from_footer, to0, to_footer0) ==
    LET p == ChaseIndirections(h, to0, to_footer0)
        h1 == Store(h, from, PtrCell("INDIRECTION", p[1], p[2] - p[1]))
    IN IF contains_addr(from) \/ contains_addr(p[1]) THEN h1
       ELSE add_old_to_old_indirection(h1, from_footer, p[2])

gib_indirection_barrier(h, from, from_footer, to0, to_footer0) ==
    LET p == ChaseIndirections(h, to0, to_footer0)
        h1 == Store(h, from, PtrCell("INDIRECTION", p[1], p[2] - p[1]))
    IN IF contains_addr(from) THEN h1
       ELSE IF contains_addr(p[1])
       THEN [h1 EXCEPT !.rem_set = @ \cup {[ptr |-> from + 1, endptr |-> from_footer]}]
       ELSE add_old_to_old_indirection(h1, from_footer, p[2])

-----------------------------------------------------------------------------
\* The footers of the chunks from footer f on, as the loop of free_region follows
\* them.
ChunksFrom(h, f) ==
    LET chain[n \in Nat, g \in Int] ==
          IF g = 0 \/ n = 0 \/ ~IsFooter(h, g) THEN {}
          ELSE {g} \cup chain[n - 1, h.mem[g].next]
    IN chain[Cardinality(DOMAIN h.mem), f]

\* free_region: the outset of the footer's region loses a count each, those
\* that reach zero go to the zct, and the loop hands back the chunks from the
\* footer on (EASY_OLDGEN_COLLECTION keeps their memory mapped).
free_region(h, f) ==
    LET out == h.regs[RegOf(h, f)].outset
        regs1 == [r \in DOMAIN h.regs |->
                    IF r \in out THEN [h.regs[r] EXCEPT !.refcount = u16(@ - 1)]
                    ELSE h.regs[r]]
    IN [h EXCEPT !.regs = regs1,
                 !.new_zct = @ \cup {r \in out : regs1[r].refcount = 0},
                 !.released = @ \cup ChunksFrom(h, f)]

\* GibOldgen::collect_regions, with swap_zcts.  While counts cover the outsets
\* what it frees does not depend on the order of the HashSet: a count that
\* reaches zero on the way comes with an entry in the new zct.
collect_regions(h) ==
    LET visit(r, g) ==
          IF g.regs[r].refcount = 0 /\ r \notin g.new_zct
          THEN free_region(g, g.regs[r].first) ELSE g
        swept == FoldSet(visit, h, h.old_zct)
    IN [h EXCEPT !.regs = swept.regs, !.released = swept.released,
                 !.old_zct = swept.new_zct, !.new_zct = {}]
=============================================================================

------------------------------- MODULE GenGC --------------------------------
(***************************************************************************)
(* The generational collector: compiled code that allocates regions in the *)
(* nursery, writes packed values into them and shares them, and the minor  *)
(* collection that evacuates the nursery (rts-ng/src/gc.rs,                *)
(* garbage_collect), one action per iteration of its worklist loop.        *)
(*                                                                         *)
(* The compiled program is the environment.  It owns a few variables; one  *)
(* in use has a read cursor (ptr, endptr) once something has been written, *)
(* which is a frame of the read shadow-stack, and a write cursor (wptr,    *)
(* wend) with the number todo of values still to be written there, which   *)
(* is a frame of the write shadow-stack.  A region holds one value,        *)
(* written from left to right: its constructor, its scalars and then its   *)
(* fields (the order the compiler arranges, Passes/ReorderScalarWrites).   *)
(***************************************************************************)
EXTENDS Oldgen

CONSTANTS Var,          \* the program's variables
          RegionSizes,  \* sizes the program asks gib_alloc_region for
          gib_nursery_region_max_size,
          ReservedBytes,  \* added to every bounds check (ThreadRegions2)
          MaxWrites, MaxGrowths, MaxCollections,  \* bounds of the model
          EmptyWriters, \* whether a collection may find nothing written yet
          Sharing,      \* how the program shares its values, see Discipline
          Fuel          \* longest walk over a value

\* One constructor is the largest, the reserve is for a pointer (boundsCheck).
ASSUME ProgramAssumption ==
    /\ IsFiniteSet(Var)
    /\ \A size \in RegionSizes : size \in Nat /\ Enough(size)
    /\ ReservedBytes \in Nat /\ ReservedBytes >= PtrBytes
    /\ Fuel \in Nat
    /\ \E c \in Con : \A d \in Con : ScalarBytes[d] <= ScalarBytes[c]

VARIABLES
    h,       \* the heap, see Oldgen
    var,     \* the program's variables
    pc,      \* "mutator", or where in garbage_collect
    ev,      \* the state of the evacuation
    request, \* the allocation that waits for the collection
    value,   \* what the program can read, kept from before a collection through it
    count    \* how often the bounded operations have happened

vars == <<h, var, pc, ev, request, value, count>>

Unused == [ptr |-> 0, endptr |-> 0, wptr |-> 0, wend |-> 0, todo |-> 0]
Readers == {x \in Var : var[x].ptr # 0}
Writers == {x \in Var : var[x].todo > 0}
Free == Var \ (Readers \cup Writers)

\* The write cursors of the program variables vs, by address.
Holes(vs) ==
    LET w == {x \in Var : vs[x].todo > 0}
    IN [a \in {vs[x].wptr : x \in w} |-> CHOOSE x \in w : vs[x].wptr = a]
ValueOf(heap, vs, x) == Walk(heap.mem, Holes(vs), vs[x].ptr, vs[x].endptr, Fuel)
\* What the program can read at all of its variables.
Hole(vs, x) == IF vs[x].todo > 0 THEN <<<<"hole", x>>>> ELSE <<>>
AllValues(heap, vs) ==
    [x \in Var |-> IF vs[x].ptr = 0 THEN Hole(vs, x) ELSE Contents(ValueOf(heap, vs, x))]
Complete(tokens) == \A i \in DOMAIN tokens : tokens[i].tag \in Con

NoEvac == [queue |-> {}]
NoRequest == [size |-> 0]

Init ==
    /\ h = [mem |-> <<>>, alloc |-> heap_end, brk |-> OldBase, regs |-> <<>>,
            old_zct |-> {}, new_zct |-> {}, rem_set |-> {}, released |-> {},
            fault |-> "none"]
    /\ var = [x \in Var |-> Unused]
    /\ pc = "mutator"
    /\ ev = NoEvac
    /\ request = NoRequest
    /\ value = [x \in Var |-> <<>>]
    /\ count = [writes |-> 0, growths |-> 0, gcs |-> 0]

Mutating == pc = "mutator" /\ h.fault = "none"
Collecting(at) == pc = at /\ h.fault = "none"

-----------------------------------------------------------------------------
(***************************************************************************)
(* The program.                                                            *)
(***************************************************************************)
\* x gets an empty region that starts at a and ends at footer e.
OpenRegion(x, a, e) == [var EXCEPT ![x] = [Unused EXCEPT !.wptr = a, !.wend = e, !.todo = 1]]

FitsWithoutFooter(size) == h.alloc - size >= heap_start   \* a seeded fault
Fits(size) == h.alloc - size - NurseryFooterBytes >= heap_start
NurseryChunk(size) == [h EXCEPT !.alloc = @ - size - NurseryFooterBytes,
                                !.mem = Write(@, h.alloc - NurseryFooterBytes, NurseryFooter(size))]

\* gib_alloc_region, gib_alloc_region_in_nursery_fast
AllocFast(x, size) ==
    /\ Mutating
    /\ x \in Free
    /\ Fits(size)
    /\ h' = NurseryChunk(size)
    /\ var' = OpenRegion(x, h.alloc - size - NurseryFooterBytes, h.alloc - NurseryFooterBytes)
    /\ UNCHANGED <<pc, ev, request, count>>
    /\ value' = AllValues(h', var')

\* gib_alloc_region_in_nursery_slow with a large size: gib_alloc_region_on_heap
AllocOnHeap(x, size) ==
    /\ Mutating
    /\ x \in Free
    /\ ~Fits(size)
    /\ size > gib_nursery_region_max_size
    /\ LET c == allocate_first_chunk(h, AlignUp(size), 1)
       IN /\ h' = c.h
          /\ var' = OpenRegion(x, c.dst, c.dst_end)
    /\ UNCHANGED <<pc, ev, request, count>>
    /\ value' = AllValues(h', var')

\* What the bounds check at the start of a function that writes a value asks for
\* (ThreadRegions2.hs, boundsCheck; Codegen.hs, BoundsCheck): the largest constructor
\* and the reserve; first with a seeded fault.
BoundOfTag == 1 + ReservedBytes
Bound == 1 + ReservedBytes + Max({ScalarBytes[c] : c \in Con})

\* The cursor after the bounds check.
CheckedCursor(x) ==
    IF var[x].wptr + Bound > var[x].wend
    THEN gib_grow_region(h, var[x].wptr, var[x].wend)
    ELSE [h |-> h, dst |-> var[x].wptr, dst_end |-> var[x].wend]

\* x, one of the variables vs, has written n bytes at its checked cursor c, with
\* k values to follow in place of the one; after a growth the program may or
\* may not go on to use the new end of the region with the start of the value.
Advance(x, vs, c, n, k, useNewEnd) ==
    LET todo == var[x].todo - 1 + k
        grown == c.dst # var[x].wptr
        first == var[x].ptr = 0
    IN /\ grown => count.growths < MaxGrowths
       /\ useNewEnd => grown
       /\ var' = [vs EXCEPT ![x] =
                    [ptr |-> IF first THEN var[x].wptr ELSE @.ptr,
                     endptr |-> IF useNewEnd THEN c.dst_end
                                ELSE IF first THEN var[x].wend ELSE @.endptr,
                     wptr |-> IF todo = 0 THEN 0 ELSE c.dst + n,
                     wend |-> IF todo = 0 THEN 0 ELSE c.dst_end,
                     todo |-> todo]]
       /\ count' = [count EXCEPT !.writes = @ + 1, !.growths = @ + (IF grown THEN 1 ELSE 0)]

WriteCon(x, con, useNewEnd) ==
    /\ Mutating
    /\ x \in Writers
    /\ count.writes < MaxWrites
    /\ LET c == CheckedCursor(x)
           cell == ConCell(con, IF ScalarBytes[con] = 0 THEN 0 ELSE count.writes)
       IN /\ h' = Store(c.h, c.dst, cell)
          /\ Advance(x, var, c, SizeOf(cell), Fields[con], useNewEnd)
    /\ UNCHANGED <<pc, ev, request>>
    /\ value' = AllValues(h', var')

\* Where in the nursery the value at a cursor lies.
YoungPart(ptr, endptr) ==
    LET tokens == Walk(h.mem, Holes(var), ptr, endptr, Fuel)
    IN {a \in {tokens[i].at : i \in DOMAIN tokens} : contains_addr(a)}

\* Discipline.  Under "linear" no two variables have a way to one constructor:
\* the program uses a variable up when it takes it apart or points to it.
\* Under "aliased" they may, but an indirection is to a young value that no
\* other variable and no remembered indirection leads to, and uses its variable
\* up.  Under "free" there is no restriction.
UsedUp(x) == [var EXCEPT ![x] = Unused]
Unshared(y) ==
    LET mine == YoungPart(var[y].ptr, var[y].endptr)
    IN /\ \A x \in Readers \ {y} : YoungPart(var[x].ptr, var[x].endptr) \cap mine = {}
       /\ \A f \in h.rem_set : YoungPart(f.ptr - 1, f.endptr) \cap mine = {}

\* Instead of a copy of y, an indirection to it.  The bounds check is that of the
\* function whose result it is; IndirectionE has none of its own.  The program keeps
\* to the barrier's assertion on the target, assert(to <= to_footer).
WriteIndirection(x, y, useNewEnd) ==
    /\ Mutating
    /\ x \in Writers
    /\ y \in Readers \ {x}
    /\ count.writes < MaxWrites
    /\ Complete(ValueOf(h, var, y))
    /\ Sharing = "free" \/ Unshared(y)
    /\ var[y].ptr <= var[y].endptr
    /\ LET c == CheckedCursor(x)
       IN /\ h' = gib_indirection_barrier(c.h, c.dst, c.dst_end, var[y].ptr, var[y].endptr)
          /\ Advance(x, IF Sharing = "free" THEN var ELSE UsedUp(y),
                     c, PtrBytes, 0, useNewEnd)
    /\ UNCHANGED <<pc, ev, request>>
    /\ value' = AllValues(h', var')

\* The program takes a value apart: y becomes a cursor to the part of x that
\* is its i-th constructor in preorder.
ReadPart(x, y, i) ==
    /\ Mutating
    /\ x \in (IF Sharing = "linear" THEN Readers \ Writers ELSE Readers)
    /\ y \in Free
    /\ LET tokens == ValueOf(h, var, x)
       IN /\ i \in DOMAIN tokens
          /\ tokens[i].tag \in Con
          /\ var' = [(IF Sharing = "linear" THEN UsedUp(x) ELSE var)
                       EXCEPT ![y] = [Unused EXCEPT !.ptr = tokens[i].at, !.endptr = tokens[i].end]]
    /\ UNCHANGED <<h, pc, ev, request, count>>
    /\ value' = AllValues(h', var')

\* A variable is dead from here on.
Drop(x) ==
    /\ Mutating
    /\ x \in Readers \ Writers
    /\ var' = [var EXCEPT ![x] = Unused]
    /\ UNCHANGED <<h, pc, ev, request, count>>
    /\ value' = AllValues(h', var')

-----------------------------------------------------------------------------
(***************************************************************************)
(* A minor collection: garbage_collect with force_major = false.           *)
(***************************************************************************)
\* cauterize_writers: a tag and a pointer back to the frame at every write
\* cursor in the nursery.
NotCauterized(mem) == mem   \* a seeded fault
cauterize_writers(mem) ==
    LET young == {x \in Writers : contains_addr(var[x].wptr)}
        at == {var[x].wptr : x \in young}
        hit == {b \in DOMAIN mem : \E a \in at : b < a + PtrBytes /\ a < b + SizeOf(mem[b])}
    IN [b \in (DOMAIN mem \ hit) \cup at |->
          IF b \in at THEN CauterizedCell(CHOOSE x \in young : var[x].wptr = b) ELSE mem[b]]

\* The roots: the read shadow-stack and the remembered set.
StackRoots == {[prov |-> "Stk", ptr |-> var[x].ptr, endptr |-> var[x].endptr, x |-> x] : x \in Readers}
Roots == StackRoots
         \cup {[prov |-> "RemSet", ptr |-> f.ptr, endptr |-> f.endptr, x |-> 0] : f \in h.rem_set}

\* gib_alloc_region_in_nursery_slow: no room, so gib_perform_GC_ first.
StartCollection(x, size) ==
    /\ Mutating
    /\ x \in Free
    /\ ~Fits(size)
    /\ size <= gib_nursery_region_max_size
    /\ count.gcs < MaxCollections
    /\ EmptyWriters \/ Writers \subseteq Readers
    /\ h' = [h EXCEPT !.mem = cauterize_writers(@)]
    /\ pc' = "roots"
    /\ ev' = [queue |-> Roots, fwd_env |-> <<>>, so_env |-> <<>>]
    /\ request' = [x |-> x, size |-> size]
    /\ count' = [count EXCEPT !.gcs = @ + 1]
    /\ UNCHANGED <<var, value>>

\* sort_roots sorts by address, unstably: a least one is next.
NextRoot(r) == r \in ev.queue /\ \A s \in ev.queue : r.ptr <= s.ptr

\* Where the data of a root is: the remembered set holds the address of a
\* pointer to it.
SrcOf(r) == IF r.prov = "RemSet" THEN h.mem[r.ptr - 1].to ELSE r.ptr
SrcEndOf(r) == IF r.prov = "RemSet" THEN SrcOf(r) + h.mem[r.ptr - 1].offset ELSE r.endptr
Burned(a) == Tag(h.mem, a) \in {"COPIED", "COPIED_TO"}

\* What find_forwarding_pointer makes of the forwarding pointer at address f,
\* found d bytes after the data it is asked for; first with a seeded fault.
FwdAtUnadjusted(f, d) ==
    [to |-> h.mem[f].to, footer |-> h.mem[f].to + h.mem[f].offset, fault |-> "none"]
FwdAt(f, d) ==
    [to |-> h.mem[f].to - d, footer |-> h.mem[f].to + h.mem[f].offset, fault |-> "none"]
NoFwd(what) == [to |-> 0, footer |-> 0, fault |-> what]

\* find_forwarding_pointer for the burned data at address a: [to, footer], or
\* the fault it ends in.  A run of COPIED bytes is scanned to its right end.
find_forwarding_pointer(a) ==
    LET s == a + Min({n \in 0 .. Cardinality(DOMAIN h.mem) : Tag(h.mem, a + n) # "COPIED"})
        f == IF Tag(h.mem, s) = "CAUTERIZED" THEN s + PtrBytes ELSE s
    IN IF Tag(h.mem, f) = "COPIED_TO" THEN FwdAt(f, s - a)
       ELSE IF Tag(h.mem, s) = "CAUTERIZED" THEN NoFwd("wild")
       ELSE IF a + 1 \in DOMAIN ev.fwd_env THEN ev.fwd_env[a + 1]
       ELSE NoFwd("panic: unexpected tag")

\* evacuate_roots, a stack root that is in the old generation already.
SkippedUnrecorded(r) == h   \* a seeded fault
Skipped(r) ==
    IF IsFooter(h, r.endptr) THEN insert_new_zct(h, RegOf(h, r.endptr)) ELSE Fail(h, "wild")
SkipOldRoot ==
    /\ Collecting("roots")
    /\ \E r \in ev.queue :
         /\ NextRoot(r)
         /\ r.prov = "Stk"
         /\ ~contains_addr(r.ptr)
         /\ ev' = [ev EXCEPT !.queue = @ \ {r}]
         /\ h' = Skipped(r)
    /\ UNCHANGED <<var, pc, request, value, count>>

\* evacuate_copied: the data of the root is burned, so the root is only
\* redirected to the copy.  The pointer written for the remembered set is the
\* untagged one.
evacuate_copied ==
    /\ Collecting("roots")
    /\ \E r \in ev.queue :
         /\ NextRoot(r)
         /\ r.prov = "RemSet" \/ contains_addr(r.ptr)
         /\ Burned(SrcOf(r))
         /\ ev' = [ev EXCEPT !.queue = @ \ {r}]
         /\ LET fwd == find_forwarding_pointer(SrcOf(r))
            IN IF fwd.fault # "none" THEN h' = Fail(h, fwd.fault) /\ UNCHANGED var
               ELSE IF r.prov = "Stk"
               THEN /\ var' = [var EXCEPT ![r.x].ptr = fwd.to, ![r.x].endptr = fwd.footer]
                    /\ UNCHANGED h
               ELSE /\ h' = add_old_to_old_indirection(
                              Store(h, r.ptr - 1, PtrCell("INDIRECTION", fwd.to, 0)),
                              r.endptr, fwd.footer)
                    /\ UNCHANGED var
    /\ UNCHANGED <<pc, request, value, count>>

\* root_first_chunk: a region of its own for the copy, or, when the program
\* already uses an end in the old generation, a first chunk for that region.
root_first_chunk(src, src_end, refcount) ==
    IF contains_addr(src_end)
    THEN IF Tag(h.mem, src_end) # "nursery_footer"
         THEN [h |-> Fail(h, "wild"), dst |-> 0, dst_end |-> 0, loc0 |-> FALSE]
         ELSE LET c == FreshRegion(h, h.mem[src_end].size + FooterBytes, refcount)
              IN [h |-> c.h, dst |-> c.dst, dst_end |-> c.dst_end,
                  loc0 |-> is_loc0(h, src, src_end)]
    ELSE IF ~IsFooter(h, src_end)
    THEN [h |-> Fail(h, "wild"), dst |-> 0, dst_end |-> 0, loc0 |-> FALSE]
    ELSE LET size == h.mem[src_end].size
             r == RegOf(h, src_end)
             c == allocate(h, size)
             f == c.start + size - FooterBytes
             h1 == Store(c.h, f, Footer(r, CHUNK_SIZE - FooterBytes, h.regs[r].first))
             info == [h1.regs[r] EXCEPT !.first = f, !.refcount = u16(@ + refcount)]
         IN [h |-> [h1 EXCEPT !.regs[r] = info],
             dst |-> c.start, dst_end |-> f, loc0 |-> FALSE]

\* The actions on the worklist of evacuate_packed.  One packed type.
ProcessTy == [act |-> "ProcessTy"]
RestoreSrc(src, dst, dst_end) == [act |-> "RestoreSrc", src |-> src, dst |-> dst, dst_end |-> dst_end]
SkipoverEnvWrite(a) == [act |-> "SkipoverEnvWrite", at |-> a]

\* evacuate_nursery_root and evacuate_remset_root up to evacuate_packed.
StartRoot ==
    /\ Collecting("roots")
    /\ \E r \in ev.queue :
         /\ NextRoot(r)
         /\ r.prov = "RemSet" \/ contains_addr(r.ptr)
         /\ ~Burned(SrcOf(r))
         /\ LET c == root_first_chunk(SrcOf(r), SrcEndOf(r), IF r.prov = "RemSet" THEN 1 ELSE 0)
            IN /\ h' = c.h
               /\ ev' = [queue |-> ev.queue \ {r}, fwd_env |-> ev.fwd_env, so_env |-> ev.so_env,
                         root |-> r, orig_src |-> SrcOf(r), orig_dst |-> c.dst,
                         orig_dst_end |-> c.dst_end, loc0 |-> c.loc0,
                         src |-> SrcOf(r), dst |-> c.dst, dst_end |-> c.dst_end,
                         inlining_underway |-> FALSE, inlining_underway_upto |-> 0,
                         burn |-> TRUE, forwarded |-> FALSE, worklist |-> <<ProcessTy>>]
    /\ pc' = "evacuate_packed"
    /\ UNCHANGED <<var, request, value, count>>

-----------------------------------------------------------------------------
(***************************************************************************)
(* evacuate_packed.  The head of ev.worklist is next_action; an empty      *)
(* worklist is the end of the loop, also after a break.                    *)
(***************************************************************************)
Acting(act) ==
    /\ Collecting("evacuate_packed")
    /\ ev.worklist # <<>>
    /\ Head(ev.worklist).act = act
AtTag(tags) == Acting("ProcessTy") /\ Tag(h.mem, ev.src) \in tags
Rest == Tail(ev.worklist)
Extend(f, k, v) == [a \in DOMAIN f \cup {k} |-> IF a = k THEN v ELSE f[a]]

\* write_forwarding_pointer_at(a, fwd, end - fwd)
ForwardAt(heap, a, fwd, end) == Store(heap, a, PtrCell("COPIED_TO", fwd, end - fwd))
Forwarding(fwd, end) == [to |-> fwd, footer |-> fwd + u16(end - fwd), fault |-> "none"]

\* The heap after the source has been burned with a forwarding pointer; first
\* with a seeded fault.
Unburned == h
BurnedAtSrc == IF ev.burn THEN ForwardAt(h, ev.src, ev.dst, ev.dst_end) ELSE h

RestoreSource ==
    /\ Acting("RestoreSrc")
    /\ LET to == Head(ev.worklist).src
       IN ev' = IF to = ev.inlining_underway_upto
                THEN [ev EXCEPT !.src = to, !.worklist = Rest,
                                !.inlining_underway = FALSE, !.burn = TRUE]
                ELSE [ev EXCEPT !.src = to, !.worklist = Rest]
    /\ UNCHANGED <<h, var, pc, request, value, count>>

WriteSkipover ==
    /\ Acting("SkipoverEnvWrite")
    /\ ev' = [ev EXCEPT !.so_env = Extend(@, Head(ev.worklist).at, ev.src), !.worklist = Rest]
    /\ UNCHANGED <<h, var, pc, request, value, count>>

\* The frame of write cursor x after its data has been copied up to the cursor.
WriterHereOldEnd(x) == [var EXCEPT ![x].wptr = ev.dst]   \* two seeded faults
WriterNotTold(x) == var
WriterHere(x) == [var EXCEPT ![x].wptr = ev.dst, ![x].wend = ev.dst_end]

\* CAUTERIZED_TAG: the write cursor's frame gets its new place; stop.
Uncauterize ==
    /\ AtTag({"CAUTERIZED"})
    /\ LET x == h.mem[ev.src].frame
           after == ev.src + PtrBytes
       IN /\ var' = WriterHere(x)
          /\ h' = ForwardAt(h, after, ev.dst, ev.dst_end)
          /\ ev' = [ev EXCEPT !.forwarded = TRUE, !.src = after, !.worklist = <<>>]
    /\ UNCHANGED <<pc, request, value, count>>

\* COPIED_TAG and COPIED_TO_TAG: an indirection to the copy, then skip over
\* the hole with the help of so_env.
PointToCopy ==
    /\ AtTag({"COPIED", "COPIED_TO"})
    /\ LET fwd == find_forwarding_pointer(ev.src)
           c == check_bounds(h, 32, ev.dst, ev.dst_end)
           h1 == add_old_to_old_indirection(
                   Store(c.h, c.dst, PtrCell("INDIRECTION", fwd.to, fwd.footer - fwd.to)),
                   c.dst_end, fwd.footer)
           known == ev.src \in DOMAIN ev.so_env
       IN /\ h' = IF fwd.fault # "none" THEN Fail(h, fwd.fault)
                  ELSE IF Rest # <<>> /\ ~known THEN Fail(h1, "panic: not in so_env")
                  ELSE h1
          /\ ev' = [ev EXCEPT !.forwarded = TRUE, !.worklist = Rest,
                              !.src = IF known THEN ev.so_env[@] ELSE 0,
                              !.dst = c.dst + PtrBytes, !.dst_end = c.dst_end]
    /\ UNCHANGED <<var, pc, request, value, count>>

\* The action that takes src back behind an inlined indirection.  It is there
\* even when nothing follows: the seeded fault is the tail optimization that
\* was given up for redirections in inlined data.
ReturnUnlessLast(after) == IF Rest = <<>> THEN <<>> ELSE <<RestoreSrc(after, ev.dst, ev.dst_end)>>
Return(after) == <<RestoreSrc(after, ev.dst, ev.dst_end)>>

\* INDIRECTION_TAG with the pointee in the nursery: evacuate it in place, and
\* come back for what follows the indirection.
InlineIndirection ==
    /\ AtTag({"INDIRECTION"})
    /\ contains_addr(h.mem[ev.src].to)
    /\ LET pointee == h.mem[ev.src].to
           footer == pointee + h.mem[ev.src].offset
           after == ev.src + PtrBytes
           h1 == BurnedAtSrc
           skip == IF ev.burn /\ (ev.root.prov = "RemSet" \/ ~is_loc0(h1, pointee, footer))
                   THEN <<SkipoverEnvWrite(pointee)>> ELSE <<>>
       IN /\ h' = h1
          /\ ev' = [ev EXCEPT
                      !.forwarded = @ \/ ev.burn,
                      !.worklist = <<ProcessTy>> \o skip \o Return(after) \o Rest,
                      !.inlining_underway = TRUE,
                      !.inlining_underway_upto = IF ev.inlining_underway THEN @ ELSE after,
                      !.src = pointee]
    /\ UNCHANGED <<var, pc, request, value, count>>

\* INDIRECTION_TAG with the pointee in the old generation: keep it.
KeepIndirection ==
    /\ AtTag({"INDIRECTION"})
    /\ ~contains_addr(h.mem[ev.src].to)
    /\ LET cell == h.mem[ev.src]
           footer == cell.to + cell.offset
           after == ev.src + PtrBytes
           c == check_bounds(BurnedAtSrc, 32, ev.dst, ev.dst_end)
           h1 == add_old_to_old_indirection(Store(c.h, c.dst, cell), c.dst_end, footer)
       IN /\ h' = h1
          /\ ev' = [ev EXCEPT
                      !.forwarded = @ \/ ev.burn,
                      !.so_env = IF ev.burn /\ (ev.root.prov = "RemSet" \/ ~is_loc0(h1, cell.to, footer))
                                 THEN Extend(@, ev.src, after) ELSE @,
                      !.src = after, !.dst = c.dst + PtrBytes, !.dst_end = c.dst_end,
                      !.worklist = Rest]
    /\ UNCHANGED <<var, pc, request, value, count>>

\* evacuate_packed_simpl: copy what lies at src up to the first redirection,
\* inclusive, into the chunk (dst, dst_end).  Only ProcessTy is ever on its
\* worklist, of which k counts the elements.  SimplStep is one iteration, if there
\* is one.
SimplStep(s, src_end) ==
    LET Finish(g) == [s EXCEPT !.h = g, !.k = 0]
        cell == s.h.mem[s.src]
        tag == Tag(s.h.mem, s.src)
    IN IF s.k = 0 \/ s.h.fault # "none" THEN s ELSE
       CASE tag = "REDIRECTION" -> Finish(Store(s.h, s.dst, cell))
         [] tag = "INDIRECTION" ->
              LET c == check_bounds(s.h, 32, s.dst, s.dst_end)
                  footer == cell.to + cell.offset
                  h1 == add_old_to_old_indirection(Store(c.h, c.dst, cell), s.dst_end, footer)
              IN [h |-> remove_old_to_old_indirection(h1, src_end, footer),
                  src |-> s.src + PtrBytes, dst |-> c.dst + PtrBytes,
                  dst_end |-> c.dst_end, k |-> s.k]
         [] tag \in Con ->
              LET c == check_bounds(s.h, 32 + ScalarBytes[tag], s.dst, s.dst_end)
              IN [h |-> Store(c.h, c.dst, cell),
                  src |-> s.src + SizeOf(cell), dst |-> c.dst + SizeOf(cell),
                  dst_end |-> c.dst_end, k |-> s.k - 1 + Fields[tag]]
         [] OTHER -> Finish(Fail(s.h, "panic: unexpected tag in simpl"))

evacuate_packed_simpl(heap, src, src_end, dst, dst_end) ==
    LET state[n \in Nat] ==
          IF n = 0 THEN [h |-> heap, src |-> src, dst |-> dst, dst_end |-> dst_end, k |-> 1]
          ELSE SimplStep(state[n - 1], src_end)
    IN state[Fuel].h

\* REDIRECTION_TAG into the old generation while an indirection is being
\* inlined: undo the inlining.  What has been copied since the indirection
\* moves to a new region, and an indirection to it takes its place.
AbortInlining ==
    /\ AtTag({"REDIRECTION"})
    /\ ~contains_addr(h.mem[ev.src].to)
    /\ ev.inlining_underway
    /\ LET found == {i \in DOMAIN Rest : Rest[i].act = "RestoreSrc"}
       IN IF found = {}
          THEN h' = Fail(BurnedAtSrc, "panic: no RestoreSrc") /\ UNCHANGED ev
          ELSE LET top == Rest[Min(found)]
                   new == FreshRegion(Store(BurnedAtSrc, ev.dst, h.mem[ev.src]), CHUNK_SIZE, 0)
                   h1 == evacuate_packed_simpl(new.h, top.dst, top.dst_end, new.dst, new.dst_end)
                   c == check_bounds(h1, 32, top.dst, top.dst_end)
                   h2 == Store(c.h, c.dst, PtrCell("INDIRECTION", new.dst, new.dst_end - new.dst))
               IN /\ h' = add_old_to_old_indirection(h2, c.dst_end, new.dst_end)
                  /\ ev' = [ev EXCEPT
                              !.forwarded = @ \/ ev.burn,
                              !.src = top.src, !.dst = c.dst + PtrBytes, !.dst_end = top.dst_end,
                              !.worklist = SubSeq(Rest, Min(found) + 1, Len(Rest))]
    /\ UNCHANGED <<var, pc, request, value, count>>

\* REDIRECTION_TAG into the old generation, not inlining: the copy continues
\* there too, and the two regions become one.  Stop.
ReconcileRegions ==
    /\ AtTag({"REDIRECTION"})
    /\ ~contains_addr(h.mem[ev.src].to)
    /\ ~ev.inlining_underway
    /\ LET cell == h.mem[ev.src]
           footer1 == ev.dst_end
           footer2 == cell.to + cell.offset
           h1 == Store(BurnedAtSrc, ev.dst, cell)
           r1 == RegOf(h1, footer1)
           r2 == RegOf(h1, footer2)
       IN h' = IF ~IsFooter(h1, footer1) \/ ~IsFooter(h1, footer2) THEN Fail(h1, "wild")
               ELSE [h1 EXCEPT
                      !.regs[r2] = [refcount |-> u16(@.refcount + h1.regs[r1].refcount),
                                    outset |-> @.outset \cup h1.regs[r1].outset,
                                    first |-> h1.regs[r1].first],
                      !.mem[footer1] = [@ EXCEPT !.next = footer2, !.reg_info = r2]]
    /\ ev' = [ev EXCEPT !.forwarded = @ \/ ev.burn, !.src = @ + PtrBytes,
                        !.dst = @ + PtrBytes, !.worklist = <<>>]
    /\ UNCHANGED <<var, pc, request, value, count>>

\* Any other tag.  A data constructor: copy it with its scalars, burn it, and go
\* on with its fields.  The forwarding pointer is to dst as it was before the
\* bounds check.  Where there is no constructor the info table has no entry
\* (get_unchecked).
Reserved == {"COPIED", "COPIED_TO", "CAUTERIZED", "INDIRECTION", "REDIRECTION"}
CopyConstructor ==
    /\ Acting("ProcessTy")
    /\ Tag(h.mem, ev.src) \notin Reserved
    /\ IF Tag(h.mem, ev.src) \notin Con THEN h' = Fail(h, "wild") /\ UNCHANGED ev
       ELSE LET cell == h.mem[ev.src]
                bytes == ScalarBytes[cell.tag]
                c == check_bounds(h, 32 + bytes, ev.dst, ev.dst_end)
                h1 == Store(c.h, c.dst, cell)
                skip == IF ev.burn /\ ev.root.prov = "RemSet"
                        THEN <<SkipoverEnvWrite(ev.src)>> ELSE <<>>
            IN /\ h' = IF ~ev.burn THEN h1
                       ELSE IF bytes >= 8 THEN ForwardAt(h1, ev.src, ev.dst, ev.dst_end)
                       ELSE [h1 EXCEPT !.mem = Burn(@, ev.src, 1 + bytes)]
               /\ ev' = [ev EXCEPT
                           !.forwarded = IF ev.burn THEN bytes >= 8 ELSE @,
                           !.worklist = [i \in 1 .. Fields[cell.tag] |-> ProcessTy] \o skip \o Rest,
                           !.src = @ + SizeOf(cell), !.dst = c.dst + SizeOf(cell),
                           !.dst_end = c.dst_end]
    /\ UNCHANGED <<var, pc, request, value, count>>

\* Whether the end of the burned data must be marked: always for a remembered
\* root, otherwise when the last thing burned could not hold a forwarding
\* pointer.
MustForward(r) == r.prov = "RemSet" \/ ~ev.forwarded

\* The end of evacuate_packed, and evacuate_nursery_root or
\* evacuate_remset_root after it.
FinishRoot ==
    /\ Collecting("evacuate_packed")
    /\ ev.worklist = <<>>
    /\ LET r == ev.root
           updated == IF r.prov = "Stk" THEN h
                      ELSE add_to_outset(
                             Store(h, r.ptr - 1, PtrCell("INDIRECTION", ev.orig_dst,
                                                         ev.orig_dst_end - ev.orig_dst)),
                             r.endptr, ev.orig_dst_end)
           mark == MustForward(r)
       IN /\ h' = IF ~(mark /\ ev.loc0) THEN updated
                  ELSE IF ev.src = 0 THEN Fail(updated, "wild")
                  ELSE ForwardAt(updated, ev.src, ev.dst, ev.dst_end)
          /\ ev' = [queue |-> ev.queue,
                    so_env |-> IF ev.burn THEN Extend(ev.so_env, ev.orig_src, ev.src) ELSE ev.so_env,
                    fwd_env |-> IF mark /\ ~ev.loc0
                                THEN Extend(ev.fwd_env, ev.src, Forwarding(ev.dst, ev.dst_end))
                                ELSE ev.fwd_env]
          /\ var' = IF r.prov = "Stk"
                    THEN [var EXCEPT ![r.x].ptr = ev.orig_dst, ![r.x].endptr = ev.orig_dst_end]
                    ELSE var
    /\ pc' = "roots"
    /\ UNCHANGED <<request, value, count>>

\* restore_writers, one iteration: a write cursor that was not reached gets a
\* region of its own.
RestoreWriter(x) ==
    /\ Collecting("roots")
    /\ ev.queue = {}
    /\ x \in Writers
    /\ contains_addr(var[x].wptr)
    /\ LET c == FreshRegion(h, CHUNK_SIZE, 0)
       IN /\ h' = c.h
          /\ var' = [var EXCEPT ![x].wptr = c.dst, ![x].wend = c.dst_end]
    /\ UNCHANGED <<pc, ev, request, value, count>>

\* The end of garbage_collect: the remembered set and the nursery are cleared,
\* dead regions are collected.  Nursery::clear only resets alloc; what is left
\* below it counts as overwritten from here on.
OldAddresses == {a \in DOMAIN h.mem : ~contains_addr(a)}
CollectRegions ==
    /\ Collecting("roots")
    /\ ev.queue = {}
    /\ \A x \in Writers : ~contains_addr(var[x].wptr)
    /\ h' = collect_regions([h EXCEPT !.rem_set = {}, !.alloc = heap_end,
                                      !.mem = [a \in OldAddresses |-> @[a]]])
    /\ pc' = "resume"
    /\ UNCHANGED <<var, ev, request, value, count>>

\* Back in gib_alloc_region_in_nursery_slow.
Resume ==
    /\ Collecting("resume")
    /\ h' = IF Fits(request.size) THEN NurseryChunk(request.size) ELSE Fail(h, "exit: no space")
    /\ var' = OpenRegion(request.x, h.alloc - request.size - NurseryFooterBytes,
                         h.alloc - NurseryFooterBytes)
    /\ pc' = "mutator"
    /\ ev' = NoEvac
    /\ request' = NoRequest
    /\ UNCHANGED count
    /\ value' = AllValues(h', var')

Evacuate ==
    \/ SkipOldRoot \/ evacuate_copied \/ StartRoot
    \/ RestoreSource \/ WriteSkipover \/ Uncauterize \/ PointToCopy
    \/ InlineIndirection \/ KeepIndirection \/ AbortInlining \/ ReconcileRegions
    \/ CopyConstructor \/ FinishRoot

Next ==
    \/ \E x \in Var, size \in RegionSizes :
         AllocFast(x, size) \/ AllocOnHeap(x, size) \/ StartCollection(x, size)
    \/ \E x \in Var, con \in Con, b \in BOOLEAN : WriteCon(x, con, b)
    \/ \E x, y \in Var, b \in BOOLEAN : WriteIndirection(x, y, b)
    \/ \E x, y \in Var, i \in 1 .. Fuel : ReadPart(x, y, i)
    \/ \E x \in Var : Drop(x) \/ RestoreWriter(x)
    \/ Evacuate
    \/ CollectRegions \/ Resume

Spec == Init /\ [][Next]_vars

-----------------------------------------------------------------------------
\* Cells do not overlap, the nursery's chunks lie above alloc, and what has been
\* handed back are footers.
TypeOK ==
    /\ var \in [Var -> [{"ptr", "endptr", "wptr", "wend", "todo"} -> Nat]]
    /\ pc \in {"mutator", "roots", "evacuate_packed", "resume"}
    /\ h.alloc \in heap_start .. heap_end
    /\ \A a, b \in DOMAIN h.mem : a < b => a + SizeOf(h.mem[a]) <= b
    /\ h.released \subseteq {f \in DOMAIN h.mem : h.mem[f].tag = "footer"}

\* An inlining that is undone finds room in its chunk for the indirection that takes
\* its place.  Where it does not, the indirection goes to a new chunk but dst_end goes
\* back to old_dst_end (AbortInlining), and check_bounds passes from then on whatever
\* is left.
UndoneInPlace ==
    LET found == {i \in DOMAIN Rest : Rest[i].act = "RestoreSrc"}
    IN (/\ AtTag({"REDIRECTION"})
        /\ ~contains_addr(h.mem[ev.src].to)
        /\ ev.inlining_underway
        /\ found # {})
       => Rest[Min(found)].dst_end - Rest[Min(found)].dst >= 32

\* Every value a read cursor stood for before the collection is there after
\* it, constructor by constructor, and a value under construction still ends
\* at the cursor that writes it.
ValuesPreserved ==
    pc = "resume" => AllValues(h, var) = value

\* No panic!, and no metadata read from where there is none.
NoFault == h.fault = "none"

\* Linear programs with memory to spare stop the collector at one place only: at a
\* redirection behind an inlining that was undone, of which the copy has the
\* indirection to a younger region to show.  AbortInlining leaves inlining_underway
\* set, and there is no RestoreSrc left on the worklist to undo.  No other panic!, and
\* no metadata read from where there is none.
StopsBehindUndone ==
    h.fault # "none" =>
      /\ h.fault = "panic: no RestoreSrc"
      /\ \E a \in DOMAIN h.mem : /\ ev.orig_dst <= a /\ a < ev.dst
                                /\ h.mem[a].tag = "INDIRECTION" /\ ev.orig_dst < h.mem[a].to

V == INSTANCE Values WITH Id <- 0 .. MaxWrites, val <- value

\* The heap implements Values: whatever was promoted, inlined, redirected or
\* shared, the program reads the values it has written, and a collection is no
\* step at all for it.
ImplementsValues == V!Spec

OldFooters == {f \in DOMAIN h.mem : h.mem[f].tag = "footer"}
\* The footer of the chunk an old address lies in.
ChunkOf(a) == Min({f \in OldFooters : f >= a})

\* Between collections a pointer from the old generation into the nursery is
\* an indirection that the remembered set knows of.
YoungPointersRemembered ==
    pc = "mutator" =>
      \A a \in DOMAIN h.mem :
        (/\ ~contains_addr(a)
         /\ h.mem[a].tag \in {"INDIRECTION", "REDIRECTION"}
         /\ contains_addr(h.mem[a].to))
        => /\ h.mem[a].tag = "INDIRECTION"
           /\ \E f \in h.rem_set : f.ptr = a + 1

\* e is a footer of the region that the old address a lies in.  An end serves
\* only to get there (evacuate_nursery_root), so it need not be the next one.
EndsRegionOf(e, a) == IsFooter(h, e) /\ RegOf(h, e) = RegOf(h, ChunkOf(a))

\* After a collection no cursor of the program is left in the nursery, a read
\* cursor's end is a footer of its region, and a write cursor's the footer of
\* its chunk.
CursorsPromoted ==
    pc = "resume" =>
      /\ \A x \in Readers : ~contains_addr(var[x].ptr) /\ EndsRegionOf(var[x].endptr, var[x].ptr)
      /\ \A x \in Writers : ~contains_addr(var[x].wptr) /\ var[x].wend = ChunkOf(var[x].wptr)

\* When the nursery has been cleared nothing leads into it any more: no cursor of
\* the program and no pointer of the old generation (garbage_collect).
NurseryLeft ==
    pc = "resume" =>
      /\ \A x \in Readers : ~contains_addr(var[x].ptr)
      /\ \A x \in Writers : ~contains_addr(var[x].wptr)
      /\ \A a \in DOMAIN h.mem :
           ~contains_addr(a) /\ h.mem[a].tag \in {"INDIRECTION", "REDIRECTION"}
             => ~contains_addr(h.mem[a].to)

\* The tag of an indirection leads to a footer of its target's region.
IndirectionsTagged ==
    pc = "mutator" =>
      \A a \in DOMAIN h.mem :
        (/\ ~contains_addr(a)
         /\ h.mem[a].tag = "INDIRECTION"
         /\ ~contains_addr(h.mem[a].to))
        => EndsRegionOf(h.mem[a].to + h.mem[a].offset, h.mem[a].to)

\* An indirection from one old region to another is in the outset of the first,
\* and the count of a region covers the outsets it is in.
OldPointersCounted ==
    pc = "mutator" =>
      /\ \A a \in DOMAIN h.mem :
           (/\ ~contains_addr(a)
            /\ h.mem[a].tag = "INDIRECTION"
            /\ ~contains_addr(h.mem[a].to))
           => LET from == RegOf(h, ChunkOf(a))
                  to == RegOf(h, ChunkOf(h.mem[a].to))
              IN from = to \/ to \in h.regs[from].outset
      /\ \A r \in DOMAIN h.regs :
           Cardinality({q \in DOMAIN h.regs :
                          /\ r \in h.regs[q].outset
                          /\ h.regs[q].first \notin h.released})
           <= h.regs[r].refcount

\* collect_regions hands back no chunk that the program can still reach.
NothingLiveReleased ==
    pc = "resume" =>
      /\ \A x \in Readers :
           LET tokens == ValueOf(h, var, x)
           IN \A i \in DOMAIN tokens :
                contains_addr(tokens[i].at) \/ ChunkOf(tokens[i].at) \notin h.released
      /\ \A x \in Writers : ChunkOf(var[x].wptr) \notin h.released

\* A step leaves every footer of the old generation in its place.
KeepsFooters == h'.fault = "none" => \A f \in OldFooters : IsFooter(h', f)

\* The collector never writes over the footer of a chunk: not where its cursor comes
\* to the end of the chunk, where it goes back to undo an inlining, or where it
\* changes a remembered pointer (check_bounds, evacuate_packed).
CollectorKeepsFooters == [][pc # "mutator" \/ pc' # "mutator" => KeepsFooters]_vars

\* Nor does the program: there is always room left for the redirection that leads
\* on when a chunk is full (gib_grow_region; ThreadRegions2.hs, boundsCheck).
FootersIntact == [][KeepsFooters]_vars

\* What the growth of a region in the old generation is given as its end is a footer:
\* the ends of the program's write cursors, and the end of the chunk copied to.
EndsAreFooters ==
    h.fault = "none" =>
      /\ \A x \in Writers : ~contains_addr(var[x].wptr) => IsFooter(h, var[x].wend)
      /\ pc = "evacuate_packed" /\ ev.worklist # <<>> => IsFooter(h, ev.dst_end)

\* The metadata of regions hangs together: a footer has the information of a region
\* and leads to another footer or none, a region starts at a footer, and its outset
\* and the zero-count tables are of regions.  So whatever free_region and
\* collect_regions follow is metadata, also after two regions have been merged.
MetadataLinked ==
    h.fault = "none" =>
      /\ \A f \in OldFooters :
           /\ h.mem[f].reg_info \in DOMAIN h.regs
           /\ h.mem[f].next = 0 \/ IsFooter(h, h.mem[f].next)
      /\ \A r \in DOMAIN h.regs :
           /\ h.regs[r].refcount \in Counts
           /\ h.regs[r].outset \subseteq DOMAIN h.regs
           /\ IsFooter(h, h.regs[r].first)
      /\ h.old_zct \cup h.new_zct \subseteq DOMAIN h.regs

\* What a collection has left to do: roots to evacuate and write cursors to
\* restore, source data that is not burned, actions on the worklist, the rest.
Unrestored == {x \in Writers : contains_addr(var[x].wptr)}
Intact == {a \in DOMAIN h.mem : contains_addr(a) /\ ~Burned(a)}
CollectionWork ==
    <<Cardinality(ev.queue) + Cardinality(Unrestored),
      Cardinality(Intact),
      IF pc = "evacuate_packed" THEN 1 + Len(ev.worklist) ELSE 0,
      IF pc = "resume" THEN 0 ELSE 1>>
Less(s, t) == \E i \in DOMAIN s : s[i] < t[i] /\ \A j \in 1 .. i - 1 : s[j] <= t[j]

\* A collection ends: each of its steps leaves less to do, whatever was inlined,
\* met twice or undone.  The worklist alone does not get shorter, and src goes
\* back to data that was left behind; only burning keeps the loop from coming
\* to the same data again (evacuate_packed).
CollectionEnds ==
    [][pc # "mutator" /\ pc' # "mutator" /\ h'.fault = "none"
         => Less(CollectionWork', CollectionWork)]_vars
=============================================================================

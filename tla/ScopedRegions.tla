---------------------------- MODULE ScopedRegions ---------------------------
(***************************************************************************)
(* Regions in the non-generational build (_GIBBON_GENGC = 0): every region *)
(* is allocated on the heap with a reference count of one that stands for  *)
(* its scope, every indirection is recorded as old-to-old, and the         *)
(* compiled program calls gib_free_region when a region leaves its scope   *)
(* (Codegen.hs, FreeBuffer).                                               *)
(*                                                                         *)
(* The program is the environment: it holds cursors into chunks, follows   *)
(* indirections and redirections with them, and writes at the end of the   *)
(* regions it has in scope.  EASY_OLDGEN_COLLECTION keeps the memory and   *)
(* the metadata of a freed region, which a count that wrapped may leave in *)
(* use, so they go on being read as they were.                             *)
(***************************************************************************)
EXTENDS RegionInfo

CONSTANT MaxIndirections   \* bound of the model

VARIABLES
    reg_info, next, refcount, outset,  \* the metadata, see RegionInfo
    inds,     \* the indirections in memory: <<source chunk, target chunk>>
    scope,    \* regions whose letregion has not ended
    held,     \* chunks the program has a cursor into
    frees,    \* how often the loop of free_region has visited a chunk
    freed,    \* regions gib_free_region_ has been called on
    nullZct,  \* free_region has inserted into its zct argument, null here
    wrapped   \* a count has gone past its sixteen bits

metaVars == <<reg_info, next, refcount, outset>>
vars == <<reg_info, next, refcount, outset, inds, scope, held, frees, freed, nullZct,
          wrapped>>

Regions == {r \in Chunk : reg_info[r] = r}
ChunksOf(r) == {c \in Chunk : reg_info[c] = r}
Fresh == {c \in Chunk : reg_info[c] = NULL}
Released == {c \in Chunk : frees[c] > 0}
Referrers(r) == {a \in Regions \ freed : r \in outset[a]}

Allocated == Chunk \ Fresh

\* Every chunk that is in use anywhere is allocated and belongs to one region, named
\* by the region's first chunk, over any number of growths; next stays within the
\* region, only regions are in outsets, and a region in scope is not freed
\* (gib_alloc_region_on_heap, gib_grow_region, add_to_outset).
TypeOK ==
    /\ reg_info \in [Chunk -> Regions \cup {NULL}]
    /\ next \in [Chunk -> Allocated \cup {NULL}]
    /\ \A c \in Chunk : next[c] # NULL => reg_info[c] = reg_info[next[c]]
    /\ refcount \in [Chunk -> Refcount]
    /\ outset \in [Chunk -> SUBSET Regions]
    /\ inds \in SUBSET (Allocated \X Allocated)
    /\ held \in SUBSET Allocated
    /\ scope \in SUBSET (Regions \ freed)
    /\ freed \in SUBSET Regions
    /\ frees \in [Chunk -> Nat]
    /\ nullZct \in BOOLEAN /\ wrapped \in BOOLEAN

Init ==
    /\ reg_info = [c \in Chunk |-> NULL]
    /\ next = [c \in Chunk |-> NULL]
    /\ refcount = [c \in Chunk |-> 0]
    /\ outset = [c \in Chunk |-> {}]
    /\ inds = {}
    /\ scope = {}
    /\ held = {}
    /\ frees = [c \in Chunk |-> 0]
    /\ freed = {}
    /\ nullZct = FALSE
    /\ wrapped = FALSE

-----------------------------------------------------------------------------
\* Variants with a seeded fault, for the sensitivity of the checks: each is the
\* definition that follows it, or one of RegionInfo, with one change.
FirstCountZero == 0
FooterItself(c) == c
LastOrSecondLast(r) == refcount[r] <= 2
HandedBackWithOutset(r, c) ==
    Chain(c, next) \cup UNION {Chain(o, next) : o \in {x \in outset[r] : refcount[x] = 2}}

\* The count gib_alloc_region_on_heap starts a region with: its scope.
FirstCount == 1

\* gib_grow_region: the region that a chunk joins which is linked to chunk c.
GrownRegion(c) == reg_info[c]

\* gib_free_region: the scope is all that still refers to r.
LastReference(r) == refcount[r] = 1

\* The chunks that freeing region r from the footer c on hands back.
HandedBack(r, c) == Chain(c, next)

\* gib_alloc_region_on_heap: a fresh chunk whose footer starts a new region
\* with refcount 1 (gib_init_footer_at).
gib_alloc_region_on_heap(c) ==
    /\ c \in Fresh
    /\ reg_info' = [reg_info EXCEPT ![c] = c]
    /\ refcount' = [refcount EXCEPT ![c] = FirstCount]
    /\ scope' = scope \cup {c}
    /\ held' = held \cup {c}
    /\ UNCHANGED <<next, outset, inds, frees, freed, nullZct, wrapped>>

\* gib_grow_region with a footer outside the nursery: a fresh chunk d joins
\* the region of the chunk c the write cursor is in, c's footer links to it,
\* and the write cursor moves there.
gib_grow_region(c, d) ==
    /\ c \in held
    /\ reg_info[c] \in scope
    /\ next[c] = NULL
    /\ d \in Fresh
    /\ reg_info' = [reg_info EXCEPT ![d] = GrownRegion(c)]
    /\ next' = [next EXCEPT ![c] = d]
    /\ held' = held \cup {d}
    /\ UNCHANGED <<refcount, outset, inds, scope, frees, freed, nullZct, wrapped>>

\* gib_indirection_barrier: an indirection from the chunk c being written to
\* data in chunk t.  The footers passed are the ends of the two regions as
\* the program knows them, so the target's may be that of another chunk of
\* its region.  Chains of indirections are followed before the write; the
\* program may equally hold the end of the chain, so t is that end.
gib_indirection_barrier(c, t, to_footer) ==
    /\ {c, t, to_footer} \subseteq held
    /\ reg_info[c] \in scope
    /\ next[c] = NULL
    /\ reg_info[to_footer] = reg_info[t]
    /\ inds' = inds \cup {<<c, t>>}
    /\ Cardinality(inds') <= MaxIndirections
    /\ outset' = OutsetAfterAdd(c, to_footer, reg_info, outset)
    /\ refcount' = RefcountAfterAdd(c, to_footer, reg_info, outset, refcount)
    /\ wrapped' = (wrapped \/ Wraps(c, to_footer, reg_info, outset, refcount))
    /\ UNCHANGED <<reg_info, next, scope, held, frees, freed, nullZct>>

\* Leaving the scope of region r with the end cursor in chunk c: FreeBuffer
\* calls gib_free_region, which frees the region from that footer on when the
\* count is one and does nothing otherwise.  The program keeps no cursor into r.
gib_free_region(r, c) ==
    /\ r \in scope
    /\ c \in ChunksOf(r) \cap held
    /\ scope' = scope \ {r}
    /\ held' = held \ ChunksOf(r)
    /\ IF LastReference(r)
       THEN LET rc == [refcount EXCEPT ![r] = Drop(@)]
            IN /\ refcount' = RefcountAfterFree(r, outset, rc)
               /\ nullZct' = (nullZct \/ ZeroAfterFree(r, outset, rc) # {})
               /\ frees' = [d \in Chunk |-> IF d \in HandedBack(r, c)
                                            THEN frees[d] + 1 ELSE frees[d]]
               /\ freed' = freed \cup {r}
       ELSE UNCHANGED <<refcount, nullZct, frees, freed>>
    /\ UNCHANGED <<reg_info, next, outset, inds, wrapped>>

\* The program reads an indirection or a redirection in a chunk it holds and
\* gets a cursor into the target.  It is never made to drop one before the
\* region goes out of scope, which asks the most of the RTS.
Follow(c, t) ==
    /\ c \in held
    /\ t \notin held
    /\ <<c, t>> \in inds \/ next[c] = t
    /\ held' = held \cup {t}
    /\ UNCHANGED <<metaVars, inds, scope, frees, freed, nullZct, wrapped>>

Next ==
    \/ \E c \in Chunk : gib_alloc_region_on_heap(c)
    \/ \E c, d \in Chunk : gib_grow_region(c, d) \/ gib_free_region(c, d) \/ Follow(c, d)
    \/ \E c, t, f \in Chunk : gib_indirection_barrier(c, t, f)

Spec == Init /\ [][Next]_vars

-----------------------------------------------------------------------------
\* The count of a region that has not been freed is one for its scope, kept
\* after the scope ends, and one per unfreed region with it in its outset, as far
\* as a u16 can tell: also after a count has wrapped and regions still referred
\* to have been freed (add_old_to_old_indirection against free_region).
RefcountExact ==
    \A r \in Regions \ freed :
      refcount[r] = (Cardinality(Referrers(r)) + 1) % RefcountMod

\* Until a count wraps, no cursor of the program, and no indirection in a region
\* that has not been freed, leads to a chunk that free_region has handed back.
NoDangling ==
    wrapped \/
    /\ held \cap Released = {}
    /\ \A c, t \in Chunk :
         <<c, t>> \in inds /\ reg_info[c] \notin freed => t \notin Released

\* The loop of free_region visits no chunk twice, over all calls.
FreedOnce == \A c \in Chunk : frees[c] <= 1

\* gib_free_region_ passes a null zct, and until a count wraps free_region never
\* inserts into it.
NullZctUnused == nullZct => wrapped

\* gibbon_rts.c promises of this scheme that "all regions will eventually be
\* garbage collected before the program exits": once every scope has ended
\* none is left, not counting regions that refer to themselves.
AllCollectedAtExit ==
    scope = {} /\ (\A r \in Regions : r \notin outset[r]) => Regions \subseteq freed
=============================================================================

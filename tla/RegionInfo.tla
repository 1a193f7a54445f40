----------------------------- MODULE RegionInfo -----------------------------
(***************************************************************************)
(* The metadata of the old generation: GibRegionInfo objects and the       *)
(* footers of old-generation chunks (rts-c/gibbon_rts.h, GibRegionInfo and *)
(* GibOldgenChunkFooter), with the Rust functions of rts-ng/src/gc.rs that *)
(* read and write them.                                                    *)
(*                                                                         *)
(* A footer is identified with its chunk.  A GibRegionInfo is allocated by *)
(* init_footer_at together with the first footer of a fresh region, so it  *)
(* is identified with that chunk.  The fields are separate functions:      *)
(*                                                                         *)
(*   reg_info[c]  footer->reg_info, NULL while the chunk is not allocated  *)
(*   next[c]      footer->next                                             *)
(*   refcount[r]  reg_info->refcount, a uint16_t                           *)
(*   outset[r]    reg_info->outset, a HashSet of GibRegionInfo pointers    *)
(***************************************************************************)
EXTENDS Integers, FiniteSets

CONSTANTS Chunk,        \* the chunks malloc may return
          NULL,
          RefcountMod   \* 2^16 in the code

\* Any finite number of chunks, more than a reference count can tell apart included.
ASSUME ChunkAssumption ==
    /\ IsFiniteSet(Chunk)
    /\ NULL \notin Chunk
    /\ RefcountMod \in Nat
    /\ RefcountMod > 1

Refcount == 0 .. RefcountMod - 1

\* refcount += 1 and refcount -= 1 on a u16, as a release build computes them.
Bump(n) == IF n = RefcountMod - 1 THEN 0 ELSE n + 1
Drop(n) == IF n = 0 THEN RefcountMod - 1 ELSE n - 1

\* A variant with a seeded fault: an indirection is counted each time it is written.
CountEveryTime(from, to, reg, out, rc) ==
    IF from = to THEN rc ELSE [rc EXCEPT ![reg[to]] = Bump(@)]

\* The chunks the loop of free_region visits when it starts at footer c: the
\* least set with c in it that is closed under footer->next.
ClosedUnderNext(S, nxt) == \A x \in S : nxt[x] # NULL => nxt[x] \in S
Chain(c, nxt) ==
    {d \in Chunk : \A S \in SUBSET Chunk :
                     (c \in S /\ ClosedUnderNext(S, nxt)) => d \in S}

\* gc.rs add_old_to_old_indirection: nothing if both ends have one footer,
\* otherwise insert the target's region into the outset of the source's, and
\* bump its refcount if it was not there (add_to_outset, bump_refcount).
Recorded(from, to, reg, out) ==
    \/ from = to
    \/ reg[to] \in out[reg[from]]
OutsetAfterAdd(from, to, reg, out) ==
    IF from = to THEN out
    ELSE [out EXCEPT ![reg[from]] = @ \cup {reg[to]}]
RefcountAfterAdd(from, to, reg, out, rc) ==
    IF Recorded(from, to, reg, out) THEN rc
    ELSE [rc EXCEPT ![reg[to]] = Bump(@)]
\* The count goes past its sixteen bits: a panic in a debug build, unnoticed in
\* the release build the Makefile makes.
Wraps(from, to, reg, out, rc) ==
    ~Recorded(from, to, reg, out) /\ rc[reg[to]] = RefcountMod - 1

\* gc.rs free_region, first half: every region of the outset loses one count.
RefcountAfterFree(r, out, rc) ==
    [o \in Chunk |-> IF o \in out[r] THEN Drop(rc[o]) ELSE rc[o]]
\* ... and the ones that reach zero are inserted into the ZCT.
ZeroAfterFree(r, out, rc) == {o \in out[r] : Drop(rc[o]) = 0}
=============================================================================

------------------------- MODULE ScopedRegionsProofs ------------------------
(***************************************************************************)
(* The safety of the scoped reference counting of ScopedRegions, for any   *)
(* finite set of chunks, more than the 16-bit count can tell apart         *)
(* included.                                                               *)
(***************************************************************************)
EXTENDS ScopedRegions, FiniteSetTheorems, TLAPS

(***************************************************************************)
(* The inductive invariant.                                                *)
(***************************************************************************)

\* Only regions have outsets, and these cover the indirections in memory.
OutsetsOK ==
    /\ \A r \in Chunk \ Regions : outset[r] = {}
    /\ \A c, t \in Chunk : <<c, t>> \in inds =>
         reg_info[t] = reg_info[c] \/ reg_info[t] \in outset[reg_info[c]]

\* Until a count wraps, the counts are those of the outsets themselves, and no
\* region under a cursor or in the outset of an unfreed region is freed.
UseOK ==
    ~wrapped =>
    /\ \A r \in Regions \ freed : refcount[r] = Cardinality(Referrers(r)) + 1
    /\ \A c \in held : reg_info[c] \notin freed
    /\ \A a \in Regions \ freed : outset[a] \cap freed = {}

\* Chunks are handed back with their region, once.
FreesOK ==
    /\ \A c \in Chunk : frees[c] \in {0, 1}
    /\ \A c \in Chunk : reg_info[c] \notin freed => frees[c] = 0

IInv ==
    /\ TypeOK
    /\ OutsetsOK
    /\ UseOK
    /\ FreesOK
    /\ RefcountExact
    /\ NullZctUnused

-----------------------------------------------------------------------------
(***************************************************************************)
(* Arithmetic on the 16-bit count, and the size of sets of chunks.         *)
(***************************************************************************)

\* A set of chunks has a size.
LEMMA ChunkSets ==
    ASSUME NEW S \in SUBSET Chunk
    PROVE  /\ IsFiniteSet(S)
           /\ Cardinality(S) \in Nat
BY FS_Subset, FS_CardinalityType, ChunkAssumption

\* Adding a chunk to a set that lacks it, or removing one it has.
LEMMA AddRemove ==
    ASSUME NEW S \in SUBSET Chunk, NEW x \in Chunk
    PROVE  /\ x \notin S => Cardinality(S \cup {x}) = Cardinality(S) + 1
           /\ x \in S => Cardinality(S \ {x}) = Cardinality(S) - 1
BY ChunkSets, FS_AddElement, FS_RemoveElement

\* Bump and Drop stay within sixteen bits.
LEMMA CountsInRange ==
    ASSUME NEW n \in Refcount
    PROVE  Bump(n) \in Refcount /\ Drop(n) \in Refcount
BY ChunkAssumption DEF Bump, Drop, Refcount

\* Multiples of the modulus are at least that far apart.
LEMMA Multiples ==
    ASSUME NEW p \in Int, NEW q \in Int, p < q
    PROVE  RefcountMod * p + RefcountMod <= RefcountMod * q
  <1> DEFINE d == q - p - 1
  <1>1. d \in Nat /\ q = p + 1 + d
    OBVIOUS
  <1>2. RefcountMod * d \in Nat
    BY <1>1, ChunkAssumption
  <1>3. RefcountMod * (p + 1 + d) = RefcountMod * p + RefcountMod + RefcountMod * d
    BY <1>1, ChunkAssumption
  <1>4. RefcountMod * p \in Int
    BY ChunkAssumption
  <1> HIDE DEF d
  <1> QED
    BY <1>1, <1>2, <1>3, <1>4, ChunkAssumption

\* A number has one remainder.
LEMMA OneRemainder ==
    ASSUME NEW p \in Int, NEW q \in Int, NEW a \in Refcount, NEW b \in Refcount,
           RefcountMod * p + a = RefcountMod * q + b
    PROVE  a = b
  <1>1. RefcountMod * p \in Int /\ RefcountMod * q \in Int
    BY ChunkAssumption
  <1>2. ~(p < q)
    BY <1>1, Multiples, ChunkAssumption DEF Refcount
  <1>3. ~(q < p)
    BY <1>1, Multiples, ChunkAssumption DEF Refcount
  <1>4. p = q
    BY <1>2, <1>3
  <1> QED
    BY <1>1, <1>4 DEF Refcount

\* Division with remainder.
LEMMA Division ==
    ASSUME NEW n \in Int
    PROVE  /\ n \div RefcountMod \in Int
           /\ n % RefcountMod \in Refcount
           /\ n = RefcountMod * (n \div RefcountMod) + (n % RefcountMod)
BY ChunkAssumption DEF Refcount

\* Bump counts one up modulo 2^16.
LEMMA BumpMod ==
    ASSUME NEW n \in Int
    PROVE  (n + 1) % RefcountMod = Bump(n % RefcountMod)
  <1> DEFINE M == RefcountMod
             r == n % M
             q == n \div M
             p == (n + 1) \div M
  <1>1. /\ q \in Int /\ p \in Int /\ r \in Refcount /\ (n + 1) % M \in Refcount
        /\ n = M * q + r
        /\ n + 1 = M * p + ((n + 1) % M)
    BY Division
  <1>2. M * q \in Int /\ M * p \in Int /\ M \in Nat /\ M > 1
    BY <1>1, ChunkAssumption
  <1>3. CASE r = M - 1
    <2>1. M * (q + 1) = M * q + M
      BY <1>1, <1>2
    <2>2. M * (q + 1) + 0 = M * p + ((n + 1) % M)
      BY <1>1, <1>2, <1>3, <2>1
    <2>3. 0 \in Refcount /\ q + 1 \in Int
      BY <1>1, <1>2 DEF Refcount
    <2> HIDE DEF q, p, r
    <2>4. (n + 1) % M = 0
      BY <1>1, <2>2, <2>3, OneRemainder
    <2> QED
      BY <1>3, <2>4 DEF Bump, r
  <1>4. CASE r # M - 1
    <2>1. M * q + (r + 1) = M * p + ((n + 1) % M)
      BY <1>1, <1>2 DEF Refcount
    <2>2. r + 1 \in Refcount
      BY <1>1, <1>2, <1>4 DEF Refcount
    <2> HIDE DEF q, p, r
    <2>3. (n + 1) % M = r + 1
      BY <1>1, <2>1, <2>2, OneRemainder
    <2> QED
      BY <1>4, <2>3 DEF Bump, r
  <1> QED
    BY <1>3, <1>4

\* Drop takes Bump back.
LEMMA DropBump ==
    ASSUME NEW n \in Refcount
    PROVE  Drop(Bump(n)) = n
BY ChunkAssumption DEF Drop, Bump, Refcount

\* Drop counts one down modulo 2^16.
LEMMA DropMod ==
    ASSUME NEW n \in Int
    PROVE  (n - 1) % RefcountMod = Drop(n % RefcountMod)
  <1>1. n - 1 \in Int /\ (n - 1) + 1 = n
    OBVIOUS
  <1>2. (n - 1) % RefcountMod \in Refcount
    BY <1>1, Division
  <1>3. n % RefcountMod = Bump((n - 1) % RefcountMod)
    BY <1>1, BumpMod
  <1> QED
    BY <1>2, <1>3, DropBump

\* free_region's walk along footer->next stays inside a closed set.
LEMMA ChainWithin ==
    ASSUME NEW nxt, NEW c, NEW S \in SUBSET Chunk,
           c \in S, ClosedUnderNext(S, nxt)
    PROVE  Chain(c, nxt) \subseteq S
BY DEF Chain

-----------------------------------------------------------------------------
(***************************************************************************)
(* The initial state, and one lemma per action.                            *)
(***************************************************************************)

\* The empty heap satisfies the invariant.
LEMMA InitIInv == Init => IInv
  <1> SUFFICES ASSUME Init PROVE IInv
    OBVIOUS
  <1> USE ChunkAssumption
  <1>1. Regions = {} /\ freed = {} /\ Allocated = {}
    BY DEF Init, Regions, Allocated, Fresh
  <1>2. TypeOK
    <2>1. /\ reg_info \in [Chunk -> Regions \cup {NULL}]
          /\ next \in [Chunk -> Allocated \cup {NULL}]
          /\ outset \in [Chunk -> SUBSET Regions]
      BY DEF Init
    <2>2. refcount \in [Chunk -> Refcount] /\ frees \in [Chunk -> Nat]
      BY DEF Init, Refcount
    <2> QED
      BY <1>1, <2>1, <2>2 DEF Init, TypeOK
  <1>3. OutsetsOK /\ UseOK /\ FreesOK
    BY <1>1 DEF Init, OutsetsOK, UseOK, FreesOK
  <1>4. RefcountExact /\ NullZctUnused
    BY <1>1 DEF Init, RefcountExact, NullZctUnused
  <1> QED
    BY <1>2, <1>3, <1>4 DEF IInv

\* One is a count, and the count of a region without referrers.
LEMMA OneCounts == 1 \in Refcount /\ (0 + 1) % RefcountMod = 1
  <1>1. 1 \in Refcount /\ 0 \in Refcount
    BY ChunkAssumption DEF Refcount
  <1>2. 0 % RefcountMod = 0
    <2>1. 0 = RefcountMod * (0 \div RefcountMod) + (0 % RefcountMod)
      BY Division
    <2>2. RefcountMod * 0 = 0 /\ 0 \div RefcountMod \in Int /\ 0 % RefcountMod \in Refcount
      BY Division, ChunkAssumption
    <2>3. RefcountMod * 0 + 0 = RefcountMod * (0 \div RefcountMod) + (0 % RefcountMod)
      BY <2>1, <2>2
    <2> QED
      BY <1>1, <2>2, <2>3, OneRemainder
  <1>3. (0 + 1) % RefcountMod = Bump(0)
    BY <1>2, BumpMod
  <1> QED
    BY <1>1, <1>3, ChunkAssumption DEF Bump

\* A fresh region has count one and no referrers.
LEMMA AllocIInv ==
    ASSUME IInv, NEW c \in Chunk, gib_alloc_region_on_heap(c)
    PROVE  IInv'
  <1> USE ChunkAssumption DEF IInv, gib_alloc_region_on_heap, FirstCount
  <1>1. /\ Regions' = Regions \cup {c}
        /\ c \notin Regions
        /\ Fresh' = Fresh \ {c}
        /\ Allocated' = Allocated \cup {c}
    BY DEF TypeOK, Regions, Fresh, Allocated
  <1>2. TypeOK'
    <2>1. refcount' \in [Chunk -> Refcount]
      BY OneCounts DEF TypeOK
    <2>2. reg_info' \in [Chunk -> Regions' \cup {NULL}]
      BY <1>1 DEF TypeOK
    <2>3. \A d \in Chunk : next'[d] # NULL => reg_info'[d] = reg_info'[next'[d]]
      BY DEF TypeOK, Fresh, Allocated
    <2>4. /\ next' \in [Chunk -> Allocated' \cup {NULL}]
          /\ outset' \in [Chunk -> SUBSET Regions']
          /\ inds' \in SUBSET (Allocated' \X Allocated')
      BY <1>1 DEF TypeOK
    <2>5. /\ held' \in SUBSET Allocated'
          /\ scope' \in SUBSET (Regions' \ freed')
          /\ freed' \in SUBSET Regions'
      BY <1>1 DEF TypeOK
    <2> QED
      BY <2>1, <2>2, <2>3, <2>4, <2>5 DEF TypeOK
  <1>3. OutsetsOK' /\ FreesOK'
    BY <1>1 DEF TypeOK, OutsetsOK, FreesOK, Allocated, Fresh, Regions
  <1>4. ASSUME NEW r \in (Regions \ freed)'
        PROVE  \/ r = c /\ refcount'[r] = 1 /\ Cardinality(Referrers(r)') = 0
               \/ /\ r \in Regions \ freed /\ refcount'[r] = refcount[r]
                  /\ Referrers(r)' = Referrers(r)
    <2>1. Referrers(r)' = {a \in Regions \ freed : r \in outset[a]}
      BY <1>1 DEF Referrers, OutsetsOK
    <2>2. CASE r = c
      <3>1. Referrers(r)' = {}
        BY <1>1, <2>1, <2>2 DEF TypeOK, Regions
      <3> QED
        BY <2>2, <3>1, FS_EmptySet DEF TypeOK
    <2>3. CASE r # c
      BY <1>1, <2>1, <2>3 DEF Referrers, TypeOK
    <2> QED
      BY <2>2, <2>3
  <1>5. RefcountExact'
    BY <1>4, OneCounts DEF RefcountExact
  <1>6. UseOK'
    BY <1>1, <1>4 DEF TypeOK, UseOK, OutsetsOK, Regions, Fresh, Allocated
  <1>7. NullZctUnused'
    BY DEF NullZctUnused
  <1> QED
    BY <1>2, <1>3, <1>5, <1>6, <1>7

\* Growing a region adds a chunk and leaves every count and outset alone.
LEMMA GrowIInv ==
    ASSUME IInv, NEW c \in Chunk, NEW d \in Chunk, gib_grow_region(c, d)
    PROVE  IInv'
  <1> USE ChunkAssumption DEF IInv, gib_grow_region, GrownRegion
  <1>1. /\ Regions' = Regions
        /\ Fresh' = Fresh \ {d}
        /\ Allocated' = Allocated \cup {d}
        /\ reg_info[c] \in Regions \ freed
        /\ d \notin Regions
        /\ c # d
    BY DEF TypeOK, Regions, Fresh, Allocated
  <1>2. TypeOK'
    <2>1. reg_info' \in [Chunk -> Regions' \cup {NULL}]
      BY <1>1 DEF TypeOK
    <2>2. next' \in [Chunk -> Allocated' \cup {NULL}]
      BY <1>1 DEF TypeOK
    <2>3. \A x \in Chunk : next'[x] # NULL => reg_info'[x] = reg_info'[next'[x]]
      BY <1>1 DEF TypeOK, Fresh, Allocated
    <2> QED
      BY <1>1, <2>1, <2>2, <2>3 DEF TypeOK
  <1>3. OutsetsOK' /\ FreesOK'
    <2>1. \A x, y \in Chunk : <<x, y>> \in inds => x # d /\ y # d
      BY DEF TypeOK, Fresh, Allocated
    <2>2. OutsetsOK'
      BY <1>1, <2>1 DEF TypeOK, OutsetsOK
    <2>3. reg_info[d] \notin freed
      BY DEF TypeOK, Fresh, Regions
    <2>4. \A x \in Chunk \ {d} : reg_info'[x] = reg_info[x]
      BY DEF TypeOK
    <2>5. FreesOK'
      BY <2>3, <2>4 DEF FreesOK
    <2> QED
      BY <2>2, <2>5
  <1>4. UseOK'
    BY <1>1 DEF TypeOK, UseOK, Fresh, Allocated, Referrers
  <1>5. RefcountExact' /\ NullZctUnused'
    BY <1>1 DEF RefcountExact, NullZctUnused, Referrers
  <1> QED
    BY <1>2, <1>3, <1>4, <1>5

\* An indirection adds its source region to the referrers of its target
\* exactly when it bumps the target's count.
LEMMA BarrierIInv ==
    ASSUME IInv, NEW c \in Chunk, NEW t \in Chunk, NEW f \in Chunk,
           gib_indirection_barrier(c, t, f)
    PROVE  IInv'
  <1> USE ChunkAssumption DEF IInv, gib_indirection_barrier
  <1> DEFINE a == reg_info[c]
             b == reg_info[t]
  <1>1. /\ a \in Regions \ freed
        /\ b \in Regions
        /\ reg_info[f] = b
        /\ c \in Allocated /\ t \in Allocated
        /\ Regions' = Regions /\ Fresh' = Fresh /\ freed' = freed
        /\ Allocated' = Allocated
    BY DEF TypeOK, Regions, Fresh, Allocated
  <1>2. a \in Chunk /\ b \in Chunk
    BY <1>1 DEF Regions
  <1>3. TypeOK'
    <2>1. refcount' \in [Chunk -> Refcount]
      BY <1>1, <1>2, CountsInRange DEF TypeOK, RefcountAfterAdd
    <2>2. outset' \in [Chunk -> SUBSET Regions]
      BY <1>1, <1>2 DEF TypeOK, OutsetAfterAdd
    <2> QED
      BY <1>1, <2>1, <2>2 DEF TypeOK
  <1>4. FreesOK' /\ NullZctUnused'
    BY <1>1 DEF FreesOK, NullZctUnused
  <1>5. OutsetsOK'
    BY <1>1, <1>2 DEF OutsetsOK, TypeOK, OutsetAfterAdd
  <1>6. ASSUME NEW r \in Regions \ freed
        PROVE  \/ refcount'[r] = refcount[r] /\ Referrers(r)' = Referrers(r)
               \/ /\ r = b /\ refcount'[r] = Bump(refcount[r])
                  /\ Cardinality(Referrers(r)') = Cardinality(Referrers(r)) + 1
                  /\ ~wrapped' => refcount[r] # RefcountMod - 1
    <2>1. CASE Recorded(c, f, reg_info, outset) \/ r # b
      <3>1. Referrers(r)' = Referrers(r)
        BY <1>1, <1>2, <2>1 DEF Referrers, TypeOK, Recorded, OutsetAfterAdd
      <3>2. refcount'[r] = refcount[r]
        BY <1>1, <1>2, <2>1 DEF TypeOK, RefcountAfterAdd
      <3> QED
        BY <3>1, <3>2
    <2>2. CASE ~Recorded(c, f, reg_info, outset) /\ r = b
      <3>1. /\ a \notin Referrers(b)
            /\ Referrers(b)' = Referrers(b) \cup {a}
        BY <1>1, <1>2, <2>2 DEF Referrers, TypeOK, Recorded, OutsetAfterAdd
      <3>2. Referrers(b) \in SUBSET Chunk
        BY DEF Referrers, Regions
      <3>3. Cardinality(Referrers(b) \cup {a}) = Cardinality(Referrers(b)) + 1
        BY <1>2, <3>1, <3>2, AddRemove
      <3>4. refcount'[b] = Bump(refcount[b])
        BY <1>1, <1>2, <2>2 DEF TypeOK, RefcountAfterAdd
      <3>5. ~wrapped' => refcount[b] # RefcountMod - 1
        BY <1>1, <2>2 DEF Wraps
      <3> QED
        BY <2>2, <3>1, <3>3, <3>4, <3>5
    <2> QED
      BY <2>1, <2>2
  <1>7. \A r \in Regions : Cardinality(Referrers(r)) \in Nat
    BY ChunkSets DEF Referrers, Regions
  <1>8. RefcountExact'
    <2> SUFFICES ASSUME NEW r \in Regions \ freed
                 PROVE  refcount'[r] = (Cardinality(Referrers(r)') + 1) % RefcountMod
      BY <1>1 DEF RefcountExact
    <2> DEFINE n == Cardinality(Referrers(r)) + 1
    <2>1. n \in Int /\ refcount[r] = n % RefcountMod
      BY <1>7 DEF RefcountExact
    <2>2. (n + 1) % RefcountMod = Bump(n % RefcountMod)
      BY <2>1, BumpMod
    <2> QED
      BY <1>6, <2>1, <2>2
  <1>9. UseOK'
    <2> SUFFICES ASSUME ~wrapped'
                 PROVE  /\ \A r \in (Regions \ freed)' :
                             refcount'[r] = Cardinality(Referrers(r)') + 1
                        /\ \A x \in held' : reg_info'[x] \notin freed'
                        /\ \A x \in (Regions \ freed)' : outset'[x] \cap freed' = {}
      BY DEF UseOK
    <2>1. ~wrapped
      OBVIOUS
    <2>2. b \notin freed
      BY <2>1 DEF UseOK
    <2>3. \A r \in Regions \ freed : refcount[r] = Cardinality(Referrers(r)) + 1
      BY <2>1 DEF UseOK
    <2>4. \A r \in Regions \ freed : refcount'[r] = Cardinality(Referrers(r)') + 1
      BY <1>6, <1>7, <2>3 DEF Bump
    <2>5. \A x \in Regions \ freed : outset'[x] \cap freed = {}
      BY <1>1, <1>2, <2>1, <2>2 DEF UseOK, TypeOK, OutsetAfterAdd
    <2> QED
      BY <1>1, <2>1, <2>4, <2>5 DEF UseOK
  <1> QED
    BY <1>3, <1>4, <1>5, <1>8, <1>9

\* Freeing region r removes it from the referrers of exactly the regions whose
\* count it lowers; until a count wraps none of these reaches zero, since each
\* keeps the count of its own scope.
LEMMA FreeIInv ==
    ASSUME IInv, NEW r \in Chunk, NEW c \in Chunk, gib_free_region(r, c)
    PROVE  IInv'
  <1> USE ChunkAssumption DEF IInv
  <1>1. /\ r \in Regions \ freed
        /\ Regions' = Regions /\ Fresh' = Fresh /\ Allocated' = Allocated
        /\ scope' = scope \ {r} /\ held' = held \ ChunksOf(r)
        /\ UNCHANGED <<reg_info, next, outset, inds, wrapped>>
    BY DEF gib_free_region, TypeOK, Regions, Fresh, Allocated
  <1>2. OutsetsOK'
    BY <1>1 DEF OutsetsOK
  <1>3. CASE refcount[r] # 1
    <2>1. UNCHANGED <<refcount, nullZct, frees, freed>>
      BY <1>3 DEF gib_free_region, LastReference
    <2>2. \A x \in Chunk : Referrers(x)' = Referrers(x)
      BY <1>1, <2>1 DEF Referrers
    <2>3. TypeOK' /\ FreesOK' /\ NullZctUnused'
      BY <1>1, <2>1 DEF TypeOK, FreesOK, NullZctUnused
    <2>4. UseOK' /\ RefcountExact'
      BY <1>1, <2>1, <2>2 DEF UseOK, RefcountExact, Regions
    <2> QED
      BY <1>2, <2>3, <2>4
  <1>4. CASE refcount[r] = 1
    <2> DEFINE rc == [refcount EXCEPT ![r] = Drop(@)]
    <2>1. /\ refcount' = RefcountAfterFree(r, outset, rc)
          /\ nullZct' = (nullZct \/ ZeroAfterFree(r, outset, rc) # {})
          /\ frees' = [d \in Chunk |-> IF d \in Chain(c, next) THEN frees[d] + 1 ELSE frees[d]]
          /\ freed' = freed \cup {r}
          /\ c \in ChunksOf(r)
      BY <1>4 DEF gib_free_region, LastReference, HandedBack
    <2>2. ASSUME NEW o \in Regions \ freed, o # r
          PROVE  /\ rc[o] = refcount[o] /\ refcount[o] \in Refcount
                 /\ Cardinality(Referrers(o)) \in Nat
                 /\ Cardinality(Referrers(o)') \in Nat
                 /\ \/ /\ o \notin outset[r] /\ refcount'[o] = refcount[o]
                       /\ Referrers(o)' = Referrers(o)
                    \/ /\ o \in outset[r] /\ refcount'[o] = Drop(refcount[o])
                       /\ Cardinality(Referrers(o)') = Cardinality(Referrers(o)) - 1
      <3>1. /\ o \in Chunk /\ rc[o] = refcount[o] /\ refcount[o] \in Refcount
            /\ Referrers(o) \in SUBSET Chunk
        BY <2>2 DEF TypeOK, Regions, Referrers
      <3>2. Referrers(o)' = Referrers(o) \ {r}
        BY <1>1, <2>1 DEF Referrers
      <3>3. /\ Cardinality(Referrers(o)) \in Nat
            /\ Cardinality(Referrers(o)') \in Nat
        BY <3>1, <3>2, ChunkSets
      <3>4. CASE o \in outset[r]
        <4>1. Cardinality(Referrers(o)') = Cardinality(Referrers(o)) - 1
          BY <1>1, <3>1, <3>2, <3>4, AddRemove DEF Referrers
        <4>2. refcount'[o] = Drop(refcount[o])
          BY <2>1, <3>1, <3>4 DEF RefcountAfterFree
        <4> QED
          BY <3>1, <3>3, <3>4, <4>1, <4>2
      <3>5. CASE o \notin outset[r]
        BY <2>1, <3>1, <3>2, <3>3, <3>5 DEF RefcountAfterFree, Referrers
      <3> QED
        BY <3>4, <3>5
    <2>3. RefcountExact'
      <3> SUFFICES ASSUME NEW o \in Regions \ freed, o # r
                   PROVE  refcount'[o] = (Cardinality(Referrers(o)') + 1) % RefcountMod
        BY <1>1, <2>1 DEF RefcountExact
      <3>1. refcount[o] = (Cardinality(Referrers(o)) + 1) % RefcountMod
        BY DEF RefcountExact
      <3>2. CASE o \in outset[r]
        <4> DEFINE n == Cardinality(Referrers(o)) + 1
        <4>1. n \in Int /\ Cardinality(Referrers(o)') + 1 = n - 1
          BY <2>2, <3>2
        <4>2. (n - 1) % RefcountMod = Drop(n % RefcountMod)
          BY <4>1, DropMod
        <4> QED
          BY <2>2, <3>1, <3>2, <4>1, <4>2
      <3>3. CASE o \notin outset[r]
        BY <2>2, <3>1, <3>3
      <3> QED
        BY <3>2, <3>3
    <2>4. ~wrapped => \A o \in Regions \ freed :
            /\ refcount[o] = Cardinality(Referrers(o)) + 1
            /\ r \notin outset[o]
      <3> SUFFICES ASSUME ~wrapped
                   PROVE  \A o \in Regions \ freed :
                            /\ refcount[o] = Cardinality(Referrers(o)) + 1
                            /\ r \notin outset[o]
        OBVIOUS
      <3>1. \A o \in Regions \ freed : refcount[o] = Cardinality(Referrers(o)) + 1
        BY DEF UseOK
      <3>2. Referrers(r) \in SUBSET Chunk
        BY DEF Referrers, Regions
      <3>3. Cardinality(Referrers(r)) = 0
        BY <1>1, <1>4, <3>1, <3>2, ChunkSets
      <3>4. Referrers(r) = {}
        BY <3>2, <3>3, ChunkSets, FS_EmptySet
      <3> QED
        BY <3>1, <3>4 DEF Referrers
    <2>5. UseOK'
      <3> SUFFICES ASSUME ~wrapped
                   PROVE  /\ \A o \in (Regions \ freed)' :
                               refcount'[o] = Cardinality(Referrers(o)') + 1
                          /\ \A x \in held' : reg_info'[x] \notin freed'
                          /\ \A x \in (Regions \ freed)' : outset'[x] \cap freed' = {}
        BY <1>1 DEF UseOK
      <3>1. ASSUME NEW o \in Regions \ freed, o # r
            PROVE  refcount'[o] = Cardinality(Referrers(o)') + 1
        BY <2>2, <2>4, <3>1 DEF Drop
      <3>2. \A x \in held' : reg_info'[x] \notin freed'
        BY <1>1, <2>1 DEF UseOK, ChunksOf, TypeOK, Allocated
      <3>3. \A x \in Regions \ freed : outset[x] \cap (freed \cup {r}) = {}
        BY <2>4 DEF UseOK
      <3> QED
        BY <1>1, <2>1, <3>1, <3>2, <3>3
    <2>6. NullZctUnused'
      <3> SUFFICES ASSUME ~wrapped, NEW o \in outset[r] PROVE Drop(rc[o]) # 0
        BY <1>1, <2>1 DEF NullZctUnused, ZeroAfterFree
      <3>1. o \in Regions \ freed /\ o # r
        BY <1>1, <2>4 DEF UseOK, TypeOK, Regions
      <3> QED
        BY <2>2, <2>4, <3>1 DEF Drop
    <2>7. Chain(c, next) \subseteq ChunksOf(r)
      <3>1. ClosedUnderNext(ChunksOf(r), next) /\ ChunksOf(r) \in SUBSET Chunk
        BY DEF ClosedUnderNext, ChunksOf, TypeOK, Allocated
      <3> QED
        BY <2>1, <3>1, ChainWithin
    <2>8. FreesOK'
      BY <1>1, <2>1, <2>7 DEF FreesOK, ChunksOf, TypeOK
    <2>9. TypeOK'
      <3>1. refcount' \in [Chunk -> Refcount]
        <4>1. ASSUME NEW o \in Chunk
              PROVE  rc[o] \in Refcount
          BY CountsInRange DEF TypeOK
        <4> QED
          BY <2>1, <4>1, CountsInRange DEF RefcountAfterFree
      <3>2. frees' \in [Chunk -> Nat]
        BY <2>1 DEF TypeOK
      <3>3. nullZct' \in BOOLEAN
        BY <2>1
      <3>4. /\ scope' \in SUBSET (Regions' \ freed')
            /\ freed' \in SUBSET Regions'
            /\ held' \in SUBSET Allocated'
        BY <1>1, <2>1 DEF TypeOK
      <3> QED
        BY <1>1, <3>1, <3>2, <3>3, <3>4 DEF TypeOK
    <2> QED
      BY <1>2, <2>3, <2>5, <2>6, <2>8, <2>9
  <1> QED
    BY <1>3, <1>4

\* Until a count wraps, following a pointer reaches no freed region.
LEMMA FollowIInv ==
    ASSUME IInv, NEW c \in Chunk, NEW t \in Chunk, Follow(c, t)
    PROVE  IInv'
  <1> USE ChunkAssumption DEF IInv, Follow, metaVars
  <1>1. /\ Regions' = Regions /\ Fresh' = Fresh /\ Allocated' = Allocated
        /\ t \in Allocated
    BY DEF Regions, Fresh, Allocated, TypeOK
  <1>2. ~wrapped => reg_info[t] \notin freed
    BY DEF UseOK, OutsetsOK, TypeOK, Allocated, Fresh
  <1>3. TypeOK' /\ OutsetsOK' /\ FreesOK' /\ NullZctUnused'
    BY <1>1 DEF TypeOK, OutsetsOK, FreesOK, NullZctUnused
  <1>4. UseOK'
    BY <1>1, <1>2 DEF UseOK, Referrers
  <1>5. RefcountExact'
    BY <1>1 DEF RefcountExact, Referrers
  <1> QED
    BY <1>3, <1>4, <1>5

-----------------------------------------------------------------------------
(***************************************************************************)
(* The theorems.                                                           *)
(***************************************************************************)

\* Every step of the program and the RTS preserves the invariant.
LEMMA NextIInv == IInv /\ [Next]_vars => IInv'
  <1> SUFFICES ASSUME IInv, [Next]_vars PROVE IInv'
    OBVIOUS
  <1>1. CASE UNCHANGED vars
    BY <1>1 DEF vars, IInv, TypeOK, OutsetsOK, UseOK, FreesOK, RefcountExact,
                NullZctUnused, Regions, Fresh, Allocated, Referrers
  <1>2. CASE Next
    BY <1>2, AllocIInv, GrowIInv, BarrierIInv, FreeIInv, FollowIInv DEF Next
  <1> QED
    BY <1>1, <1>2

\* The invariant implies what the runs check.
LEMMA IInvImplies == IInv => NoDangling /\ FreedOnce
  <1> SUFFICES ASSUME IInv PROVE NoDangling /\ FreedOnce
    OBVIOUS
  <1> USE DEF IInv
  <1>1. FreedOnce
    BY DEF FreesOK, FreedOnce
  <1>2. ~wrapped => held \cap Released = {}
    BY DEF UseOK, FreesOK, Released, TypeOK
  <1>3. ASSUME ~wrapped, NEW c \in Chunk, NEW t \in Chunk,
               <<c, t>> \in inds, reg_info[c] \notin freed
        PROVE  t \notin Released
    <2>1. reg_info[c] \in Regions \ freed /\ reg_info[c] \in Chunk
      BY <1>3 DEF TypeOK, Allocated, Fresh, Regions
    <2>2. reg_info[t] \notin freed
      BY <1>3, <2>1 DEF UseOK, OutsetsOK
    <2> QED
      BY <2>2 DEF FreesOK, Released
  <1> QED
    BY <1>1, <1>2, <1>3 DEF NoDangling

\* The invariant of the scoped regions.
THEOREM ScopedInvariant == Spec => []IInv
  <1> QED
    BY InitIInv, NextIInv, PTL DEF Spec

\* Chunks stay with the region they were allocated for, over any number of growths,
\* and nothing but allocated chunks and regions is ever in use
\* (gib_alloc_region_on_heap, gib_grow_region).
THEOREM ScopedTypeOK == Spec => []TypeOK
  <1>1. IInv => TypeOK
    BY DEF IInv
  <1> QED
    BY <1>1, ScopedInvariant, PTL

\* Reference counts are exact modulo 2^16, with any number of regions: one for the
\* scope and one per referring region (add_old_to_old_indirection, free_region).
THEOREM ScopedRefcountExact == Spec => []RefcountExact
  <1>1. IInv => RefcountExact
    BY DEF IInv
  <1> QED
    BY <1>1, ScopedInvariant, PTL

\* Neither a cursor nor a pointer of an unfreed region dangles before some count
\* has wrapped (gib_free_region).
THEOREM ScopedNoDangling == Spec => []NoDangling
BY IInvImplies, ScopedInvariant, PTL

\* No chunk is handed back twice, not even after a count has wrapped
\* (gib_free_region, free_region).
THEOREM ScopedFreedOnce == Spec => []FreedOnce
BY IInvImplies, ScopedInvariant, PTL

\* free_region never touches the null zero-count table that gib_free_region_
\* passes before some count has wrapped: the count of a region in an outset is
\* still above zero when the region that refers to it goes.
THEOREM ScopedNullZctUnused == Spec => []NullZctUnused
  <1>1. IInv => NullZctUnused
    BY DEF IInv
  <1> QED
    BY <1>1, ScopedInvariant, PTL
=============================================================================

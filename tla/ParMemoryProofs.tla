-------------------------- MODULE ParMemoryProofs ---------------------------
(***************************************************************************)
(* Parallel calls never write a cell of memory twice, for any number of    *)
(* workers, any constructor and any tree of calls.                         *)
(***************************************************************************)
EXTENDS ParAllocProofs

\* Region r was made for field i of f, for a later one or below those.
Behind(f, i, r) == \E k \in i .. Fields : InTree(Child(f, k), r)
\* Field i of f, and what is below it, can be in r.
Before(f, i, r) == r = loc[f].reg \/ \E k \in 1 .. i : InTree(Child(f, k), r)

NotBefore(a, b) == a.reg = b.reg /\ b.off <= a.off

(***************************************************************************)
(* The inductive invariant: where fields are within their regions.         *)
(***************************************************************************)

\* A field starts behind the end of each earlier one, or in a region that was
\* made after that.
OrderOK ==
    \A f \in Inner, i, j \in 1 .. Fields :
        i < j /\ loc[Child(f, j)] # None /\ end[Child(f, i)] # None
        => NotBefore(loc[Child(f, j)], end[Child(f, i)]) \/ Behind(f, i + 1, loc[Child(f, j)].reg)

\* What follows a field with a region of its own does not go back.
FreshOK ==
    \A f \in Inner, i \in 1 .. Fields : Child(f, i) \in fresh =>
        /\ loc[Child(f, i)] # None
        /\ \A j \in i .. Fields : loc[Child(f, j)] # None => Behind(f, i, loc[Child(f, j)].reg)

\* Fields leave room for the constructor, and values are not empty.
FieldOK ==
    \A f \in Inner, i \in 1 .. Fields :
        loc[Child(f, i)] # None /\ loc[Child(f, i)].reg = loc[f].reg
        => loc[f].off < loc[Child(f, i)].off
ExtentOK ==
    \A f \in Frame : end[f] # None /\ end[f].reg = loc[f].reg => loc[f].off < end[f].off

\* A constructor ends where its last field ends.
LastOK == \A f \in Inner : end[f] # None => end[f] = end[Child(f, Fields)]

OffsetInv ==
    /\ OrderOK
    /\ FreshOK
    /\ FieldOK
    /\ ExtentOK
    /\ LastOK

\* What f has written: its constructor or leaf, and the indirections between its
\* fields.
Written(f, a) ==
    \/ pc[f] \in {"return", "done"} /\ a = loc[f]
    \/ /\ f \in Inner
       /\ pc[f] \in {"construct", "return", "done"}
       /\ \E i \in TiedFields(f) : a = TieFrom(f, i)
WrittenOK == \A a \in DOMAIN mem : \E f \in Frame : Written(f, a)

MemoryInv == IInv /\ RegionInv /\ OffsetInv

-----------------------------------------------------------------------------
(***************************************************************************)
(* One call and its fields.                                                *)
(***************************************************************************)

\* A call whose field has been placed has itself been placed, and the field was
\* begun.
LEMMA PlacedFields ==
    ASSUME IInv, RegionInv, NEW f \in Inner, NEW i \in 1 .. Fields, loc[Child(f, i)] # None
    PROVE  /\ f \in Frame /\ loc[f] # None /\ loc[f] \in Address
           /\ Child(f, i) \in Frame /\ loc[Child(f, i)] \in Address
           /\ pc[f] \notin Starting
           /\ i <= child[f]
  <1>1. f \in Frame /\ Child(f, i) \in Frame
    BY ChildShape
  <1>2. pc[f] \notin Starting /\ ~(i > child[f])
    BY DEF RegionInv, UnsetOK
  <1>3. loc[f] \in Address
    BY <1>1, <1>2 DEF IInv, LocOK, Starting
  <1>4. child[f] \in 1 .. Fields /\ i \in Nat /\ Fields \in Nat
    BY <1>1, FieldsAssumption DEF IInv, TypeOK
  <1> QED
    BY <1>1, <1>2, <1>3, <1>4, AddressShape DEF IInv, TypeOK

\* A call that has ended has joined its fields, and they have ended.
LEMMA EndedFields ==
    ASSUME IInv, RegionInv, NEW f \in Inner, end[f] # None
    PROVE  /\ pc[f] \in {"return", "done"}
           /\ \A i \in 1 .. Fields : /\ pc[Child(f, i)] = "done"
                                     /\ end[Child(f, i)] \in Address
                                     /\ end[Child(f, i)] # None
                                     /\ loc[Child(f, i)] \in Address
                                     /\ loc[Child(f, i)] # None
  <1>1. f \in Frame /\ \A i \in 1 .. Fields : Child(f, i) \in Frame
    BY InnerShape, ChildShape
  <1>2. pc[f] \in {"return", "done"}
    BY <1>1 DEF RegionInv, UnsetOK
  <1>3. \A i \in 1 .. Fields : pc[Child(f, i)] = "done"
    BY <1>2 DEF IInv, JoinOK, Joined
  <1>4. \A i \in 1 .. Fields : end[Child(f, i)] \in Address /\ loc[Child(f, i)] \in Address
    BY <1>1, <1>3 DEF IInv, LocOK
  <1> QED
    BY <1>2, <1>3, <1>4, AddressShape

\* No region is both.
LEMMA BeforeOrBehind ==
    ASSUME IInv, RegionInv, NEW f \in Inner, loc[f] # None, NEW r \in Frame,
           NEW i \in Nat, i <= Fields, Before(f, i, r), Behind(f, i + 1, r)
    PROVE  FALSE
  <1>1. PICK k \in i + 1 .. Fields : InTree(Child(f, k), r)
    BY DEF Behind
  <1>2. k \in 1 .. Fields
    BY FieldsAssumption
  <1>3. r # loc[f].reg
    <2>1. f \in Frame /\ Child(f, k) \in Frame /\ InTree(f, Child(f, k)) /\ ~InTree(Child(f, k), f)
      BY <1>2, ChildShape, ChildTree
    <2>2. InTree(f, r) /\ r # f
      BY <1>1, <2>1, TreeOrder
    <2> QED
      BY <2>1, <2>2, StartsAbove
  <1>4. PICK m \in 1 .. i : InTree(Child(f, m), r)
    BY <1>3 DEF Before
  <1>5. m \in 1 .. Fields /\ m # k
    BY FieldsAssumption
  <1> QED
    BY <1>1, <1>2, <1>4, <1>5, ChildTree

\* A field and what is below it do not go to regions that are made later.
LEMMA FieldBefore ==
    ASSUME IInv, RegionInv, NEW f \in Inner, NEW i \in 1 .. Fields, loc[Child(f, i)] # None,
           NEW r \in Frame, r = loc[Child(f, i)].reg \/ InTree(Child(f, i), r)
    PROVE  Before(f, i, r)
  <1>1. i \in 1 .. i /\ \A k \in 1 .. i - 1 : k \in 1 .. i
    BY FieldsAssumption
  <1>2. Child(f, i) \in Frame /\ InTree(Child(f, i), Child(f, i))
    BY ChildShape, TreeOrder
  <1>3. CASE InTree(Child(f, i), r)
    BY <1>1, <1>3 DEF Before
  <1>4. CASE r = loc[Child(f, i)].reg
    <2>1. \/ r \in {loc[f].reg, Child(f, i)}
          \/ \E k \in 1 .. i - 1 : InTree(Child(f, k), r)
      BY <1>4 DEF RegionInv, PlaceOK
    <2> QED
      BY <1>1, <1>2, <2>1 DEF Before
  <1> QED
    BY <1>3, <1>4

\* A larger bound, and what lies behind a field lies below the call.
LEMMA BehindShape ==
    ASSUME NEW f \in Inner, NEW r
    PROVE  /\ \A i, j \in 1 .. Fields : i <= j /\ InTree(Child(f, j), r) => Behind(f, i, r)
           /\ \A i, j \in Nat : i <= j /\ Behind(f, j, r) => Behind(f, i, r)
  <1>1. ASSUME NEW i \in 1 .. Fields, NEW j \in 1 .. Fields, i <= j, InTree(Child(f, j), r)
        PROVE  Behind(f, i, r)
    <2>1. j \in i .. Fields
      BY <1>1, FieldsAssumption
    <2> QED
      BY <1>1, <2>1 DEF Behind
  <1>2. ASSUME NEW i \in Nat, NEW j \in Nat, i <= j, Behind(f, j, r)
        PROVE  Behind(f, i, r)
    <2>1. \A k \in j .. Fields : k \in i .. Fields
      BY <1>2, FieldsAssumption
    <2> QED
      BY <1>2, <2>1 DEF Behind
  <1> QED
    BY <1>1, <1>2

\* A field that was begun before an earlier one ended is behind that.
LEMMA UnfinishedBehind ==
    ASSUME IInv, RegionInv, NEW f \in Inner, NEW i \in 1 .. Fields, NEW j \in 1 .. Fields,
           i < j, loc[Child(f, j)] # None, pc[Child(f, i)] # "done"
    PROVE  Behind(f, i + 1, loc[Child(f, j)].reg)
  <1>1. j <= child[f]
    BY PlacedFields
  <1>2. PICK k \in i + 1 .. j : InTree(Child(f, k), loc[Child(f, j)].reg)
    BY <1>1 DEF RegionInv, AfterOK
  <1>3. k \in i + 1 .. Fields
    BY FieldsAssumption
  <1> QED
    BY <1>2, <1>3 DEF Behind

-----------------------------------------------------------------------------
(***************************************************************************)
(* The cells of a call: of its constructor or leaf, and of the             *)
(* indirections to the fields with regions of their own.  Each lies behind *)
(* the start of every call that it is below, and before the end.           *)
(***************************************************************************)
Slot(f, a) ==
    \/ loc[f] # None /\ a = loc[f]
    \/ /\ f \in Inner
       /\ \E i \in TiedFields(f) : end[Child(f, i - 1)] # None /\ a = TieFrom(f, i)

Within(c, a) ==
    /\ loc[c] # None
    /\ (a.reg = loc[c].reg /\ loc[c].off <= a.off) \/ InTree(c, a.reg)
Ends(c, a) == end[c] # None /\ a.reg = end[c].reg => a.off < end[c].off

\* What is within a field starts before each later field in the same region.
LEMMA Ordered ==
    ASSUME MemoryInv, NEW f \in Inner, NEW i \in 1 .. Fields, NEW j \in 1 .. Fields, i < j,
           loc[Child(f, j)] # None, NEW a \in Address,
           Within(Child(f, i), a), Ends(Child(f, i), a), a.reg = loc[Child(f, j)].reg
    PROVE  a.off < loc[Child(f, j)].off
  <1> DEFINE c == Child(f, i)
             d == Child(f, j)
  <1>1. IInv /\ RegionInv /\ OrderOK
    BY DEF MemoryInv, OffsetInv
  <1>2. loc[c] # None /\ loc[f] # None /\ loc[d] \in Address /\ c \in Frame
    BY <1>1, PlacedFields, ChildShape DEF Within
  <1>3. a.reg \in Frame
    BY DEF Address
  <1>4. Before(f, i, a.reg)
    BY <1>1, <1>2, <1>3, FieldBefore DEF Within
  <1>5. ~Behind(f, i + 1, loc[d].reg)
    <2>1. i \in Nat /\ i <= Fields
      BY FieldsAssumption
    <2> QED
      BY <1>1, <1>2, <1>3, <1>4, <2>1, BeforeOrBehind
  <1>6. end[c] # None
    <2>1. pc[c] = "done"
      BY <1>1, <1>5, UnfinishedBehind
    <2> QED
      BY <1>1, <1>2, <2>1, AddressShape DEF IInv, LocOK
  <1>7. NotBefore(loc[d], end[c])
    BY <1>1, <1>5, <1>6 DEF OrderOK
  <1>8. end[c] \in Address
    BY <1>1, <1>2, <1>6 DEF IInv, TypeOK
  <1>9. a.off < end[c].off /\ end[c].off <= loc[d].off
    BY <1>6, <1>7 DEF NotBefore, Ends
  <1>10. a.off \in Nat /\ end[c].off \in Nat /\ loc[d].off \in Nat
    BY <1>2, <1>8 DEF Address
  <1> HIDE DEF c, d
  <1> QED
    BY <1>9, <1>10 DEF d

\* The end of a placed field lies behind its start, and so behind that of the
\* call, or in a region made later.
LEMMA FieldEnds ==
    ASSUME MemoryInv, NEW f \in Inner, NEW i \in 1 .. Fields,
           loc[Child(f, i)] # None, end[Child(f, i)] # None
    PROVE  /\ end[Child(f, i)] \in Address
           /\ Before(f, i, end[Child(f, i)].reg)
           /\ end[Child(f, i)].reg = loc[f].reg => loc[f].off < end[Child(f, i)].off
           /\ end[Child(f, i)].reg = loc[f].reg \/ InTree(f, end[Child(f, i)].reg)
  <1> DEFINE c == Child(f, i)
  <1>1. IInv /\ RegionInv /\ FieldOK /\ ExtentOK
    BY DEF MemoryInv, OffsetInv
  <1>2. /\ f \in Frame /\ loc[f] # None /\ loc[f] \in Address
        /\ c \in Frame /\ loc[c] \in Address /\ end[c] \in Address
    BY <1>1, PlacedFields DEF IInv, TypeOK
  <1>3. end[c].reg \in Frame
    BY <1>2 DEF Address
  <1>4. end[c].reg = loc[c].reg \/ InTree(c, end[c].reg)
    BY <1>1, <1>2 DEF RegionInv, EndOK
  <1>5. Before(f, i, end[c].reg)
    BY <1>1, <1>3, <1>4, FieldBefore
  <1>6. end[c].reg = loc[f].reg => loc[f].off < end[c].off
    <2> SUFFICES ASSUME end[c].reg = loc[f].reg
                 PROVE  loc[f].off < end[c].off
      OBVIOUS
    <2>1. ~InTree(c, loc[f].reg)
      <3>1. InTree(f, c) /\ ~InTree(c, f)
        BY ChildTree
      <3>2. loc[f].reg \in Frame
        BY <1>2 DEF Address
      <3> QED
        BY <1>1, <1>2, <3>1, <3>2, TreeOrder, StartsAbove
    <2>2. end[c].reg = loc[c].reg
      BY <1>4, <2>1
    <2>3. loc[c].off < end[c].off
      BY <1>1, <1>2, <2>2 DEF ExtentOK
    <2>4. loc[f].off < loc[c].off
      BY <1>1, <2>2 DEF FieldOK
    <2>5. loc[f].off \in Nat /\ loc[c].off \in Nat /\ end[c].off \in Nat
      BY <1>2 DEF Address
    <2> HIDE DEF c
    <2> QED
      BY <2>3, <2>4, <2>5
  <1>7. end[c].reg = loc[f].reg \/ InTree(f, end[c].reg)
    <2>1. loc[c].reg = loc[f].reg \/ InTree(f, loc[c].reg)
      BY <1>1, <1>2, ChildTree, StartsWithin
    <2>2. InTree(c, end[c].reg) => InTree(f, end[c].reg)
      BY <1>2, <1>3, ChildTree, TreeOrder
    <2> QED
      BY <1>4, <2>1, <2>2
  <1> QED
    BY <1>2, <1>5, <1>6, <1>7

\* From a field to the call.
LEMMA SlotUp ==
    ASSUME MemoryInv, NEW f \in Inner, NEW i \in 1 .. Fields, NEW a \in Address,
           Within(Child(f, i), a), Ends(Child(f, i), a)
    PROVE  Within(f, a) /\ Ends(f, a)
  <1> DEFINE b == Child(f, i)
             l == Child(f, Fields)
  <1>1. IInv /\ RegionInv /\ FieldOK /\ ExtentOK /\ LastOK
    BY DEF MemoryInv, OffsetInv
  <1>2. /\ f \in Frame /\ loc[f] # None /\ loc[f] \in Address
        /\ b \in Frame /\ loc[b] # None /\ loc[b] \in Address
    BY <1>1, PlacedFields DEF Within
  <1>3. a.reg \in Frame /\ a.off \in Nat /\ loc[f].off \in Nat /\ loc[b].off \in Nat
    BY <1>2 DEF Address
  <1>4. Within(f, a)
    <2>1. CASE InTree(b, a.reg)
      BY <1>2, <1>3, <2>1, ChildTree, TreeOrder DEF Within
    <2>2. CASE a.reg = loc[b].reg /\ loc[b].off <= a.off
      <3>1. loc[b].reg = loc[f].reg \/ InTree(f, loc[b].reg)
        BY <1>1, <1>2, ChildTree, StartsWithin
      <3>2. loc[b].reg = loc[f].reg => loc[f].off < loc[b].off
        BY <1>1, <1>2 DEF FieldOK
      <3> HIDE DEF b
      <3> QED
        BY <1>2, <1>3, <2>2, <3>1, <3>2 DEF Within
    <2> QED
      BY <2>1, <2>2 DEF Within
  <1>5. Ends(f, a)
    <2> SUFFICES ASSUME end[f] # None, a.reg = end[f].reg
                 PROVE  a.off < end[f].off
      BY DEF Ends
    <2>1. Fields \in 1 .. Fields
      BY FieldsAssumption
    <2>2. /\ end[f] = end[l] /\ end[l] # None /\ end[l] \in Address
          /\ loc[l] # None /\ loc[l] \in Address /\ l \in Frame
      BY <1>1, <2>1, EndedFields, ChildShape DEF LastOK
    <2>3. CASE i = Fields
      BY <2>2, <2>3 DEF Ends
    <2>4. CASE i # Fields
      <3>1. i < Fields /\ i \in Nat /\ i <= Fields /\ i + 1 \in 1 .. Fields /\ i + 1 <= Fields
        BY <2>4, FieldsAssumption
      <3>2. Before(f, i, a.reg)
        BY <1>1, <1>2, <1>3, FieldBefore DEF Within
      <3>3. ~InTree(l, a.reg)
        BY <1>1, <1>2, <1>3, <2>1, <3>1, <3>2, BehindShape, BeforeOrBehind
      <3>4. a.reg = loc[l].reg
        BY <1>1, <2>2, <3>3 DEF RegionInv, EndOK
      <3>5. a.off < loc[l].off
        BY <2>1, <2>2, <3>1, <3>4, Ordered
      <3>6. loc[l].off < end[l].off
        BY <1>1, <2>2, <3>4 DEF ExtentOK
      <3>7. loc[l].off \in Nat /\ end[l].off \in Nat
        BY <2>2 DEF Address
      <3> HIDE DEF l
      <3> QED
        BY <1>3, <2>2, <3>5, <3>6, <3>7
    <2> QED
      BY <2>3, <2>4
  <1> QED
    BY <1>4, <1>5

\* A cell of a call lies within it.
LEMMA SlotOwner ==
    ASSUME MemoryInv, NEW f \in Frame, NEW a, Slot(f, a)
    PROVE  a \in Address /\ loc[f] \in Address /\ Within(f, a) /\ Ends(f, a)
  <1>1. IInv /\ RegionInv /\ FreshOK /\ ExtentOK /\ LastOK
    BY DEF MemoryInv, OffsetInv
  <1>2. CASE loc[f] # None /\ a = loc[f]
    <2>1. loc[f] \in Address /\ loc[f].off \in Nat
      BY <1>1, <1>2 DEF IInv, TypeOK, Address
    <2>2. Within(f, a)
      BY <1>2, <2>1 DEF Within
    <2>3. Ends(f, a)
      BY <1>1, <1>2 DEF Ends, ExtentOK
    <2> QED
      BY <1>2, <2>1, <2>2, <2>3
  <1>3. ASSUME f \in Inner,
               NEW i \in TiedFields(f), end[Child(f, i - 1)] # None, a = TieFrom(f, i)
        PROVE  a \in Address /\ loc[f] \in Address /\ Within(f, a) /\ Ends(f, a)
    <2> DEFINE c == Child(f, i - 1)
               l == Child(f, Fields)
    <2>1. /\ i \in 1 .. Fields /\ i - 1 \in 1 .. Fields /\ Fields \in 1 .. Fields
          /\ Child(f, i) \in fresh
      BY FieldsAssumption DEF TiedFields
    <2>2. a = end[c]
      BY <1>3 DEF TieFrom
    <2>3. c \in Frame /\ loc[c] # None
      <3>1. c \in Frame
        BY <1>3, <2>1, ChildShape
      <3>2. pc[c] \in {"return", "done"}
        BY <1>1, <1>3, <3>1 DEF RegionInv, UnsetOK
      <3> QED
        BY <1>1, <3>1, <3>2, AddressShape DEF IInv, LocOK
    <2>4. /\ a \in Address
          /\ Before(f, i - 1, a.reg)
          /\ a.reg = loc[f].reg => loc[f].off < a.off
          /\ a.reg = loc[f].reg \/ InTree(f, a.reg)
      BY <1>3, <2>1, <2>2, <2>3, FieldEnds
    <2>5. loc[f] # None /\ loc[f] \in Address
      BY <1>1, <1>3, <2>1, <2>3, PlacedFields
    <2>6. a.reg \in Frame /\ a.off \in Nat /\ loc[f].off \in Nat
      BY <2>4, <2>5 DEF Address
    <2>7. Within(f, a)
      <3> HIDE DEF c
      <3> QED
        BY <2>4, <2>5, <2>6 DEF Within
    <2>8. Ends(f, a)
      <3> SUFFICES ASSUME end[f] # None, a.reg = end[f].reg
                   PROVE  FALSE
        BY DEF Ends
      <3>1. /\ end[f] = end[l] /\ end[l] # None /\ end[l] \in Address
            /\ loc[l] # None /\ loc[l] \in Address /\ l \in Frame
        BY <1>1, <1>3, <2>1, EndedFields, ChildShape DEF LastOK
      <3>2. end[l].reg = loc[l].reg \/ InTree(l, end[l].reg)
        BY <1>1, <3>1 DEF RegionInv, EndOK
      <3>3. Behind(f, i, loc[l].reg)
        <4>1. Fields \in i .. Fields
          BY <2>1
        <4> QED
          BY <1>1, <1>3, <2>1, <3>1, <4>1 DEF FreshOK
      <3>4. InTree(l, end[l].reg) => Behind(f, i, end[l].reg)
        BY <1>3, <2>1, FieldsAssumption, BehindShape
      <3>5. Behind(f, (i - 1) + 1, a.reg)
        <4>1. (i - 1) + 1 = i
          BY <2>1
        <4> QED
          BY <3>1, <3>2, <3>3, <3>4, <4>1
      <3>6. i - 1 \in Nat /\ i - 1 <= Fields
        BY <2>1, FieldsAssumption
      <3> QED
        BY <1>1, <1>3, <2>4, <2>5, <2>6, <3>5, <3>6, BeforeOrBehind
    <2> QED
      BY <2>4, <2>5, <2>7, <2>8
  <1> QED
    BY <1>2, <1>3 DEF Slot

\* A cell of a call lies within all calls that it is below, by induction from the
\* call up.
LEMMA SlotBelow ==
    ASSUME MemoryInv, NEW f \in Frame, NEW d \in Frame, InTree(f, d), NEW a, Slot(d, a)
    PROVE  a \in Address /\ Within(f, a) /\ Ends(f, a)
  <1> DEFINE Good(b) == Within(b, a) /\ Ends(b, a)
             T == {n \in Nat : \E b \in Frame : InTree(b, d) /\ ~Good(b) /\ Len(d) = n + Len(b)}
  <1>1. a \in Address /\ Good(d)
    BY SlotOwner
  <1>2. SUFFICES ASSUME ~Good(f)
                 PROVE  FALSE
    BY <1>1
  <1>3. T # {}
    <2>1. Len(f) \in Nat /\ Len(d) \in Nat /\ Len(f) <= Len(d)
      BY FrameSeq DEF InTree
    <2>2. PICK n \in Nat : Len(d) = n + Len(f)
      <3>1. Len(d) - Len(f) \in Nat /\ Len(d) = (Len(d) - Len(f)) + Len(f)
        BY <2>1
      <3> QED
        BY <3>1
    <2> QED
      BY <1>2, <2>2
  <1>4. PICK x \in T : \A y \in T : x <= y
    <2>1. T \in SUBSET Nat
      OBVIOUS
    <2> HIDE DEF T
    <2> QED
      BY <1>3, <2>1, Least
  <1>5. PICK b \in Frame : InTree(b, d) /\ ~Good(b) /\ Len(d) = x + Len(b)
    BY <1>4
  <1>6. b # d
    BY <1>1, <1>5
  <1>7. b \in Inner
    BY <1>5, <1>6, Below
  <1>8. PICK i \in 1 .. Fields : InTree(Child(b, i), d)
    BY <1>5, <1>6, Below
  <1>9. Child(b, i) \in Frame /\ Len(Child(b, i)) = Len(b) + 1 /\ Len(b) \in Nat
    BY <1>7, ChildFields
  <1>10. Good(Child(b, i))
    <2> SUFFICES ASSUME ~Good(Child(b, i))
                 PROVE  FALSE
      OBVIOUS
    <2>1. Len(Child(b, i)) <= Len(d) /\ Len(d) \in Nat
      BY <1>8, FrameSeq DEF InTree
    <2>2. PICK y \in Nat : Len(d) = y + Len(Child(b, i))
      <3>1. Len(d) - Len(Child(b, i)) \in Nat
        BY <1>9, <2>1
      <3>2. Len(d) = (Len(d) - Len(Child(b, i))) + Len(Child(b, i))
        BY <1>9, <2>1
      <3> QED
        BY <3>1, <3>2
    <2>3. y \in T
      BY <1>8, <1>9, <2>2
    <2>4. x <= y
      BY <1>4, <2>3
    <2>5. x \in Nat
      BY <1>4
    <2> HIDE DEF T, Good
    <2> QED
      BY <1>5, <1>9, <2>1, <2>2, <2>4, <2>5
  <1>11. Good(b)
    BY <1>1, <1>7, <1>10, SlotUp
  <1> QED
    BY <1>5, <1>11

\* A call's cells are none of those below it.
LEMMA SlotAbove ==
    ASSUME MemoryInv, NEW f \in Frame, NEW g \in Frame, InTree(f, g), f # g,
           NEW a, Slot(f, a), Slot(g, a)
    PROVE  FALSE
  <1>1. IInv /\ RegionInv /\ FreshOK /\ FieldOK /\ ExtentOK
    BY DEF MemoryInv, OffsetInv
  <1>2. f \in Inner
    BY Below
  <1>3. PICK i \in 1 .. Fields : InTree(Child(f, i), g)
    BY Below
  <1> DEFINE b == Child(f, i)
  <1>4. b \in Frame /\ InTree(f, b) /\ ~InTree(b, f)
    BY <1>2, ChildShape, ChildTree
  <1>5. a \in Address /\ Within(b, a) /\ Ends(b, a)
    BY <1>3, <1>4, SlotBelow
  <1>6. loc[b] # None /\ loc[b] \in Address /\ loc[f] # None /\ loc[f] \in Address
    BY <1>1, <1>2, <1>5, PlacedFields DEF Within
  <1>7. a.reg \in Frame /\ a.off \in Nat /\ loc[f].off \in Nat /\ loc[b].off \in Nat
    BY <1>5, <1>6 DEF Address
  <1>8. CASE a = loc[f]
    <2>1. ~InTree(b, a.reg)
      BY <1>1, <1>4, <1>6, <1>7, <1>8, TreeOrder, StartsAbove
    <2>2. a.reg = loc[b].reg /\ loc[b].off <= a.off
      BY <1>5, <2>1 DEF Within
    <2>3. loc[f].off < loc[b].off
      BY <1>1, <1>2, <1>6, <1>8, <2>2 DEF FieldOK
    <2> HIDE DEF b
    <2> QED
      BY <1>7, <1>8, <2>2, <2>3
  <1>9. ASSUME NEW j \in TiedFields(f), end[Child(f, j - 1)] # None, a = TieFrom(f, j)
        PROVE  FALSE
    <2> DEFINE c == Child(f, j - 1)
    <2>1. j \in 1 .. Fields /\ j - 1 \in 1 .. Fields /\ Child(f, j) \in fresh
      BY FieldsAssumption DEF TiedFields
    <2>2. a = end[c]
      BY <1>9 DEF TieFrom
    <2>3. c \in Frame /\ loc[c] # None /\ loc[c] \in Address
      <3>1. c \in Frame
        BY <1>2, <2>1, ChildShape
      <3>2. pc[c] \in {"return", "done"}
        BY <1>1, <1>9, <3>1 DEF RegionInv, UnsetOK
      <3> QED
        BY <1>1, <3>1, <3>2, AddressShape DEF IInv, LocOK
    <2>4. Before(f, j - 1, a.reg)
      BY <1>2, <1>9, <2>1, <2>2, <2>3, FieldEnds
    <2>5. CASE i = j - 1
      BY <1>5, <1>7, <1>9, <2>2, <2>5 DEF Ends
    <2>6. CASE i < j - 1
      <3>1. Before(f, i, a.reg)
        BY <1>1, <1>2, <1>5, <1>6, <1>7, FieldBefore DEF Within
      <3>2. i \in Nat /\ i <= Fields /\ i + 1 \in 1 .. Fields /\ i + 1 <= j - 1
        BY <2>1, <2>6, FieldsAssumption
      <3>3. ~InTree(c, a.reg)
        BY <1>1, <1>2, <1>6, <1>7, <2>1, <3>1, <3>2, BehindShape, BeforeOrBehind
      <3>4. a.reg = loc[c].reg
        BY <1>1, <1>9, <2>2, <2>3, <3>3 DEF RegionInv, EndOK
      <3>5. a.off < loc[c].off
        BY <1>2, <1>5, <2>1, <2>3, <2>6, <3>4, Ordered
      <3>6. loc[c].off < a.off
        BY <1>1, <1>9, <2>2, <2>3, <3>4 DEF ExtentOK
      <3>7. loc[c].off \in Nat
        BY <2>3 DEF Address
      <3> HIDE DEF c
      <3> QED
        BY <1>7, <3>5, <3>6, <3>7
    <2>7. CASE j <= i
      <3>1. Behind(f, j, loc[b].reg)
        <4>1. i \in j .. Fields
          BY <2>1, <2>7
        <4> QED
          BY <1>1, <1>2, <1>6, <2>1, <4>1 DEF FreshOK
      <3>2. InTree(b, a.reg) => Behind(f, j, a.reg)
        BY <1>2, <2>1, <2>7, BehindShape
      <3>3. (j - 1) + 1 = j /\ j - 1 \in Nat /\ j - 1 <= Fields
        BY <2>1, FieldsAssumption
      <3>4. Behind(f, (j - 1) + 1, a.reg)
        BY <1>5, <3>1, <3>2, <3>3 DEF Within
      <3> QED
        BY <1>1, <1>2, <1>6, <1>7, <2>4, <3>3, <3>4, BeforeOrBehind
    <2> QED
      BY <2>1, <2>5, <2>6, <2>7
  <1> QED
    BY <1>2, <1>8, <1>9 DEF Slot

\* Cells below different fields of one call are different.
LEMMA SlotAside ==
    ASSUME MemoryInv, NEW h \in Inner,
           NEW i \in 1 .. Fields, NEW j \in 1 .. Fields, i < j,
           NEW f \in Frame, InTree(Child(h, i), f),
           NEW g \in Frame, InTree(Child(h, j), g),
           NEW a, Slot(f, a), Slot(g, a)
    PROVE  FALSE
  <1> DEFINE c == Child(h, i)
             d == Child(h, j)
  <1>1. IInv /\ RegionInv
    BY DEF MemoryInv
  <1>2. h \in Frame /\ c \in Frame /\ d \in Frame
    BY ChildShape
  <1>3. a \in Address /\ Within(c, a) /\ Ends(c, a) /\ Within(d, a)
    BY <1>2, SlotBelow
  <1>4. loc[c] # None /\ loc[d] # None /\ loc[d] \in Address /\ loc[h] # None
    BY <1>1, <1>3, PlacedFields DEF Within
  <1>5. a.reg \in Frame /\ a.off \in Nat /\ loc[d].off \in Nat
    BY <1>3, <1>4 DEF Address
  <1>6. Before(h, i, a.reg)
    BY <1>1, <1>3, <1>4, <1>5, FieldBefore DEF Within
  <1>7. ~InTree(d, a.reg)
    <2>1. i \in Nat /\ i <= Fields /\ i + 1 \in 1 .. Fields /\ i + 1 <= j
      BY FieldsAssumption
    <2> QED
      BY <1>1, <1>4, <1>5, <1>6, <2>1, BehindShape, BeforeOrBehind
  <1>8. a.reg = loc[d].reg /\ loc[d].off <= a.off
    BY <1>3, <1>7 DEF Within
  <1>9. a.off < loc[d].off
    BY <1>3, <1>4, <1>8, Ordered
  <1> HIDE DEF d
  <1> QED
    BY <1>5, <1>8, <1>9

\* No cell is that of two calls.
LEMMA SlotOnce ==
    ASSUME MemoryInv, NEW f \in Frame, NEW g \in Frame, NEW a, Slot(f, a), Slot(g, a)
    PROVE  f = g
  <1> SUFFICES ASSUME f # g
               PROVE  FALSE
    OBVIOUS
  <1>1. ~InTree(f, g) /\ ~InTree(g, f)
    BY SlotAbove
  <1>2. PICK h \in Inner, i, j \in 1 .. Fields :
          i # j /\ InTree(Child(h, i), f) /\ InTree(Child(h, j), g)
    BY <1>1, Apart
  <1>3. i < j \/ j < i
    BY <1>2, FieldsAssumption
  <1> QED
    BY <1>2, <1>3, SlotAside

-----------------------------------------------------------------------------
(***************************************************************************)
(* The invariant is inductive.                                             *)
(***************************************************************************)
LEMMA InitOffsetInv == Init => OffsetInv /\ WrittenOK
  <1> SUFFICES ASSUME Init
               PROVE  OffsetInv /\ WrittenOK
    OBVIOUS
  <1>1. \A f \in Inner, i \in 1 .. Fields : Child(f, i) \in Frame /\ Child(f, i) # Root
    BY ChildShape
  <1>2. OrderOK /\ FieldOK
    BY <1>1 DEF Init, OrderOK, FieldOK
  <1>3. FreshOK /\ ExtentOK
    BY DEF Init, FreshOK, ExtentOK
  <1>4. LastOK
    BY InnerShape DEF Init, LastOK
  <1>5. WrittenOK
    <2>1. DOMAIN mem = {}
      BY DEF Init
    <2> QED
      BY <2>1 DEF WrittenOK
  <1> QED
    BY <1>2, <1>3, <1>4, <1>5 DEF OffsetInv

\* A step that sets no location preserves the order of the fields.
LEMMA OffsetsKept ==
    ASSUME OffsetInv, UNCHANGED <<loc, end, fresh>>
    PROVE  OffsetInv'
  BY DEF OffsetInv, OrderOK, FreshOK, FieldOK, ExtentOK, LastOK, NotBefore, Behind

\* A step that finishes the value of f at a.
LEMMA EndedOffset ==
    ASSUME IInv, RegionInv, OffsetInv, NEW f \in Frame, NEW a \in Address,
           pc[f] \notin {"return", "done"},
           a.reg = loc[f].reg => loc[f].off < a.off,
           f \in Inner => a = end[Child(f, Fields)],
           end' = [end EXCEPT ![f] = a],
           UNCHANGED <<loc, fresh>>
    PROVE  OffsetInv'
  <1>1. /\ end'[f] = a
        /\ \A c \in Frame : c # f => end'[c] = end[c]
    BY DEF IInv, TypeOK
  <1>2. FreshOK' /\ FieldOK'
    BY DEF OffsetInv, FreshOK, FieldOK, Behind
  <1>3. ExtentOK'
    BY <1>1 DEF OffsetInv, ExtentOK
  <1>4. OrderOK'
    <2> SUFFICES ASSUME NEW g \in Inner, NEW i \in 1 .. Fields, NEW j \in 1 .. Fields, i < j,
                        loc[Child(g, j)] # None, end'[Child(g, i)] # None
                 PROVE  \/ NotBefore(loc[Child(g, j)], end'[Child(g, i)])
                        \/ Behind(g, i + 1, loc[Child(g, j)].reg)
      BY DEF OrderOK, NotBefore, Behind
    <2>1. CASE Child(g, i) = f
      <3>1. pc[Child(g, i)] # "done"
        BY <2>1
      <3> QED
        BY <3>1, UnfinishedBehind
    <2>2. CASE Child(g, i) # f
      BY <1>1, <2>2, ChildShape DEF OffsetInv, OrderOK
    <2> QED
      BY <2>1, <2>2
  <1>5. LastOK'
    <2> SUFFICES ASSUME NEW g \in Inner, end'[g] # None
                 PROVE  end'[g] = end'[Child(g, Fields)]
      BY DEF LastOK
    <2>1. Fields \in 1 .. Fields
      BY FieldsAssumption
    <2>2. g \in Frame /\ Child(g, Fields) \in Frame /\ Child(g, Fields) # g
      BY <2>1, ChildShape
    <2>3. CASE g = f
      BY <1>1, <2>2, <2>3
    <2>4. CASE g # f
      <3>1. end[g] # None
        BY <1>1, <2>2, <2>4
      <3>2. Child(g, Fields) # f
        BY <2>1, <3>1, EndedFields
      <3> QED
        BY <1>1, <2>2, <2>4, <3>1, <3>2 DEF OffsetInv, LastOK
    <2> QED
      BY <2>3, <2>4
  <1> QED
    BY <1>2, <1>3, <1>4, <1>5 DEF OffsetInv

\* A step that places field n of f, the last so far, at a.
LEMMA PlacedOffset ==
    ASSUME IInv, RegionInv, OffsetInv, NEW f \in Inner, NEW n \in 1 .. Fields, NEW a \in Address,
           pc[Child(f, n)] = "new",
           \A j \in n .. Fields : loc[Child(f, j)] = None,
           loc' = [loc EXCEPT ![Child(f, n)] = a],
           UNCHANGED end,
           fresh' \in {fresh, fresh \cup {Child(f, n)}},
           a.reg = loc[f].reg => loc[f].off < a.off,
           \A i \in 1 .. n - 1 : end[Child(f, i)] # None
               => NotBefore(a, end[Child(f, i)]) \/ Behind(f, i + 1, a.reg),
           \A i \in 1 .. n : Child(f, i) \in fresh' => Behind(f, i, a.reg)
    PROVE  OffsetInv'
  <1> DEFINE c == Child(f, n)
  <1>1. /\ f \in Frame /\ c \in Frame /\ c # f
        /\ pc[c] = "new"
        /\ \A g \in Inner, i \in 1 .. Fields : Child(g, i) = c => g = f /\ i = n
        /\ \A g \in Inner, i \in 1 .. Fields : Child(g, i) \in Frame /\ g \in Frame
    BY ChildShape
  <1>2. /\ loc[c] = None /\ end[c] = None
        /\ \A i \in 1 .. Fields : c \in Inner => loc[Child(c, i)] = None
    <2>1. n \in n .. Fields
      BY FieldsAssumption
    <2> QED
      BY <1>1, <2>1 DEF RegionInv, UnsetOK, Starting
  <1>3. /\ a # None
        /\ fresh' \subseteq fresh \cup {c}
    BY AddressShape
  <1>4. \A i \in 1 .. n - 1 : end[Child(f, i)] # None
               => NotBefore(a, end[Child(f, i)]) \/ Behind(f, i + 1, a.reg)
    OBVIOUS
  <1>5. c \in fresh' => Behind(f, n, a.reg)
    <2>1. n \in 1 .. n
      OBVIOUS
    <2> QED
      BY <2>1
  <1>6. loc' = [loc EXCEPT ![c] = a]
    OBVIOUS
  <1> HIDE DEF c
  <1>7. /\ loc'[c] = a
        /\ \A d \in Frame : d # c => loc'[d] = loc[d]
    BY <1>1, <1>6 DEF IInv, TypeOK
  <1>8. OrderOK'
    <2> SUFFICES ASSUME NEW g \in Inner, NEW i \in 1 .. Fields, NEW j \in 1 .. Fields, i < j,
                        loc'[Child(g, j)] # None, end[Child(g, i)] # None
                 PROVE  \/ NotBefore(loc'[Child(g, j)], end[Child(g, i)])
                        \/ Behind(g, i + 1, loc'[Child(g, j)].reg)
      BY DEF OrderOK, NotBefore, Behind
    <2>1. CASE Child(g, j) = c
      <3>1. g = f /\ j = n /\ i \in 1 .. n - 1
        BY <1>1, <2>1
      <3> QED
        BY <1>4, <1>7, <2>1, <3>1
    <2>2. CASE Child(g, j) # c
      <3>1. loc'[Child(g, j)] = loc[Child(g, j)]
        BY <1>1, <1>7, <2>2
      <3> QED
        BY <3>1 DEF OffsetInv, OrderOK
    <2> QED
      BY <2>1, <2>2
  <1>9. FreshOK'
    <2> SUFFICES ASSUME NEW g \in Inner, NEW i \in 1 .. Fields, Child(g, i) \in fresh'
                 PROVE  /\ loc'[Child(g, i)] # None
                        /\ \A j \in i .. Fields : loc'[Child(g, j)] # None
                             => Behind(g, i, loc'[Child(g, j)].reg)
      BY DEF FreshOK, Behind
    <2>1. CASE Child(g, i) = c
      <3>1. g = f /\ i = n
        BY <1>1, <2>1
      <3>2. \A j \in i .. Fields : loc'[Child(g, j)] # None => Child(g, j) = c
        <4>1. \A j \in i .. Fields : j \in 1 .. Fields
          BY FieldsAssumption
        <4> QED
          BY <1>1, <1>7, <3>1, <4>1
      <3>3. Behind(g, i, a.reg)
        BY <1>5, <2>1, <3>1
      <3> QED
        BY <1>3, <1>7, <2>1, <3>2, <3>3
    <2>2. CASE Child(g, i) # c
      <3>1. Child(g, i) \in fresh
        BY <1>3, <2>2
      <3>2. loc[Child(g, i)] # None /\ loc'[Child(g, i)] # None
        BY <1>1, <1>7, <2>2, <3>1 DEF OffsetInv, FreshOK
      <3>3. ASSUME NEW j \in i .. Fields, loc'[Child(g, j)] # None
            PROVE  Behind(g, i, loc'[Child(g, j)].reg)
        <4>1. j \in 1 .. Fields
          BY FieldsAssumption
        <4>2. CASE Child(g, j) = c
          <5>1. g = f /\ j = n
            BY <1>1, <4>1, <4>2
          <5>2. i \in 1 .. n
            BY <5>1
          <5>3. Behind(f, i, a.reg)
            BY <5>1, <5>2
          <5> QED
            BY <1>7, <4>2, <5>1, <5>3
        <4>3. CASE Child(g, j) # c
          <5>1. loc'[Child(g, j)] = loc[Child(g, j)]
            BY <1>1, <1>7, <4>1, <4>3
          <5> QED
            BY <3>1, <3>3, <5>1 DEF OffsetInv, FreshOK
        <4> QED
          BY <4>2, <4>3
      <3> QED
        BY <3>2, <3>3
    <2> QED
      BY <2>1, <2>2
  <1>10. FieldOK'
    <2> SUFFICES ASSUME NEW g \in Inner, NEW i \in 1 .. Fields,
                        loc'[Child(g, i)] # None, loc'[Child(g, i)].reg = loc'[g].reg
                 PROVE  loc'[g].off < loc'[Child(g, i)].off
      BY DEF FieldOK
    <2>1. CASE Child(g, i) = c
      BY <1>1, <1>7, <2>1
    <2>2. CASE Child(g, i) # c
      <3>1. loc'[Child(g, i)] = loc[Child(g, i)]
        BY <1>1, <1>7, <2>2
      <3>2. g # c
        BY <1>2, <3>1
      <3>3. loc'[g] = loc[g]
        BY <1>1, <1>7, <3>2
      <3> QED
        BY <3>1, <3>3 DEF OffsetInv, FieldOK
    <2> QED
      BY <2>1, <2>2
  <1>11. ExtentOK'
    BY <1>2, <1>7 DEF OffsetInv, ExtentOK
  <1>12. LastOK'
    BY DEF OffsetInv, LastOK
  <1> QED
    BY <1>8, <1>9, <1>10, <1>11, <1>12 DEF OffsetInv

\* A sequential call writes one cell.
LEMMA WriteLeafOffset ==
    ASSUME MemoryInv, NEW w \in Worker, NEW f \in Frame, WriteLeaf(w, f)
    PROVE  OffsetInv'
  <1>1. IInv /\ RegionInv /\ OffsetInv
    BY DEF MemoryInv
  <1>2. pc[f] = "entry" /\ f \notin Inner /\ loc[f] \in Address
    BY <1>1 DEF IInv, LocOK, WriteLeaf, At, Sequential
  <1>3. After(loc[f]) \in Address /\ loc[f].off < After(loc[f]).off
    BY <1>2, AddressShape DEF After, Address
  <1> QED
    BY <1>1, <1>2, <1>3, EndedOffset DEF WriteLeaf

\* The constructor ends behind its start, as its last field does.
LEMMA ConstructOffset ==
    ASSUME MemoryInv, NEW w \in Worker, NEW f \in Frame, Construct(w, f)
    PROVE  OffsetInv'
  <1> DEFINE c == Child(f, Fields)
  <1>1. IInv /\ RegionInv /\ OffsetInv
    BY DEF MemoryInv
  <1>2. f \in Inner /\ pc[f] = "construct" /\ Fields \in 1 .. Fields
    BY <1>1, FieldsAssumption DEF IInv, LeavesOK, Construct, At
  <1>3. c \in Frame /\ pc[c] = "done"
    BY <1>1, <1>2, ChildShape DEF IInv, JoinOK, Joined
  <1>4. loc[c] # None /\ end[c] # None
    BY <1>1, <1>3, AddressShape DEF IInv, LocOK
  <1>5. end[c] \in Address /\ (end[c].reg = loc[f].reg => loc[f].off < end[c].off)
    BY <1>2, <1>4, FieldEnds
  <1>6. end' = [end EXCEPT ![f] = end[c]] /\ UNCHANGED <<loc, fresh>>
    BY DEF Construct
  <1> DEFINE a == end[c]
  <1>7. f \in Inner => a = end[Child(f, Fields)]
    OBVIOUS
  <1> HIDE DEF a
  <1> QED
    BY <1>1, <1>2, <1>5, <1>6, <1>7, EndedOffset DEF a

\* The first field goes behind the tag.
LEMMA StartFieldsOffset ==
    ASSUME MemoryInv, NEW w \in Worker, NEW f \in Frame, StartFields(w, f)
    PROVE  OffsetInv'
  <1> DEFINE a == After(loc[f])
  <1>1. IInv /\ RegionInv /\ OffsetInv
    BY DEF MemoryInv
  <1>2. f \in Inner /\ pc[f] = "entry" /\ loc[f] \in Address
    BY <1>1 DEF IInv, LocOK, StartFields, At, Sequential
  <1>3. a \in Address /\ loc[f].off < a.off
    BY <1>2, AddressShape DEF After, Address
  <1>4. 1 \in 1 .. Fields /\ pc[Child(f, 1)] = "new"
    BY <1>1, <1>2, FieldsAssumption DEF IInv, StartedOK, Starting
  <1>5. \A j \in 1 .. Fields : loc[Child(f, j)] = None
    BY <1>1, <1>2 DEF RegionInv, UnsetOK, Starting
  <1>6. /\ loc' = [loc EXCEPT ![Child(f, 1)] = a]
        /\ UNCHANGED <<end, fresh>>
    BY DEF StartFields
  <1>7. 1 .. 1 - 1 = {}
    OBVIOUS
  <1>8. \A i \in 1 .. 1 : Child(f, i) \notin fresh'
    BY <1>1, <1>2, <1>4, <1>5, <1>6 DEF OffsetInv, FreshOK
  <1> HIDE DEF a
  <1> QED
    BY <1>1, <1>2, <1>3, <1>4, <1>5, <1>6, <1>7, <1>8, PlacedOffset

\* The fields from the next one on have not been placed.
LEMMA NextUnset ==
    ASSUME IInv, RegionInv, NEW f \in Inner, pc[f] = "spawned"
    PROVE  \A j \in child[f] + 1 .. Fields : loc[Child(f, j)] = None
  <1>1. child[f] \in 1 .. Fields
    BY NextFieldShape
  <1>2. \A j \in child[f] + 1 .. Fields : j \in 1 .. Fields /\ j > child[f]
    BY <1>1, FieldsAssumption
  <1> QED
    BY <1>2 DEF RegionInv, UnsetOK

\* A field behind its predecessor is behind what that is behind.
LEMMA AfterAvailableOffset ==
    ASSUME MemoryInv, NEW w \in Worker, NEW f \in Frame, AfterAvailable(w, f)
    PROVE  OffsetInv'
  <1> DEFINE m == child[f]
             n == m + 1
             c == Child(f, m)
             a == end[c]
  <1>1. IInv /\ RegionInv /\ OffsetInv
    BY DEF MemoryInv
  <1>2. f \in Inner /\ pc[f] = "spawned" /\ run[w] = f /\ parent_id[f] = w
    BY <1>1 DEF IInv, LeavesOK, AfterAvailable, At, not_stolen
  <1>3. m \in 1 .. Fields /\ n \in 1 .. Fields /\ pc[Child(f, n)] = "new"
    BY <1>1, <1>2, NextFieldShape
  <1>4. c \in Frame /\ pc[c] = "done"
    BY <1>1, <1>2, <1>3, ChildShape DEF IInv, BackOK
  <1>5. /\ a \in Address /\ a # None
        /\ loc[c] \in Address /\ loc[c] # None
    BY <1>1, <1>4, AddressShape DEF IInv, LocOK
  <1>6. a.reg = loc[f].reg => loc[f].off < a.off
    BY <1>2, <1>3, <1>5, FieldEnds
  <1>7. \A j \in n .. Fields : loc[Child(f, j)] = None
    BY <1>1, <1>2, NextUnset
  <1>8. loc' = [loc EXCEPT ![Child(f, n)] = a] /\ UNCHANGED <<end, fresh>>
    BY DEF AfterAvailable
  <1>9. a.reg = loc[c].reg \/ InTree(c, a.reg)
    BY <1>1, <1>4, <1>5 DEF RegionInv, EndOK
  <1>10. a.off \in Nat /\ loc[c].off \in Nat
    BY <1>5 DEF Address
  <1>11. ASSUME NEW i \in 1 .. n - 1, end[Child(f, i)] # None
         PROVE  NotBefore(a, end[Child(f, i)]) \/ Behind(f, i + 1, a.reg)
    <2>1. i \in 1 .. Fields /\ i <= m
      BY <1>3, FieldsAssumption
    <2>2. CASE i = m
      BY <1>10, <2>2 DEF NotBefore
    <2>3. CASE i < m
      <3>1. i + 1 \in 1 .. Fields /\ i + 1 <= m
        BY <1>3, <2>1, <2>3, FieldsAssumption
      <3>2. NotBefore(loc[c], end[Child(f, i)]) \/ Behind(f, i + 1, loc[c].reg)
        BY <1>1, <1>2, <1>3, <1>5, <1>11, <2>1, <2>3 DEF OffsetInv, OrderOK
      <3>3. CASE InTree(c, a.reg)
        BY <1>2, <1>3, <3>1, <3>3, BehindShape
      <3>4. CASE a.reg = loc[c].reg
        <4>1. loc[c].off < a.off
          BY <1>1, <1>4, <1>5, <3>4 DEF OffsetInv, ExtentOK
        <4>2. end[Child(f, i)].off \in Nat
          <5>1. Child(f, i) \in Frame
            BY <1>2, <2>1, ChildShape
          <5>2. end[Child(f, i)] \in Address
            BY <1>1, <1>11, <5>1 DEF IInv, TypeOK
          <5> QED
            BY <5>2 DEF Address
        <4> HIDE DEF a, c
        <4> QED
          BY <1>10, <3>2, <3>4, <4>1, <4>2 DEF NotBefore
      <3> QED
        BY <1>9, <3>3, <3>4
    <2> QED
      BY <1>3, <2>1, <2>2, <2>3
  <1>12. ASSUME NEW i \in 1 .. n, Child(f, i) \in fresh'
         PROVE  Behind(f, i, a.reg)
    <2>1. i \in 1 .. Fields
      BY <1>3, FieldsAssumption
    <2>2. Child(f, i) \in fresh /\ loc[Child(f, i)] # None
      BY <1>1, <1>2, <1>8, <1>12, <2>1 DEF OffsetInv, FreshOK
    <2>3. i # n
      <3>1. n \in n .. Fields
        BY <1>3, FieldsAssumption
      <3> QED
        BY <1>7, <2>2, <3>1
    <2>4. i <= m /\ m \in i .. Fields
      BY <1>3, <2>1, <2>3
    <2>5. Behind(f, i, loc[c].reg)
      BY <1>1, <1>2, <1>5, <2>1, <2>2, <2>4 DEF OffsetInv, FreshOK
    <2>6. InTree(c, a.reg) => Behind(f, i, a.reg)
      BY <1>2, <1>3, <2>1, <2>4, BehindShape
    <2> QED
      BY <1>9, <2>5, <2>6
  <1> HIDE DEF m, n, c, a
  <1> QED
    BY <1>1, <1>2, <1>3, <1>5, <1>6, <1>7, <1>8, <1>11, <1>12, PlacedOffset

\* A fresh region is behind everything.
LEMMA FreshRegionOffset ==
    ASSUME MemoryInv, NEW w \in Worker, NEW f \in Frame, FreshRegion(w, f)
    PROVE  OffsetInv'
  <1> DEFINE n == child[f] + 1
             d == Child(f, n)
             a == RegionStart(d)
  <1>1. IInv /\ RegionInv /\ OffsetInv
    BY DEF MemoryInv
  <1>2. f \in Inner /\ pc[f] = "spawned" /\ f \in Frame
    BY <1>1 DEF IInv, LeavesOK, FreshRegion, At
  <1>3. n \in 1 .. Fields /\ pc[d] = "new"
    BY <1>1, <1>2, NextFieldShape
  <1>4. /\ d \in Frame /\ a \in Address /\ a.reg = d
        /\ InTree(d, a.reg) /\ InTree(f, d) /\ d # f
    BY <1>2, <1>3, ChildShape, ChildTree, AddressShape, TreeOrder DEF RegionStart
  <1>5. a.reg # loc[f].reg
    <2>1. loc[f] # None
      BY <1>1, <1>2, AddressShape DEF IInv, LocOK
    <2> QED
      BY <1>1, <1>2, <1>4, <2>1, StartsAbove
  <1>6. \A j \in n .. Fields : loc[Child(f, j)] = None
    BY <1>1, <1>2, NextUnset
  <1>7. /\ loc' = [loc EXCEPT ![d] = a]
        /\ fresh' = fresh \cup {d}
        /\ UNCHANGED end
    BY DEF FreshRegion
  <1>8. ASSUME NEW i \in 1 .. n
        PROVE  Behind(f, i, a.reg)
    <2>1. i \in 1 .. Fields /\ i <= n
      BY <1>3, FieldsAssumption
    <2> QED
      BY <1>2, <1>3, <1>4, <2>1, BehindShape
  <1>9. \A i \in 1 .. n - 1 : Behind(f, i + 1, a.reg)
    <2>1. \A i \in 1 .. n - 1 : i + 1 \in 1 .. n
      BY <1>3
    <2> QED
      BY <1>8, <2>1
  <1> HIDE DEF n, a
  <1> QED
    BY <1>1, <1>2, <1>3, <1>4, <1>5, <1>6, <1>7, <1>8, <1>9, PlacedOffset

\* Every step preserves the order of the fields.
LEMMA NextOffsetInv == MemoryInv /\ [Next]_vars => OffsetInv'
  <1> SUFFICES ASSUME MemoryInv, [Next]_vars
               PROVE  OffsetInv'
    OBVIOUS
  <1>1. OffsetInv
    BY DEF MemoryInv
  <1>2. CASE UNCHANGED <<loc, end, fresh>>
    BY <1>1, <1>2, OffsetsKept
  <1>3. ASSUME NEW w \in Worker, NEW f \in Frame, Step(w, f)
        PROVE  OffsetInv'
    <2>1. CASE WriteLeaf(w, f)
      BY <2>1, WriteLeafOffset
    <2>2. CASE StartFields(w, f)
      BY <2>2, StartFieldsOffset
    <2>3. CASE AfterAvailable(w, f)
      BY <2>3, AfterAvailableOffset
    <2>4. CASE FreshRegion(w, f)
      BY <2>4, FreshRegionOffset
    <2>5. CASE Construct(w, f)
      BY <2>5, ConstructOffset
    <2>6. CASE Spawn(w, f) \/ CallLast(w, f) \/ Sync(w, f) \/ Tie(w, f)
      BY <1>2, <2>6 DEF Spawn, CallLast, Sync, Tie
    <2>7. CASE ReturnCalled(w, f) \/ ReturnPopped(w, f) \/ ReturnStolen(w, f) \/ ReturnRoot(w, f)
      BY <1>2, <2>7 DEF ReturnCalled, ReturnPopped, ReturnStolen, ReturnRoot
    <2> QED
      BY <1>3, <2>1, <2>2, <2>3, <2>4, <2>5, <2>6, <2>7 DEF Step
  <1>4. ASSUME NEW w \in Worker, NEW v \in Worker, Steal(w, v)
        PROVE  OffsetInv'
    BY <1>2, <1>4 DEF Steal
  <1>5. UNCHANGED vars => OffsetInv'
    BY <1>2 DEF vars
  <1> QED
    BY <1>3, <1>4, <1>5 DEF Next, Work

-----------------------------------------------------------------------------
(***************************************************************************)
(* What is written stays written.                                          *)
(***************************************************************************)

\* Locations and ends are set once, and a call that has written its indirections
\* goes on to write its constructor and to return.
LEMMA StepsKeep ==
    ASSUME IInv, RegionInv, [Next]_vars
    PROVE  /\ fresh \subseteq fresh'
           /\ \A c \in Frame :
                /\ loc[c] # None => loc'[c] = loc[c]
                /\ end[c] # None => end'[c] = end[c]
                /\ pc[c] \in {"return", "done"} => pc'[c] \in {"return", "done"}
                /\ pc[c] = "construct" => pc'[c] \in {"construct", "return", "done"}
  <1> DEFINE Kept ==
        /\ fresh \subseteq fresh'
        /\ \A c \in Frame :
             /\ loc[c] # None => loc'[c] = loc[c]
             /\ end[c] # None => end'[c] = end[c]
             /\ pc[c] \in {"return", "done"} => pc'[c] \in {"return", "done"}
             /\ pc[c] = "construct" => pc'[c] \in {"construct", "return", "done"}
  <1>1. CASE UNCHANGED vars
    BY <1>1 DEF vars
  <1>2. ASSUME NEW w \in Worker, NEW v \in Worker, Steal(w, v)
        PROVE  Kept
    BY <1>2 DEF Steal
  <1>3. ASSUME NEW w \in Worker, NEW f \in Frame, Step(w, f)
        PROVE  Kept
    <2>1. CASE WriteLeaf(w, f)
      <3>1. pc[f] = "entry" /\ end[f] = None
        BY <2>1 DEF WriteLeaf, At, RegionInv, UnsetOK
      <3> QED
        BY <2>1, <3>1 DEF WriteLeaf, IInv, TypeOK
    <2>2. CASE StartFields(w, f)
      <3>1. f \in Inner /\ pc[f] = "entry"
        BY <2>2 DEF StartFields, At, Sequential
      <3>2. 1 \in 1 .. Fields
        BY FieldsAssumption
      <3>3. Child(f, 1) \in Frame /\ loc[Child(f, 1)] = None
        BY <3>1, <3>2, ChildShape DEF RegionInv, UnsetOK, Starting
      <3> QED
        BY <2>2, <3>1, <3>3 DEF StartFields, IInv, TypeOK
    <2>3. CASE AfterAvailable(w, f) \/ FreshRegion(w, f)
      <3>1. f \in Inner /\ pc[f] = "spawned"
        BY <2>3 DEF AfterAvailable, FreshRegion, At, IInv, LeavesOK
      <3> DEFINE n == child[f] + 1
                 d == Child(f, n)
      <3>2. n \in 1 .. Fields
        BY <3>1, NextFieldShape
      <3>3. n \in n .. Fields
        BY <3>2, FieldsAssumption
      <3>4. d \in Frame /\ loc[d] = None
        BY <3>1, <3>2, <3>3, ChildShape, NextUnset
      <3> HIDE DEF n
      <3>5. /\ \E a : loc' = [loc EXCEPT ![d] = a]
            /\ pc' = [pc EXCEPT ![f] = "build"]
            /\ UNCHANGED end
            /\ fresh \subseteq fresh'
        BY <2>3 DEF AfterAvailable, FreshRegion, n
      <3> HIDE DEF d
      <3> QED
        BY <3>1, <3>4, <3>5 DEF IInv, TypeOK
    <2>4. CASE Construct(w, f)
      <3>1. pc[f] = "construct" /\ end[f] = None
        BY <2>4 DEF Construct, At, RegionInv, UnsetOK
      <3> QED
        BY <2>4, <3>1 DEF Construct, IInv, TypeOK
    <2>5. CASE Spawn(w, f)
      <3>1. f \in Inner /\ pc[f] = "build" /\ child[f] \in 1 .. Fields
        BY <2>5 DEF Spawn, At, IInv, LeavesOK, TypeOK
      <3>2. Child(f, child[f]) \in Frame /\ Child(f, child[f]) # f
        BY <3>1, ChildShape
      <3>3. pc[Child(f, child[f])] = "new"
        BY <3>1 DEF IInv, StartedOK
      <3> QED
        BY <2>5, <3>1, <3>2, <3>3 DEF Spawn, IInv, TypeOK
    <2>6. CASE CallLast(w, f)
      <3>1. f \in Inner /\ pc[f] = "build" /\ child[f] = Fields /\ Fields \in 1 .. Fields
        BY <2>6, FieldsAssumption DEF CallLast, At, IInv, LeavesOK
      <3>2. Child(f, Fields) \in Frame /\ Child(f, Fields) # f
        BY <3>1, ChildShape
      <3>3. pc[Child(f, Fields)] = "new"
        BY <3>1 DEF IInv, StartedOK
      <3> QED
        BY <2>6, <3>1, <3>2, <3>3 DEF CallLast, IInv, TypeOK
    <2>7. CASE Sync(w, f)
      BY <2>7 DEF Sync, At, IInv, TypeOK
    <2>8. CASE Tie(w, f)
      BY <2>8 DEF Tie, At, IInv, TypeOK
    <2>9. CASE ReturnCalled(w, f)
      <3>1. Parent(f) \in Inner /\ Parent(f) \in Frame /\ f = Child(Parent(f), Index(f)) /\ Index(f) \in 1 .. Fields
        BY <2>9, ParentShape, InnerShape DEF ReturnCalled
      <3>2. pc[f] = "return" /\ Parent(f) # f
        BY <2>9, <3>1, ChildShape DEF ReturnCalled, At
      <3>3. pc[Parent(f)] \notin {"construct", "return", "done"}
        BY <3>1, <3>2 DEF IInv, JoinOK, Joined
      <3> QED
        BY <2>9, <3>1, <3>2, <3>3 DEF ReturnCalled, IInv, TypeOK
    <2>10. CASE ReturnPopped(w, f)
      BY <2>10 DEF ReturnPopped, At, IInv, TypeOK
    <2>11. CASE ReturnStolen(w, f)
      <3>1. \/ pc' = [pc EXCEPT ![f] = "done"]
            \/ /\ pc[Parent(f)] = "suspended"
               /\ pc' = [[pc EXCEPT ![f] = "done"] EXCEPT ![Parent(f)] = "tie"]
        BY <2>11 DEF ReturnStolen
      <3> QED
        BY <2>11, <3>1 DEF ReturnStolen, At, IInv, TypeOK
    <2>12. CASE ReturnRoot(w, f)
      BY <2>12 DEF ReturnRoot, At, IInv, TypeOK
    <2> QED
      BY <1>3, <2>1, <2>2, <2>3, <2>4, <2>5, <2>6, <2>7, <2>8, <2>9, <2>10, <2>11, <2>12 DEF Step
  <1> QED
    BY <1>1, <1>2, <1>3 DEF Next, Work

\* What a call has written is one of its cells.
LEMMA WrittenSlot ==
    ASSUME IInv, NEW f \in Frame, NEW a, Written(f, a)
    PROVE  Slot(f, a)
  <1>1. CASE pc[f] \in {"return", "done"} /\ a = loc[f]
    BY <1>1, AddressShape DEF IInv, LocOK, Slot
  <1>2. ASSUME f \in Inner, pc[f] \in {"construct", "return", "done"},
               NEW i \in TiedFields(f), a = TieFrom(f, i)
        PROVE  Slot(f, a)
    <2>1. i - 1 \in 1 .. Fields
      BY FieldsAssumption DEF TiedFields
    <2>2. Child(f, i - 1) \in Frame /\ pc[Child(f, i - 1)] = "done"
      BY <1>2, <2>1, ChildShape DEF IInv, JoinOK, Joined
    <2>3. end[Child(f, i - 1)] # None
      BY <2>2, AddressShape DEF IInv, LocOK
    <2> QED
      BY <1>2, <2>3 DEF Slot
  <1> QED
    BY <1>1, <1>2 DEF Written

\* It stays written.
LEMMA WrittenKept ==
    ASSUME IInv, RegionInv, [Next]_vars, NEW f \in Frame, NEW a, Written(f, a)
    PROVE  Written(f, a)'
  <1>1. CASE pc[f] \in {"return", "done"} /\ a = loc[f]
    <2>1. loc[f] # None
      BY <1>1, AddressShape DEF IInv, LocOK
    <2> QED
      BY <1>1, <2>1, StepsKeep DEF Written
  <1>2. ASSUME f \in Inner, pc[f] \in {"construct", "return", "done"},
               NEW i \in TiedFields(f), a = TieFrom(f, i)
        PROVE  Written(f, a)'
    <2>1. i \in 2 .. Fields /\ Child(f, i) \in fresh /\ i - 1 \in 1 .. Fields
      BY FieldsAssumption DEF TiedFields
    <2>2. Child(f, i - 1) \in Frame /\ pc[Child(f, i - 1)] = "done"
      BY <1>2, <2>1, ChildShape DEF IInv, JoinOK, Joined
    <2>3. end[Child(f, i - 1)] # None
      BY <2>2, AddressShape DEF IInv, LocOK
    <2>4. i \in TiedFields(f)' /\ a = TieFrom(f, i)'
      BY <1>2, <2>1, <2>2, <2>3, StepsKeep DEF TiedFields, TieFrom
    <2>5. pc'[f] \in {"construct", "return", "done"}
      BY <1>2, StepsKeep
    <2> QED
      BY <1>2, <2>4, <2>5 DEF Written
  <1> QED
    BY <1>1, <1>2 DEF Written

\* A step either leaves the memory alone, or writes cells of one call that the
\* call has not written before, and leaves the others alone.
LEMMA StepsWrite ==
    ASSUME MemoryInv, [Next]_vars
    PROVE  \/ UNCHANGED mem
           \/ \E f \in Frame :
                /\ DOMAIN mem \subseteq DOMAIN mem'
                /\ \A a \in DOMAIN mem' :
                     \/ a \in DOMAIN mem /\ mem'[a] = mem[a]
                     \/ Slot(f, a) /\ ~Written(f, a) /\ Written(f, a)'
  <1> DEFINE Writes(f) ==
        /\ DOMAIN mem \subseteq DOMAIN mem'
        /\ \A a \in DOMAIN mem' :
             \/ a \in DOMAIN mem /\ mem'[a] = mem[a]
             \/ Slot(f, a) /\ ~Written(f, a) /\ Written(f, a)'
  <1>1. IInv /\ RegionInv
    BY DEF MemoryInv
  <1>2. ASSUME NEW w \in Worker, NEW f \in Frame, WriteLeaf(w, f)
        PROVE  Writes(f)
    <2>1. pc[f] = "entry" /\ pc'[f] = "return" /\ loc'[f] = loc[f]
      BY <1>1, <1>2 DEF WriteLeaf, At, IInv, TypeOK
    <2>2. loc[f] # None
      BY <1>1, <2>1, AddressShape DEF IInv, LocOK
    <2>3. ASSUME NEW a, a = loc[f]
          PROVE  Slot(f, a) /\ ~Written(f, a) /\ Written(f, a)'
      BY <2>3, <2>1, <2>2 DEF Slot, Written
    <2>4. /\ DOMAIN mem' = DOMAIN mem \cup {loc[f]}
          /\ \A a \in DOMAIN mem' : a # loc[f] => a \in DOMAIN mem /\ mem'[a] = mem[a]
      BY <1>2 DEF WriteLeaf, Put
    <2> QED
      BY <2>3, <2>4
  <1>3. ASSUME NEW w \in Worker, NEW f \in Frame, Construct(w, f)
        PROVE  Writes(f)
    <2>1. f \in Inner /\ pc[f] = "construct" /\ pc'[f] = "return" /\ loc'[f] = loc[f]
      BY <1>1, <1>3 DEF Construct, At, IInv, TypeOK, LeavesOK
    <2>2. loc[f] # None
      BY <1>1, <2>1, AddressShape DEF IInv, LocOK
    <2>3. \A i \in TiedFields(f) : TieFrom(f, i) # loc[f]
      <3> SUFFICES ASSUME NEW i \in TiedFields(f), TieFrom(f, i) = loc[f]
                   PROVE  FALSE
        OBVIOUS
      <3> DEFINE c == Child(f, i - 1)
      <3>1. i - 1 \in 1 .. Fields
        BY FieldsAssumption DEF TiedFields
      <3>2. c \in Frame /\ pc[c] = "done"
        BY <1>1, <2>1, <3>1, ChildShape DEF IInv, JoinOK, Joined
      <3>3. loc[c] # None /\ end[c] # None
        BY <1>1, <3>2, AddressShape DEF IInv, LocOK
      <3>4. end[c] \in Address /\ (end[c].reg = loc[f].reg => loc[f].off < end[c].off)
        BY <2>1, <3>1, <3>3, FieldEnds
      <3>5. end[c] = loc[f] /\ end[c].off \in Nat
        BY <3>4 DEF TieFrom, Address
      <3> HIDE DEF c
      <3> QED
        BY <3>4, <3>5
    <2>4. ASSUME NEW a, a = loc[f]
          PROVE  Slot(f, a) /\ ~Written(f, a) /\ Written(f, a)'
      BY <2>4, <2>1, <2>2, <2>3 DEF Slot, Written
    <2>5. /\ DOMAIN mem' = DOMAIN mem \cup {loc[f]}
          /\ \A a \in DOMAIN mem' : a # loc[f] => a \in DOMAIN mem /\ mem'[a] = mem[a]
      BY <1>3 DEF Construct, Put
    <2> QED
      BY <2>4, <2>5
  <1>4. ASSUME NEW w \in Worker, NEW f \in Frame, Tie(w, f)
        PROVE  Writes(f)
    <2>1. f \in Inner /\ pc[f] = "tie" /\ pc'[f] = "construct" /\ UNCHANGED <<end, fresh>>
      BY <1>1, <1>4 DEF Tie, At, IInv, TypeOK, LeavesOK
    <2>2. ASSUME NEW i \in TiedFields(f), NEW a, a = TieFrom(f, i)
          PROVE  Slot(f, a) /\ ~Written(f, a) /\ Written(f, a)'
      <3>1. i - 1 \in 1 .. Fields
        BY FieldsAssumption DEF TiedFields
      <3>2. Child(f, i - 1) \in Frame /\ pc[Child(f, i - 1)] = "done"
        BY <1>1, <2>1, <3>1, ChildShape DEF IInv, JoinOK, Joined
      <3>3. end[Child(f, i - 1)] # None
        BY <1>1, <3>2, AddressShape DEF IInv, LocOK
      <3>4. i \in TiedFields(f)' /\ TieFrom(f, i)' = TieFrom(f, i)
        BY <2>1 DEF TiedFields, TieFrom
      <3> QED
        BY <2>1, <2>2, <3>3, <3>4 DEF Slot, Written
    <2>3. /\ DOMAIN mem' = DOMAIN mem \cup {TieFrom(f, i) : i \in TiedFields(f)}
          /\ \A a \in DOMAIN mem' :
               \/ a \in DOMAIN mem /\ mem'[a] = mem[a]
               \/ \E i \in TiedFields(f) : a = TieFrom(f, i)
      BY <1>4 DEF Tie
    <2> QED
      BY <2>2, <2>3
  <1>5. ASSUME NEW w \in Worker, NEW f \in Frame, Step(w, f)
        PROVE  UNCHANGED mem \/ Writes(f)
    <2>1. CASE WriteLeaf(w, f) \/ Construct(w, f) \/ Tie(w, f)
      BY <1>2, <1>3, <1>4, <2>1
    <2>2. CASE \/ StartFields(w, f) \/ Spawn(w, f) \/ AfterAvailable(w, f)
               \/ FreshRegion(w, f) \/ CallLast(w, f) \/ Sync(w, f)
      BY <2>2 DEF StartFields, Spawn, AfterAvailable, FreshRegion, CallLast, Sync
    <2>3. CASE ReturnCalled(w, f) \/ ReturnPopped(w, f) \/ ReturnStolen(w, f) \/ ReturnRoot(w, f)
      BY <2>3 DEF ReturnCalled, ReturnPopped, ReturnStolen, ReturnRoot
    <2> QED
      BY <1>5, <2>1, <2>2, <2>3 DEF Step
  <1>6. ASSUME NEW w \in Worker, NEW v \in Worker, Steal(w, v)
        PROVE  UNCHANGED mem
    BY <1>6 DEF Steal
  <1>7. UNCHANGED vars => UNCHANGED mem
    BY DEF vars
  <1> QED
    BY <1>5, <1>6, <1>7 DEF Next, Work

\* What is in memory has been written by somebody.
LEMMA NextWrittenOK == MemoryInv /\ WrittenOK /\ [Next]_vars => WrittenOK'
  <1> SUFFICES ASSUME MemoryInv, WrittenOK, [Next]_vars, NEW a \in DOMAIN mem'
               PROVE  \E f \in Frame : Written(f, a)'
    BY DEF WrittenOK
  <1>1. CASE a \in DOMAIN mem
    <2>1. PICK g \in Frame : Written(g, a)
      BY <1>1 DEF WrittenOK
    <2> QED
      BY <2>1, WrittenKept DEF MemoryInv
  <1>2. CASE a \notin DOMAIN mem
    BY <1>2, StepsWrite
  <1> QED
    BY <1>1, <1>2

\* A call only writes cells of its own, and each once.
LEMMA StepsWriteOnce ==
    ASSUME MemoryInv, WrittenOK, [Next]_vars, NEW a \in DOMAIN mem
    PROVE  a \in DOMAIN mem' /\ mem'[a] = mem[a]
  <1>1. CASE UNCHANGED mem
    BY <1>1
  <1>2. ASSUME NEW f \in Frame,
               DOMAIN mem \subseteq DOMAIN mem',
               \A b \in DOMAIN mem' :
                     \/ b \in DOMAIN mem /\ mem'[b] = mem[b]
                     \/ Slot(f, b) /\ ~Written(f, b) /\ Written(f, b)'
        PROVE  a \in DOMAIN mem' /\ mem'[a] = mem[a]
    <2> SUFFICES ASSUME Slot(f, a), ~Written(f, a)
                 PROVE  FALSE
      BY <1>2
    <2>1. PICK g \in Frame : Written(g, a)
      BY DEF WrittenOK
    <2>2. Slot(g, a)
      BY <2>1, WrittenSlot DEF MemoryInv
    <2>3. f = g
      BY <2>2, SlotOnce
    <2> QED
      BY <2>1, <2>3
  <1> QED
    BY <1>1, <1>2, StepsWrite

-----------------------------------------------------------------------------
(* The invariant holds in every reachable state. *)
THEOREM ParMemoryInv == Spec => [](MemoryInv /\ WrittenOK)
  <1>1. Init => MemoryInv /\ WrittenOK
    BY InitIInv, InitRegionInv, InitOffsetInv DEF MemoryInv
  <1>2. MemoryInv /\ WrittenOK /\ [Next]_vars => (MemoryInv /\ WrittenOK)'
    BY NextIInv, NextRegionInv, NextOffsetInv, NextWrittenOK DEF MemoryInv
  <1> QED
    BY <1>1, <1>2, PTL DEF Spec

(* No cell is ever written twice: neither by the parallel calls, whatever is
   stolen, nor by the indirections that the sync ties (ParAlloc.hs, SyncE). *)
THEOREM ParWrittenOnce == Spec => WrittenOnce
  <1>1. MemoryInv /\ WrittenOK /\ [Next]_vars
          => [\A a \in DOMAIN mem : a \in DOMAIN mem' /\ mem'[a] = mem[a]]_vars
    BY StepsWriteOnce
  <1> QED
    BY <1>1, ParMemoryInv, PTL DEF Spec, WrittenOnce
=============================================================================

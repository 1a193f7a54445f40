--------------------------- MODULE ParAllocProofs ---------------------------
(***************************************************************************)
(* The safety of the parallel allocation of ParAlloc, for any number of    *)
(* workers, any constructor and any tree of calls: a sync joins complete   *)
(* fields, a field is only put behind a predecessor that is there, and no  *)
(* two calls write to one region at the same time.                         *)
(***************************************************************************)
EXTENDS ParAlloc, SequenceTheorems, FiniteSetTheorems, WellFoundedInduction, TLAPS

(***************************************************************************)
(* The inductive invariant.                                                *)
(***************************************************************************)

Starting == {"new", "entry"}
Joined == {"tie", "construct", "return", "done"}
Executed == {"entry", "build", "spawned", "sync", "tie", "construct", "return"}

\* A sequential call makes no calls.
LeavesOK == \A f \in Frame \ Inner : pc[f] \in {"new", "entry", "return", "done"}

\* How far a call is, and what that says of its children.
ChildOK ==
    \A f \in Inner :
        /\ pc[f] \in Starting => child[f] = 1
        /\ pc[f] = "spawned" => child[f] < Fields
        /\ pc[f] \notin Starting \cup {"build", "spawned"} => child[f] = Fields

StartedOK ==
    \A f \in Inner, i \in 1 .. Fields :
        pc[Child(f, i)] # "new"
            <=> /\ pc[f] \notin Starting
                /\ i < child[f] \/ (i = child[f] /\ pc[f] # "build")

JoinOK ==
    \A f \in Inner :
        /\ pc[f] = "calling" => pc[Child(f, Fields)] # "done"
        /\ pc[f] \in {"sync", "suspended"} => pc[Child(f, Fields)] = "done"
        /\ pc[f] \in Joined => \A i \in 1 .. Fields : pc[Child(f, i)] = "done"

\* No call is executed twice at a time.
RunOK ==
    /\ \A w \in Worker : run[w] # None => pc[run[w]] \in Executed
    /\ \A v, w \in Worker : run[v] # None /\ run[v] = run[w] => v = w

\* What waits on a deque is the continuation of the last spawn of a call that
\* nobody executes.
DequeOK ==
    \A w \in Worker : \A k \in 1 .. Len(deque[w]) :
        LET c == deque[w][k]
            f == Parent(c)
        IN /\ Spawned(c)
           /\ pc[f] = "spawned"
           /\ Index(c) = child[f]
           /\ parent_id[f] = w
           /\ \A v \in Worker : run[v] # f

NoDuplicates ==
    \A w \in Worker : \A j, k \in 1 .. Len(deque[w]) : deque[w][j] = deque[w][k] => j = k

\* A worker is back at a spawn of its own only when the child has returned to it.
BackOK ==
    \A w \in Worker, f \in Inner :
        run[w] = f /\ pc[f] = "spawned" /\ parent_id[f] = w => pc[Child(f, child[f])] = "done"

\* Locations are known before they are used.
LocOK ==
    /\ \A f \in Frame : pc[f] # "new" => loc[f] \in Address
    /\ \A f \in Inner, i \in 1 .. Fields :
         pc[f] \notin Starting /\ i <= child[f] => loc[Child(f, i)] \in Address
    /\ \A f \in Frame : pc[f] \in {"return", "done"} => end[f] \in Address

IInv ==
    /\ TypeOK
    /\ LeavesOK
    /\ ChildOK
    /\ StartedOK
    /\ JoinOK
    /\ RunOK
    /\ DequeOK
    /\ NoDuplicates
    /\ BackOK
    /\ LocOK
    /\ AvailableIsDone

-----------------------------------------------------------------------------
(***************************************************************************)
(* The calls form a tree, and locations are addresses.                     *)
(***************************************************************************)

\* The children of a call are told apart by their index and lead back to it.
LEMMA ChildShape ==
    ASSUME NEW f \in Inner, NEW i \in 1 .. Fields
    PROVE  /\ f \in Frame
           /\ Child(f, i) \in Frame
           /\ Child(f, i) # Root
           /\ Child(f, i) # f
           /\ Parent(Child(f, i)) = f
           /\ Index(Child(f, i)) = i
  <1>1. f \in Seq(1 .. Fields) /\ f \in Frame
    BY InnerAssumption
  <1>2. /\ Len(Append(f, i)) = Len(f) + 1
        /\ Append(f, i)[Len(f) + 1] = i
        /\ \A k \in 1 .. Len(f) : Append(f, i)[k] = f[k]
        /\ Append(f, i) \in Seq(1 .. Fields)
        /\ Len(f) \in Nat
    BY <1>1
  <1>3. SubSeq(Append(f, i), 1, Len(f)) = f
    BY <1>1, <1>2
  <1>4. Append(f, i) # f
    BY <1>2
  <1>5. Len(<<>>) = 0
    OBVIOUS
  <1>6. Append(f, i) # <<>>
    BY <1>2, <1>5
  <1>7. Len(Append(f, i)) - 1 = Len(f)
    BY <1>2
  <1>8. Parent(Child(f, i)) = f /\ Index(Child(f, i)) = i
    BY <1>2, <1>3, <1>7 DEF Child, Parent, Index
  <1> QED
    BY <1>1, <1>4, <1>6, <1>8 DEF Child, Root, Frame

\* Every call but the first was made by another.
LEMMA ParentShape ==
    ASSUME NEW c \in Frame, c # Root
    PROVE  /\ Parent(c) \in Inner
           /\ Index(c) \in 1 .. Fields
           /\ c = Child(Parent(c), Index(c))
  <1>1. PICK f \in Inner, i \in 1 .. Fields : c = Child(f, i)
    BY DEF Frame
  <1> QED
    BY <1>1, ChildShape

\* The first call is one of them, and those that make calls are.
LEMMA RootShape == Root \in Frame
  BY DEF Frame

\* A call that makes calls is a call.
LEMMA InnerShape == \A f \in Inner : f \in Frame
  BY InnerAssumption

\* Locations are addresses, and an address is not None.
LEMMA AddressShape ==
    /\ \A c \in Frame : RegionStart(c) \in Address
    /\ \A a \in Address : After(a) \in Address
    /\ None \notin Address
  BY NoneAssumption DEF RegionStart, After, Address

\* A deque with one more continuation.
LEMMA Pushed ==
    ASSUME NEW S, NEW s \in Seq(S), NEW c \in S
    PROVE  /\ Append(s, c) \in Seq(S)
           /\ Len(s) \in Nat
           /\ Len(Append(s, c)) = Len(s) + 1
           /\ \A k \in 1 .. Len(s) : Append(s, c)[k] = s[k]
           /\ Append(s, c)[Len(s) + 1] = c
  OBVIOUS

\* A deque without its youngest continuation.
LEMMA Popped ==
    ASSUME NEW S, NEW s \in Seq(S), s # <<>>
    PROVE  /\ SubSeq(s, 1, Len(s) - 1) \in Seq(S)
           /\ Len(s) \in Nat \ {0}
           /\ Len(SubSeq(s, 1, Len(s) - 1)) = Len(s) - 1
           /\ \A k \in 1 .. Len(s) - 1 : SubSeq(s, 1, Len(s) - 1)[k] = s[k]
  <1>1. Len(s) \in Nat \ {0} /\ \A k \in 1 .. Len(s) : s[k] \in S
    BY EmptySeq, ElementOfSeq
  <1>2. PICK n \in Nat : n = Len(s) - 1
    BY <1>1
  <1>3. /\ SubSeq(s, 1, n) \in Seq(S)
        /\ Len(SubSeq(s, 1, n)) = n
        /\ \A k \in 1 .. n : SubSeq(s, 1, n)[k] = s[k]
    BY <1>1, <1>2
  <1> QED
    BY <1>1, <1>2, <1>3

\* A deque without its oldest continuation.
LEMMA Robbed ==
    ASSUME NEW S, NEW s \in Seq(S), s # <<>>
    PROVE  /\ Tail(s) \in Seq(S)
           /\ Len(s) \in Nat \ {0}
           /\ Len(Tail(s)) = Len(s) - 1
           /\ \A k \in 1 .. Len(s) - 1 : Tail(s)[k] = s[k + 1]
           /\ s[1] \in S
  OBVIOUS

-----------------------------------------------------------------------------
(***************************************************************************)
(* The first state.                                                        *)
(***************************************************************************)
LEMMA InitIInv == Init => IInv
  <1> SUFFICES ASSUME Init PROVE IInv
    OBVIOUS
  <1> USE FieldsAssumption, ChildShape, ParentShape, RootShape, AddressShape, NoneAssumption DEF Init
  <1>1. TypeOK
    BY EmptySeq DEF TypeOK, PC
  <1>2. LeavesOK /\ ChildOK /\ StartedOK /\ JoinOK
    BY DEF LeavesOK, ChildOK, StartedOK, JoinOK, Starting, Joined
  <1>3. RunOK
    BY DEF RunOK, Executed
  <1>4. DequeOK /\ NoDuplicates
    BY DEF DequeOK, NoDuplicates
  <1>5. BackOK
    BY DEF BackOK
  <1>6. LocOK
    BY DEF LocOK, Starting
  <1>7. AvailableIsDone
    BY DEF AvailableIsDone
  <1> QED
    BY <1>1, <1>2, <1>3, <1>4, <1>5, <1>6, <1>7 DEF IInv

(***************************************************************************)
(* What waits on a deque, and which calls and workers are who.             *)
(***************************************************************************)

\* A waiting continuation is that of a spawned call.
LEMMA Waiting ==
    ASSUME IInv, NEW w \in Worker, NEW k \in 1 .. Len(deque[w])
    PROVE  /\ deque[w][k] \in Frame
           /\ Parent(deque[w][k]) \in Inner
           /\ Parent(deque[w][k]) \in Frame
           /\ deque[w][k] = Child(Parent(deque[w][k]), Index(deque[w][k]))
  <1>1. deque[w] \in Seq(Frame)
    BY DEF IInv, TypeOK
  <1>2. deque[w][k] \in Frame
    BY <1>1, ElementOfSeq
  <1>3. deque[w][k] # Root
    BY DEF IInv, DequeOK, Spawned
  <1> QED
    BY <1>2, <1>3, ParentShape, InnerShape

\* A step that leaves the deques and the calls that wait there alone.
LEMMA WaitingLeftAlone ==
    ASSUME IInv, UNCHANGED deque,
           \A g \in Inner :
               pc[g] = "spawned" /\ (\A v \in Worker : run[v] # g)
                   => /\ pc'[g] = "spawned"
                      /\ child'[g] = child[g]
                      /\ parent_id'[g] = parent_id[g]
                      /\ \A v \in Worker : run'[v] # g
    PROVE  DequeOK' /\ NoDuplicates'
  BY Waiting DEF IInv, DequeOK, NoDuplicates

\* A step that starts no call and moves no call on to another field.
LEMMA NothingStarted ==
    ASSUME IInv, UNCHANGED child,
           \A c \in Frame : pc'[c] = "new" <=> pc[c] = "new",
           \A g \in Inner : pc'[g] \in Starting <=> pc[g] \in Starting,
           \A g \in Inner : pc'[g] = "build" <=> pc[g] = "build"
    PROVE  StartedOK'
  BY ChildShape DEF IInv, StartedOK

\* A step that starts no new field and forgets no returned call.
LEMMA AvailableKept ==
    ASSUME IInv, UNCHANGED <<child, fresh>>,
           \A c \in Frame : pc[c] = "done" => pc'[c] = "done"
    PROVE  AvailableIsDone'
  <1>1. \A f \in Inner, i \in 1 .. Fields - 1 : Child(f, i) \in Frame
    BY ChildShape, FieldsAssumption
  <1> QED
    BY <1>1 DEF IInv, AvailableIsDone

(***************************************************************************)
(* The compiled function.                                                  *)
(***************************************************************************)
LEMMA WriteLeafIInv ==
    ASSUME IInv, NEW w \in Worker, NEW f \in Frame, WriteLeaf(w, f)
    PROVE  IInv'
  <1> USE FieldsAssumption, ChildShape, AddressShape, NoneAssumption DEF IInv, WriteLeaf, At, Sequential
  <1>1. loc[f] \in Address
    BY DEF LocOK
  <1>2. TypeOK'
    <2>1. \A a \in DOMAIN mem' : a \in Address /\ mem'[a] \in Cell
      BY <1>1 DEF TypeOK, Put, Leaf, Cell
    <2> QED
      BY <1>1, <2>1 DEF TypeOK, PC
  <1>3. LeavesOK' /\ ChildOK'
    BY DEF TypeOK, LeavesOK, ChildOK
  <1>4. StartedOK'
    BY DEF TypeOK, StartedOK, Starting
  <1>5. JoinOK'
    BY DEF TypeOK, JoinOK, Joined
  <1>6. RunOK'
    BY DEF TypeOK, RunOK, Executed
  <1>7. DequeOK' /\ NoDuplicates'
    BY WaitingLeftAlone, InnerShape DEF TypeOK
  <1>8. BackOK'
    BY DEF TypeOK, BackOK
  <1>9. LocOK'
    BY <1>1 DEF TypeOK, LocOK, Starting
  <1>10. AvailableIsDone'
    BY DEF TypeOK, AvailableIsDone
  <1> QED
    BY <1>2, <1>3, <1>4, <1>5, <1>6, <1>7, <1>8, <1>9, <1>10

\* Beginning the fields preserves the invariant.
LEMMA StartFieldsIInv ==
    ASSUME IInv, NEW w \in Worker, NEW f \in Frame, StartFields(w, f)
    PROVE  IInv'
  <1> USE FieldsAssumption, ChildShape, AddressShape, NoneAssumption DEF IInv, StartFields, At, Sequential
  <1>1. f \in Inner /\ child[f] = 1
    BY DEF ChildOK, Starting
  <1>2. After(loc[f]) \in Address
    BY DEF LocOK
  <1>3. TypeOK'
    BY <1>2 DEF TypeOK, PC
  <1>4. LeavesOK' /\ ChildOK'
    BY <1>1 DEF TypeOK, LeavesOK, ChildOK, Starting
  <1>5. StartedOK'
    <2> SUFFICES ASSUME NEW g \in Inner, NEW i \in 1 .. Fields
                 PROVE  (pc[Child(g, i)] # "new"
                            <=> /\ pc[g] \notin Starting
                                /\ i < child[g] \/ (i = child[g] /\ pc[g] # "build"))'
      BY DEF StartedOK
    <2>1. pc'[Child(g, i)] # "new" <=> pc[Child(g, i)] # "new"
      BY DEF TypeOK
    <2>2. CASE g = f
      BY <1>1, <2>1, <2>2 DEF TypeOK, StartedOK, Starting
    <2>3. CASE g # f
      BY <2>1, <2>3 DEF TypeOK, StartedOK
    <2> QED
      BY <2>2, <2>3
  <1>6. JoinOK'
    BY <1>1, Fields \in 1 .. Fields DEF TypeOK, JoinOK, Joined
  <1>7. RunOK'
    BY DEF TypeOK, RunOK, Executed
  <1>8. DequeOK' /\ NoDuplicates'
    BY WaitingLeftAlone, InnerShape DEF TypeOK
  <1>9. BackOK'
    BY DEF TypeOK, BackOK
  <1>10. LocOK'
    BY <1>1, <1>2 DEF TypeOK, LocOK, Starting
  <1>11. AvailableIsDone'
    BY DEF TypeOK, AvailableIsDone
  <1> QED
    BY <1>3, <1>4, <1>5, <1>6, <1>7, <1>8, <1>9, <1>10, <1>11

\* A spawn preserves it: the continuation waits on the spawner's deque, the child begins.
LEMMA SpawnIInv ==
    ASSUME IInv, NEW w \in Worker, NEW f \in Frame, Spawn(w, f)
    PROVE  IInv'
  <1> DEFINE c == Child(f, child[f])
  <1>1. /\ f \in Inner
        /\ child \in [Frame -> 1 .. Fields]
        /\ child[f] \in 1 .. Fields
        /\ child[f] < Fields
        /\ run[w] = f
        /\ pc[f] = "build"
    BY DEF IInv, LeavesOK, TypeOK, Spawn, At
  <1>2. c \in Frame /\ c # f /\ c # Root /\ Parent(c) = f /\ Index(c) = child[f]
    BY <1>1, ChildShape
  <1>3. pc[c] = "new" /\ loc[c] \in Address
    BY <1>1, FieldsAssumption DEF IInv, StartedOK, LocOK, Starting
  <1>4. /\ run' = [run EXCEPT ![w] = c]
        /\ deque' = [deque EXCEPT ![w] = Append(@, c)]
        /\ pc' = [pc EXCEPT ![f] = "spawned", ![c] = "entry"]
        /\ parent_id' = [parent_id EXCEPT ![f] = w]
        /\ UNCHANGED <<child, loc, end, fresh, mem>>
    BY DEF Spawn
  <1> HIDE DEF c
  <1>5. deque[w] \in Seq(Frame)
    BY DEF IInv, TypeOK
  <1>6. TypeOK'
    BY <1>2, <1>4, <1>5, Pushed DEF IInv, TypeOK, PC
  <1>7. /\ pc'[f] = "spawned"
        /\ pc'[c] = "entry"
        /\ \A g \in Frame : g # f /\ g # c => pc'[g] = pc[g]
        /\ run'[w] = c
        /\ \A v \in Worker : v # w => run'[v] = run[v]
        /\ parent_id'[f] = w
        /\ \A g \in Frame : g # f => parent_id'[g] = parent_id[g]
    BY <1>2, <1>4 DEF IInv, TypeOK
  <1>8. LeavesOK' /\ ChildOK'
    BY <1>1, <1>2, <1>3, <1>4, <1>7, InnerShape DEF IInv, LeavesOK, ChildOK, Starting
  <1>9. StartedOK'
    <2> SUFFICES ASSUME NEW g \in Inner, NEW i \in 1 .. Fields
                 PROVE  (pc[Child(g, i)] # "new"
                            <=> /\ pc[g] \notin Starting
                                /\ i < child[g] \/ (i = child[g] /\ pc[g] # "build"))'
      BY DEF StartedOK
    <2>1. Child(g, i) # c => (pc'[Child(g, i)] # "new" <=> pc[Child(g, i)] # "new")
      BY <1>1, <1>7, ChildShape
    <2>2. Child(g, i) = c <=> g = f /\ i = child[f]
      BY <1>1, <1>2, ChildShape DEF c
    <2>3. CASE g = f
      BY <1>1, <1>4, <1>7, <2>1, <2>2, <2>3 DEF IInv, StartedOK, Starting
    <2>4. CASE g # f
      <3>1. pc'[g] \in Starting <=> pc[g] \in Starting
        BY <1>3, <1>7, <2>4, InnerShape DEF Starting
      <3>2. pc'[g] = "build" <=> pc[g] = "build"
        BY <1>3, <1>7, <2>4, InnerShape
      <3> QED
        BY <1>4, <2>1, <2>2, <2>4, <3>1, <3>2 DEF IInv, StartedOK
    <2> QED
      BY <2>3, <2>4
  <1>10. JoinOK'
    <2>1. \A g \in Inner, i \in 1 .. Fields :
            pc[Child(g, i)] = "done" <=> pc'[Child(g, i)] = "done"
      BY <1>1, <1>3, <1>7, ChildShape
    <2> QED
      <3>1. Fields \in 1 .. Fields
        BY FieldsAssumption
      <3>2. \A g \in Inner : pc'[g] \in {"calling", "sync", "suspended"} \cup Joined => pc'[g] = pc[g]
        BY <1>1, <1>7, InnerShape DEF Joined
      <3> QED
        BY <2>1, <3>1, <3>2 DEF IInv, JoinOK
  <1>11. RunOK'
    <2>1. \A v \in Worker : v # w /\ run[v] # None => run[v] \in Frame /\ run[v] # f /\ run[v] # c
      BY <1>1, <1>3, NoneAssumption DEF IInv, TypeOK, RunOK, Executed
    <2>2. c # None /\ pc'[c] \in Executed
      BY <1>2, <1>7, NoneAssumption DEF Executed
    <2> QED
      BY <1>7, <2>1, <2>2 DEF IInv, RunOK
  <1>12. DequeOK' /\ NoDuplicates'
    <2>1. \A v \in Worker : run[v] # c /\ (v # w => run[v] # f)
      BY <1>1, <1>2, <1>3, NoneAssumption DEF IInv, RunOK, Executed
    <2>2. \A u \in Worker : \A k \in 1 .. Len(deque[u]) :
            LET d == deque[u][k]
            IN Parent(d) \in Inner /\ Parent(d) # f /\ Parent(d) # c /\ d # c
      BY <1>1, <1>2, <1>3, Waiting DEF IInv, DequeOK
    <2>3. /\ \A u \in Worker \ {w} : deque'[u] = deque[u]
          /\ Len(deque[w]) \in Nat
          /\ Len(deque'[w]) = Len(deque[w]) + 1
          /\ \A k \in 1 .. Len(deque[w]) : deque'[w][k] = deque[w][k]
          /\ deque'[w][Len(deque[w]) + 1] = c
      BY <1>2, <1>4, <1>5, Pushed DEF IInv, TypeOK
    <2>4. ASSUME NEW u \in Worker, NEW k \in 1 .. Len(deque[u])
          PROVE  LET d == deque[u][k]
                     g == Parent(d)
                 IN /\ Spawned(d)
                    /\ pc'[g] = "spawned"
                    /\ Index(d) = child'[g]
                    /\ parent_id'[g] = u
                    /\ \A v \in Worker : run'[v] # g
      <3> DEFINE d == deque[u][k]
                 g == Parent(d)
      <3>1. /\ Spawned(d)
            /\ pc[g] = "spawned"
            /\ Index(d) = child[g]
            /\ parent_id[g] = u
            /\ \A v \in Worker : run[v] # g
        BY DEF IInv, DequeOK
      <3>2. g \in Frame /\ g # f /\ g # c
        BY <2>2, InnerShape
      <3> QED
        BY <1>4, <1>7, <3>1, <3>2
    <2>5. /\ Spawned(c)
          /\ \A v \in Worker : run'[v] # f
      BY <1>1, <1>2, <1>7, <2>1 DEF Spawned
    <2>6. DequeOK'
      <3> SUFFICES ASSUME NEW u \in Worker, NEW k \in 1 .. Len(deque'[u])
                   PROVE  (LET d == deque[u][k]
                               g == Parent(d)
                           IN /\ Spawned(d)
                              /\ pc[g] = "spawned"
                              /\ Index(d) = child[g]
                              /\ parent_id[g] = u
                              /\ \A v \in Worker : run[v] # g)'
        BY DEF DequeOK
      <3>1. CASE u # w
        <4>1. k \in 1 .. Len(deque[u]) /\ deque'[u][k] = deque[u][k]
          BY <2>3, <3>1
        <4> QED
          BY <2>4, <4>1
      <3>2. CASE u = w /\ k # Len(deque[w]) + 1
        <4>1. k \in 1 .. Len(deque[u]) /\ deque'[u][k] = deque[u][k]
          BY <2>3, <3>2
        <4> QED
          BY <2>4, <4>1
      <3>3. CASE u = w /\ k = Len(deque[w]) + 1
        BY <1>2, <1>4, <1>7, <2>3, <2>5, <3>3
      <3> QED
        BY <3>1, <3>2, <3>3
    <2>7. NoDuplicates'
      <3>1. \A u \in Worker \ {w} : deque'[u] = deque[u]
        BY <2>3
      <3>2. \A k \in 1 .. Len(deque[w]) : deque[w][k] # c
        BY <2>2
      <3>3. \A k \in 1 .. Len(deque'[w]) : k \in 1 .. Len(deque[w]) \/ k = Len(deque[w]) + 1
        BY <2>3
      <3>4. \A j, k \in 1 .. Len(deque'[w]) : deque'[w][j] = deque'[w][k] => j = k
        BY <2>3, <3>2, <3>3 DEF IInv, NoDuplicates
      <3> QED
        BY <3>1, <3>4 DEF IInv, NoDuplicates
    <2> QED
      BY <2>6, <2>7
  <1>13. BackOK'
    <2> SUFFICES ASSUME NEW v \in Worker, NEW g \in Inner,
                        (run[v] = g /\ pc[g] = "spawned" /\ parent_id[g] = v)'
                 PROVE  (pc[Child(g, child[g])] = "done")'
      BY DEF BackOK
    <2>1. v # w /\ g # c
      BY <1>2, <1>7
    <2>2. g # f
      BY <1>1, <1>7, <2>1, NoneAssumption DEF IInv, RunOK
    <2>3. pc[Child(g, child[g])] = "done"
      BY <1>7, <2>1, <2>2, InnerShape DEF IInv, BackOK
    <2> QED
      <3>1. g \in Frame /\ Child(g, child[g]) \in Frame
        BY <1>1, ChildShape, InnerShape
      <3> QED
        BY <1>1, <1>3, <1>4, <1>7, <2>3, <3>1
  <1>14. LocOK'
    <2>1. \A g \in Frame : pc'[g] # "new" => loc[g] \in Address
      BY <1>1, <1>3, <1>7 DEF IInv, LocOK
    <2>2. \A g \in Inner : pc'[g] \notin Starting => pc[g] \notin Starting
      BY <1>1, <1>7, InnerShape DEF Starting
    <2>3. \A g \in Frame : pc'[g] \in {"return", "done"} => pc[g] \in {"return", "done"}
      BY <1>7
    <2> QED
      BY <1>4, <2>1, <2>2, <2>3 DEF IInv, LocOK
  <1>15. AvailableIsDone'
    BY <1>1, <1>3, <1>4, <1>7, AvailableKept
  <1> QED
    BY <1>6, <1>8, <1>9, <1>10, <1>11, <1>12, <1>13, <1>14, <1>15 DEF IInv

\* A call goes on to its next field, which gets a location and either a region
\* of its own or a predecessor that has returned.
LEMMA NextField ==
    ASSUME IInv, NEW w \in Worker, NEW f \in Frame, At(w, f, "spawned"),
           NEW d, d = Child(f, child[f] + 1), NEW a \in Address,
           pc' = [pc EXCEPT ![f] = "build"],
           child' = [child EXCEPT ![f] = @ + 1],
           loc' = [loc EXCEPT ![d] = a],
           fresh' \in {fresh, fresh \cup {d}},
           d \in fresh' \/ pc[Child(f, child[f])] = "done",
           UNCHANGED <<run, deque, parent_id, end, mem>>
    PROVE  IInv'
  <1>1. /\ f \in Inner
        /\ child \in [Frame -> 1 .. Fields]
        /\ child[f] \in 1 .. Fields
        /\ child[f] < Fields
        /\ run[w] = f
        /\ pc[f] = "spawned"
    BY DEF IInv, LeavesOK, ChildOK, TypeOK, At
  <1>2. child[f] + 1 \in 1 .. Fields /\ Fields \in 1 .. Fields
    BY <1>1, FieldsAssumption
  <1>3. d \in Frame /\ d # f /\ Parent(d) = f /\ Index(d) = child[f] + 1
    BY <1>1, <1>2, ChildShape
  <1>4. TypeOK'
    BY <1>1, <1>2, <1>3 DEF IInv, TypeOK, PC
  <1>5. /\ pc'[f] = "build"
        /\ \A g \in Frame : g # f => pc'[g] = pc[g]
        /\ child'[f] = child[f] + 1
        /\ \A g \in Frame : g # f => child'[g] = child[g]
        /\ loc'[d] = a
        /\ \A g \in Frame : g # d => loc'[g] = loc[g]
    BY <1>3 DEF IInv, TypeOK
  <1>6. LeavesOK' /\ ChildOK'
    BY <1>1, <1>2, <1>5, InnerShape DEF IInv, LeavesOK, ChildOK, Starting
  <1>7. StartedOK'
    <2> SUFFICES ASSUME NEW g \in Inner, NEW i \in 1 .. Fields
                 PROVE  (pc[Child(g, i)] # "new"
                            <=> /\ pc[g] \notin Starting
                                /\ i < child[g] \/ (i = child[g] /\ pc[g] # "build"))'
      BY DEF StartedOK
    <2>1. pc'[Child(g, i)] # "new" <=> pc[Child(g, i)] # "new"
      BY <1>1, <1>5, ChildShape
    <2>2. CASE g = f
      BY <1>1, <1>5, <2>1, <2>2 DEF IInv, StartedOK, Starting
    <2>3. CASE g # f
      BY <1>5, <2>1, <2>3, InnerShape DEF IInv, StartedOK
    <2> QED
      BY <2>2, <2>3
  <1>8. JoinOK'
    BY <1>1, <1>2, <1>5, ChildShape, InnerShape DEF IInv, JoinOK, Joined
  <1>9. RunOK'
    BY <1>1, <1>5 DEF IInv, TypeOK, RunOK, Executed
  <1>10. DequeOK' /\ NoDuplicates'
    BY <1>1, <1>5, WaitingLeftAlone, InnerShape
  <1>11. BackOK'
    <2> SUFFICES ASSUME NEW v \in Worker, NEW g \in Inner,
                        (run[v] = g /\ pc[g] = "spawned" /\ parent_id[g] = v)'
                 PROVE  (pc[Child(g, child[g])] = "done")'
      BY DEF BackOK
    <2>1. g # f /\ child'[g] = child[g]
      BY <1>5, InnerShape
    <2>2. pc[Child(g, child[g])] = "done"
      BY <1>5, <2>1, InnerShape DEF IInv, BackOK
    <2>3. Child(g, child[g]) \in Frame
      BY <1>1, ChildShape, InnerShape
    <2> QED
      BY <1>1, <1>5, <2>1, <2>2, <2>3
  <1>12. LocOK'
    <2>1. \A g \in Frame : pc'[g] # "new" => loc'[g] \in Address
      BY <1>1, <1>5 DEF IInv, LocOK
    <2>2. \A g \in Inner, i \in 1 .. Fields :
            pc'[g] \notin Starting /\ i <= child'[g] => loc'[Child(g, i)] \in Address
      <3> SUFFICES ASSUME NEW g \in Inner, NEW i \in 1 .. Fields,
                          pc'[g] \notin Starting, i <= child'[g], Child(g, i) # d
                   PROVE  loc[Child(g, i)] \in Address
        BY <1>5, ChildShape
      <3>1. CASE g = f
        <4>1. i <= child[f]
          BY <1>1, <1>5, <3>1
        <4> QED
          BY <1>1, <3>1, <4>1 DEF IInv, LocOK, Starting
      <3>2. CASE g # f
        BY <1>5, <3>2, InnerShape DEF IInv, LocOK
      <3> QED
        BY <3>1, <3>2
    <2>3. \A g \in Frame : pc'[g] \in {"return", "done"} => end[g] \in Address
      BY <1>5 DEF IInv, LocOK
    <2> QED
      BY <2>1, <2>2, <2>3 DEF LocOK
  <1>13. AvailableIsDone'
    <2> SUFFICES ASSUME NEW g \in Inner, NEW i \in 1 .. Fields - 1,
                        i < child'[g], Child(g, i + 1) \notin fresh'
                 PROVE  pc'[Child(g, i)] = "done"
      BY DEF AvailableIsDone
    <2>1. i \in 1 .. Fields /\ i + 1 \in 1 .. Fields /\ Child(g, i) \in Frame
      BY FieldsAssumption, ChildShape
    <2>2. CASE g = f /\ i = child[f]
      BY <1>1, <1>5, <2>1, <2>2
    <2>3. CASE ~(g = f /\ i = child[f])
      <3>1. i < child[g]
        BY <1>1, <1>5, <2>3, InnerShape
      <3>2. pc[Child(g, i)] = "done"
        BY <3>1 DEF IInv, AvailableIsDone
      <3> QED
        BY <1>1, <1>5, <2>1, <3>2
    <2> QED
      BY <2>2, <2>3
  <1> QED
    BY <1>4, <1>6, <1>7, <1>8, <1>9, <1>10, <1>11, <1>12, <1>13 DEF IInv

\* Going on behind a finished field preserves it: equal ids and BackOK say that it is finished.
LEMMA AfterAvailableIInv ==
    ASSUME IInv, NEW w \in Worker, NEW f \in Frame, AfterAvailable(w, f)
    PROVE  IInv'
  <1>1. f \in Inner /\ child[f] \in 1 .. Fields
    BY DEF IInv, LeavesOK, TypeOK, AfterAvailable, At
  <1>2. pc[Child(f, child[f])] = "done"
    BY <1>1 DEF IInv, BackOK, AfterAvailable, At, not_stolen
  <1>3. end[Child(f, child[f])] \in Address
    BY <1>1, <1>2, ChildShape DEF IInv, LocOK
  <1> QED
    BY <1>2, <1>3, NextField DEF AfterAvailable

\* Going on in a fresh region preserves it.
LEMMA FreshRegionIInv ==
    ASSUME IInv, NEW w \in Worker, NEW f \in Frame, FreshRegion(w, f)
    PROVE  IInv'
  <1> DEFINE d == Child(f, child[f] + 1)
  <1>1. f \in Inner /\ child[f] \in 1 .. Fields /\ child[f] < Fields
    BY DEF IInv, LeavesOK, ChildOK, TypeOK, FreshRegion, At
  <1>2. child[f] + 1 \in 1 .. Fields
    BY <1>1, FieldsAssumption
  <1>3. RegionStart(d) \in Address
    BY <1>1, <1>2, ChildShape, AddressShape
  <1>4. d \in fresh \cup {d}
    OBVIOUS
  <1> QED
    BY <1>3, <1>4, NextField DEF FreshRegion

\* The ends of the fields are known when a call has joined them.
LEMMA FieldsEnd ==
    ASSUME IInv, NEW f \in Inner, pc[f] \in Joined, NEW i \in 1 .. Fields
    PROVE  end[Child(f, i)] \in Address /\ loc[Child(f, i)] \in Address
  <1>1. pc[Child(f, i)] = "done" /\ Child(f, i) \in Frame
    BY ChildShape DEF IInv, JoinOK
  <1> QED
    BY <1>1 DEF IInv, LocOK

\* Writing the pointers preserves it.
LEMMA TieIInv ==
    ASSUME IInv, NEW w \in Worker, NEW f \in Frame, Tie(w, f)
    PROVE  IInv'
  <1>1. f \in Inner /\ run[w] = f /\ pc[f] = "tie"
    BY DEF IInv, LeavesOK, Tie, At
  <1>2. /\ pc' = [pc EXCEPT ![f] = "construct"]
        /\ pc'[f] = "construct"
        /\ \A g \in Frame : g # f => pc'[g] = pc[g]
        /\ UNCHANGED <<run, deque, child, parent_id, loc, end, fresh>>
    BY DEF IInv, TypeOK, Tie
  <1>3. TypeOK'
    <2>1. \A i \in TiedFields(f) : TieFrom(f, i) \in Address /\ loc[Child(f, i)] \in Address
      <3> SUFFICES ASSUME NEW i \in TiedFields(f)
                   PROVE  TieFrom(f, i) \in Address /\ loc[Child(f, i)] \in Address
        OBVIOUS
      <3>1. i \in 1 .. Fields /\ i - 1 \in 1 .. Fields
        BY FieldsAssumption DEF TiedFields
      <3> QED
        BY <1>1, <3>1, FieldsEnd DEF TieFrom, Joined
    <2>2. ASSUME NEW a \in DOMAIN mem'
          PROVE  a \in Address /\ mem'[a] \in Cell
      <3>1. a \in DOMAIN mem \cup {TieFrom(f, i) : i \in TiedFields(f)}
        BY DEF Tie
      <3>2. CASE \E i \in TiedFields(f) : TieFrom(f, i) = a
        <4> DEFINE i == CHOOSE j \in TiedFields(f) : TieFrom(f, j) = a
        <4>1. i \in TiedFields(f) /\ TieFrom(f, i) = a
          BY <3>2
        <4>2. mem'[a] = Indirection(loc[Child(f, i)])
          BY <3>1, <3>2 DEF Tie
        <4> HIDE DEF i
        <4> QED
          BY <2>1, <4>1, <4>2 DEF Indirection, Cell
      <3>3. CASE ~\E i \in TiedFields(f) : TieFrom(f, i) = a
        <4>1. a \in DOMAIN mem /\ mem'[a] = mem[a]
          BY <3>1, <3>3 DEF Tie
        <4> QED
          BY <4>1 DEF IInv, TypeOK
      <3> QED
        BY <3>2, <3>3
    <2> QED
      BY <1>2, <2>2 DEF IInv, TypeOK, PC
  <1> USE FieldsAssumption, NoneAssumption DEF IInv
  <1>4. LeavesOK' /\ ChildOK'
    BY <1>1, <1>2, InnerShape DEF LeavesOK, ChildOK, Starting
  <1>5. StartedOK'
    BY <1>1, <1>2, NothingStarted, InnerShape DEF Starting
  <1>6. JoinOK'
    BY <1>1, <1>2, Fields \in 1 .. Fields, ChildShape, InnerShape DEF JoinOK, Joined
  <1>7. RunOK'
    BY <1>1, <1>2 DEF TypeOK, RunOK, Executed
  <1>8. DequeOK' /\ NoDuplicates'
    BY <1>1, <1>2, WaitingLeftAlone, InnerShape
  <1>9. BackOK'
    BY <1>1, <1>2, ChildShape, InnerShape DEF BackOK, TypeOK
  <1>10. LocOK'
    BY <1>1, <1>2 DEF LocOK, Starting, TypeOK
  <1>11. AvailableIsDone'
    BY <1>1, <1>2, AvailableKept
  <1> QED
    BY <1>3, <1>4, <1>5, <1>6, <1>7, <1>8, <1>9, <1>10, <1>11

\* Writing the constructor preserves it: its last field has ended.
LEMMA ConstructIInv ==
    ASSUME IInv, NEW w \in Worker, NEW f \in Frame, Construct(w, f)
    PROVE  IInv'
  <1>1. /\ f \in Inner
        /\ run[w] = f
        /\ pc[f] = "construct"
        /\ loc[f] \in Address
        /\ end[Child(f, Fields)] \in Address
    <2>1. f \in Inner /\ run[w] = f /\ pc[f] = "construct" /\ loc[f] \in Address
      BY DEF IInv, LeavesOK, LocOK, Construct, At
    <2> QED
      BY <2>1, FieldsEnd, FieldsAssumption, Fields \in 1 .. Fields DEF Joined
  <1>2. /\ pc' = [pc EXCEPT ![f] = "return"]
        /\ pc'[f] = "return"
        /\ \A g \in Frame : g # f => pc'[g] = pc[g]
        /\ end'[f] = end[Child(f, Fields)]
        /\ \A g \in Frame : g # f => end'[g] = end[g]
        /\ UNCHANGED <<run, deque, child, parent_id, loc, fresh>>
    BY DEF IInv, TypeOK, Construct
  <1>3. TypeOK'
    <2>1. Node(f) \in Cell
      <3>1. [i \in 1 .. Fields |-> loc[Child(f, i)]] \in [1 .. Fields -> Address]
        BY <1>1, FieldsEnd DEF Joined
      <3> QED
        BY <1>1, <3>1 DEF Node, Cell
    <2>2. \A a \in DOMAIN mem' : a \in Address /\ mem'[a] \in Cell
      BY <1>1, <2>1 DEF IInv, TypeOK, Construct, Put
    <2> QED
      BY <1>1, <1>2, <2>2 DEF IInv, TypeOK, Construct, PC
  <1> USE FieldsAssumption, NoneAssumption DEF IInv
  <1>4. LeavesOK' /\ ChildOK'
    BY <1>1, <1>2, InnerShape DEF LeavesOK, ChildOK, Starting
  <1>5. StartedOK'
    BY <1>1, <1>2, NothingStarted, InnerShape DEF Starting
  <1>6. JoinOK'
    BY <1>1, <1>2, Fields \in 1 .. Fields, ChildShape, InnerShape DEF JoinOK, Joined
  <1>7. RunOK'
    BY <1>1, <1>2 DEF TypeOK, RunOK, Executed
  <1>8. DequeOK' /\ NoDuplicates'
    BY <1>1, <1>2, WaitingLeftAlone, InnerShape
  <1>9. BackOK'
    BY <1>1, <1>2, ChildShape, InnerShape DEF BackOK, TypeOK
  <1>10. LocOK'
    BY <1>1, <1>2 DEF LocOK, Starting, TypeOK
  <1>11. AvailableIsDone'
    BY <1>1, <1>2, AvailableKept
  <1> QED
    BY <1>3, <1>4, <1>5, <1>6, <1>7, <1>8, <1>9, <1>10, <1>11

\* The call for the last field preserves it.
LEMMA CallLastIInv ==
    ASSUME IInv, NEW w \in Worker, NEW f \in Frame, CallLast(w, f)
    PROVE  IInv'
  <1> DEFINE c == Child(f, Fields)
  <1>1. /\ f \in Inner
        /\ child[f] = Fields
        /\ Fields \in 1 .. Fields
        /\ run[w] = f
        /\ pc[f] = "build"
    BY FieldsAssumption DEF IInv, LeavesOK, CallLast, At
  <1>2. c \in Frame /\ c # f /\ Parent(c) = f /\ Index(c) = Fields
    BY <1>1, ChildShape
  <1>3. pc[c] = "new" /\ loc[c] \in Address
    BY <1>1, FieldsAssumption DEF IInv, StartedOK, LocOK, Starting
  <1>4. /\ run' = [run EXCEPT ![w] = c]
        /\ pc' = [pc EXCEPT ![f] = "calling", ![c] = "entry"]
        /\ UNCHANGED <<deque, child, parent_id, loc, end, fresh, mem>>
    BY DEF CallLast
  <1>5. \A g \in Inner, i \in 1 .. Fields : Child(g, i) = c <=> g = f /\ i = Fields
    BY <1>1, <1>2, ChildShape
  <1> HIDE DEF c
  <1>6. TypeOK'
    BY <1>2, <1>4 DEF IInv, TypeOK, PC
  <1>7. /\ pc'[f] = "calling"
        /\ pc'[c] = "entry"
        /\ \A g \in Frame : g # f /\ g # c => pc'[g] = pc[g]
        /\ run'[w] = c
        /\ \A v \in Worker : v # w => run'[v] = run[v]
    BY <1>2, <1>4 DEF IInv, TypeOK
  <1>8. LeavesOK' /\ ChildOK'
    BY <1>1, <1>2, <1>3, <1>4, <1>7, InnerShape DEF IInv, LeavesOK, ChildOK, Starting
  <1>9. StartedOK'
    <2> SUFFICES ASSUME NEW g \in Inner, NEW i \in 1 .. Fields
                 PROVE  (pc[Child(g, i)] # "new"
                            <=> /\ pc[g] \notin Starting
                                /\ i < child[g] \/ (i = child[g] /\ pc[g] # "build"))'
      BY DEF StartedOK
    <2>1. Child(g, i) # c => (pc'[Child(g, i)] # "new" <=> pc[Child(g, i)] # "new")
      BY <1>1, <1>7, ChildShape
    <2>2. CASE g = f
      BY <1>1, <1>4, <1>5, <1>7, <2>1, <2>2 DEF IInv, StartedOK, Starting
    <2>3. CASE g # f
      <3>1. pc'[g] \in Starting <=> pc[g] \in Starting
        BY <1>3, <1>7, <2>3, InnerShape DEF Starting
      <3>2. pc'[g] = "build" <=> pc[g] = "build"
        BY <1>3, <1>7, <2>3, InnerShape
      <3> QED
        BY <1>4, <1>5, <2>1, <2>3, <3>1, <3>2 DEF IInv, StartedOK
    <2> QED
      BY <2>2, <2>3
  <1>10. JoinOK'
    <2>1. \A g \in Inner, i \in 1 .. Fields :
            pc[Child(g, i)] = "done" <=> pc'[Child(g, i)] = "done"
      BY <1>1, <1>3, <1>7, ChildShape
    <2>2. \A g \in Inner : pc'[g] \in {"calling", "sync", "suspended"} \cup Joined
                               => pc'[g] = pc[g] \/ g = f
      BY <1>1, <1>7, InnerShape DEF Joined
    <2>3. pc'[Child(f, Fields)] # "done"
      BY <1>7 DEF c
    <2> QED
      BY <1>1, <1>7, <2>1, <2>2, <2>3 DEF IInv, JoinOK, Joined
  <1>11. RunOK'
    <2>1. \A v \in Worker : v # w /\ run[v] # None => run[v] \in Frame /\ run[v] # f /\ run[v] # c
      BY <1>1, <1>3, NoneAssumption DEF IInv, TypeOK, RunOK, Executed
    <2>2. c # None /\ pc'[c] \in Executed
      BY <1>2, <1>7, NoneAssumption DEF Executed
    <2> QED
      BY <1>7, <2>1, <2>2 DEF IInv, RunOK
  <1>12. DequeOK' /\ NoDuplicates'
    BY <1>1, <1>3, <1>4, <1>7, WaitingLeftAlone, InnerShape
  <1>13. BackOK'
    <2> SUFFICES ASSUME NEW v \in Worker, NEW g \in Inner,
                        (run[v] = g /\ pc[g] = "spawned" /\ parent_id[g] = v)'
                 PROVE  (pc[Child(g, child[g])] = "done")'
      BY DEF BackOK
    <2>1. v # w /\ g # c /\ g # f
      BY <1>2, <1>7
    <2>2. pc[Child(g, child[g])] = "done"
      <3>1. run[v] = g /\ pc[g] = "spawned" /\ parent_id[g] = v
        BY <1>4, <1>7, <2>1, InnerShape
      <3> QED
        BY <3>1 DEF IInv, BackOK
    <2>3. g \in Frame /\ Child(g, child[g]) \in Frame
      BY ChildShape, InnerShape DEF IInv, TypeOK
    <2> QED
      BY <1>1, <1>3, <1>4, <1>7, <2>2, <2>3
  <1>14. LocOK'
    <2>1. \A g \in Frame : pc'[g] # "new" => loc[g] \in Address
      BY <1>1, <1>3, <1>7 DEF IInv, LocOK
    <2>2. \A g \in Inner : pc'[g] \notin Starting => pc[g] \notin Starting
      BY <1>1, <1>7, InnerShape DEF Starting
    <2>3. \A g \in Frame : pc'[g] \in {"return", "done"} => pc[g] \in {"return", "done"}
      BY <1>7
    <2> QED
      BY <1>4, <2>1, <2>2, <2>3 DEF IInv, LocOK
  <1>15. AvailableIsDone'
    BY <1>1, <1>3, <1>4, <1>7, AvailableKept
  <1> QED
    BY <1>6, <1>8, <1>9, <1>10, <1>11, <1>12, <1>13, <1>14, <1>15 DEF IInv

\* The sync preserves it, whether the call waits or not.
LEMMA SyncIInv ==
    ASSUME IInv, NEW w \in Worker, NEW f \in Frame, Sync(w, f)
    PROVE  IInv'
  <1>1. f \in Inner /\ run[w] = f /\ pc[f] = "sync" /\ child[f] = Fields /\ Fields \in 1 .. Fields
    BY FieldsAssumption DEF IInv, LeavesOK, ChildOK, Starting, Sync, At
  <1>2. /\ pc' \in [Frame -> PC]
        /\ \A g \in Frame : g # f => pc'[g] = pc[g]
        /\ \/ pc'[f] = "tie" /\ run' = run /\ SpawnedDone(f, pc)
           \/ pc'[f] = "suspended" /\ run' = [run EXCEPT ![w] = None]
        /\ UNCHANGED <<deque, child, parent_id, loc, end, fresh, mem>>
    BY DEF IInv, TypeOK, PC, Sync
  <1>3. \A v \in Worker : run'[v] = run[v] \/ (run'[v] = None /\ v = w /\ pc'[f] = "suspended")
    BY <1>2 DEF IInv, TypeOK
  <1>4. TypeOK'
    BY <1>2 DEF IInv, TypeOK
  <1>5. LeavesOK' /\ ChildOK'
    BY <1>1, <1>2, InnerShape DEF IInv, LeavesOK, ChildOK, Starting
  <1>6. StartedOK'
    BY <1>1, <1>2, NothingStarted, InnerShape DEF Starting
  <1>7. JoinOK'
    <2>1. \A g \in Inner, i \in 1 .. Fields :
            pc[Child(g, i)] = "done" <=> pc'[Child(g, i)] = "done"
      BY <1>1, <1>2, ChildShape
    <2>2. \A g \in Inner : g # f => pc'[g] = pc[g]
      BY <1>2, InnerShape
    <2>3. pc'[f] = "tie" => \A i \in 1 .. Fields : pc[Child(f, i)] = "done"
      <3>1. \A i \in 1 .. Fields : i = Fields \/ i \in 1 .. Fields - 1
        BY FieldsAssumption
      <3> QED
        BY <1>1, <1>2, <3>1 DEF IInv, JoinOK, SpawnedDone
    <2> QED
      BY <1>1, <1>2, <2>1, <2>2, <2>3 DEF IInv, JoinOK, Joined
  <1>8. RunOK'
    <2>1. \A v \in Worker : run'[v] # None => run'[v] = run[v] /\ run'[v] \in Frame
      BY <1>2, <1>3 DEF IInv, TypeOK
    <2>2. \A v \in Worker : run'[v] = f => pc'[f] = "tie"
      <3> SUFFICES ASSUME NEW v \in Worker, run'[v] = f, pc'[f] = "suspended"
                   PROVE  FALSE
        BY <1>2
      <3>1. f # None
        BY NoneAssumption
      <3>2. run'[v] = run[v] /\ v = w
        BY <1>1, <1>3, <3>1 DEF IInv, RunOK
      <3>3. run'[w] = None
        BY <1>2 DEF IInv, TypeOK
      <3> QED
        BY <3>1, <3>2, <3>3
    <2> QED
      BY <1>2, <2>1, <2>2 DEF IInv, RunOK, Executed
  <1>9. DequeOK' /\ NoDuplicates'
    BY <1>1, <1>2, <1>3, NoneAssumption, WaitingLeftAlone, InnerShape
  <1>10. BackOK'
    <2> SUFFICES ASSUME NEW v \in Worker, NEW g \in Inner,
                        (run[v] = g /\ pc[g] = "spawned" /\ parent_id[g] = v)'
                 PROVE  (pc[Child(g, child[g])] = "done")'
      BY DEF BackOK
    <2>1. g # f /\ g \in Frame /\ Child(g, child[g]) \in Frame
      BY <1>2, ChildShape, InnerShape DEF IInv, TypeOK
    <2>2. run[v] = g
      BY <1>3, <2>1, NoneAssumption
    <2> QED
      BY <1>1, <1>2, <2>1, <2>2 DEF IInv, BackOK
  <1>11. LocOK'
    BY <1>1, <1>2, InnerShape DEF IInv, LocOK, Starting
  <1>12. AvailableIsDone'
    BY <1>1, <1>2, AvailableKept
  <1> QED
    BY <1>4, <1>5, <1>6, <1>7, <1>8, <1>9, <1>10, <1>11, <1>12 DEF IInv

(***************************************************************************)
(* The scheduler.                                                          *)
(***************************************************************************)

\* A call that returns is a field of another, and one worker executes it.
LEMMA Returning ==
    ASSUME IInv, NEW w \in Worker, NEW f \in Frame, At(w, f, "return"), f # Root
    PROVE  /\ Parent(f) \in Inner
           /\ Parent(f) \in Frame
           /\ Parent(f) # f
           /\ Index(f) \in 1 .. Fields
           /\ f = Child(Parent(f), Index(f))
           /\ \A g \in Inner, i \in 1 .. Fields : f = Child(g, i) => g = Parent(f) /\ i = Index(f)
           /\ \A v \in Worker : v # w => run[v] # f
           /\ pc[Parent(f)] \notin Starting
           /\ Index(f) <= child[Parent(f)]
  <1>1. /\ Parent(f) \in Inner
        /\ Index(f) \in 1 .. Fields
        /\ f = Child(Parent(f), Index(f))
    BY ParentShape
  <1>2. /\ Parent(f) \in Frame
        /\ Parent(f) # f
        /\ \A g \in Inner, i \in 1 .. Fields : f = Child(g, i) => g = Parent(f) /\ i = Index(f)
    BY <1>1, ChildShape
  <1>3. \A v \in Worker : v # w => run[v] # f
    BY NoneAssumption DEF IInv, RunOK, At
  <1>4. pc[Child(Parent(f), Index(f))] # "new"
    BY <1>1 DEF At
  <1>5. /\ pc[Parent(f)] \notin Starting
        /\ Index(f) < child[Parent(f)] \/ Index(f) = child[Parent(f)]
    BY <1>1, <1>4 DEF IInv, StartedOK
  <1>6. child[Parent(f)] \in 1 .. Fields
    BY <1>2 DEF IInv, TypeOK
  <1> QED
    BY <1>1, <1>2, <1>3, <1>5, <1>6

\* What every return leaves as it was: at most a caller is resumed.
LEMMA Returned ==
    ASSUME IInv, NEW w \in Worker, NEW f \in Frame, At(w, f, "return"),
           pc' \in [Frame -> PC],
           pc'[f] = "done",
           \A g \in Frame : g # f =>
               \/ pc'[g] = pc[g]
               \/ g \in Inner /\ pc[g] \in {"calling", "suspended"} /\ pc'[g] \in {"sync", "tie"},
           UNCHANGED <<child, parent_id, loc, end, fresh, mem>>
    PROVE  LeavesOK' /\ ChildOK' /\ StartedOK' /\ LocOK' /\ AvailableIsDone'
  <1>1. pc[f] = "return"
    BY DEF At
  <1>2. LeavesOK' /\ ChildOK'
    BY <1>1, InnerShape DEF IInv, LeavesOK, ChildOK, Starting
  <1>3. StartedOK'
    <2>1. \A c \in Frame : pc'[c] = "new" <=> pc[c] = "new"
      BY <1>1
    <2>2. \A g \in Inner : (pc'[g] \in Starting <=> pc[g] \in Starting)
                             /\ (pc'[g] = "build" <=> pc[g] = "build")
      BY <1>1, InnerShape DEF Starting
    <2> QED
      BY <2>1, <2>2, NothingStarted
  <1>4. LocOK'
    <2>1. \A g \in Frame : (pc'[g] = "new" <=> pc[g] = "new")
                             /\ (pc'[g] \in Starting <=> pc[g] \in Starting)
                             /\ (pc'[g] \in {"return", "done"} => pc[g] \in {"return", "done"})
      BY <1>1 DEF Starting
    <2> QED
      BY <2>1, InnerShape DEF IInv, LocOK
  <1>5. AvailableIsDone'
    BY <1>1, AvailableKept
  <1> QED
    BY <1>2, <1>3, <1>4, <1>5

\* The end of the program preserves it.
LEMMA ReturnRootIInv ==
    ASSUME IInv, NEW w \in Worker, NEW f \in Frame, ReturnRoot(w, f)
    PROVE  IInv'
  <1>1. /\ At(w, f, "return")
        /\ run[w] = f
        /\ pc[f] = "return"
        /\ f = Root
        /\ \A g \in Inner, i \in 1 .. Fields : f # Child(g, i)
    BY ChildShape DEF ReturnRoot, At
  <1>2. /\ pc' \in [Frame -> PC]
        /\ pc'[f] = "done"
        /\ \A g \in Frame : g # f => pc'[g] = pc[g]
        /\ run' \in [Worker -> Frame \cup {None}]
        /\ run'[w] = None
        /\ \A v \in Worker : v # w => run'[v] = run[v]
        /\ UNCHANGED <<deque, child, parent_id, loc, end, fresh, mem>>
    BY DEF IInv, TypeOK, PC, ReturnRoot
  <1>3. TypeOK'
    BY <1>2 DEF IInv, TypeOK
  <1>4. LeavesOK' /\ ChildOK' /\ StartedOK' /\ LocOK' /\ AvailableIsDone'
    BY <1>1, <1>2, Returned
  <1>5. JoinOK'
    <2>1. \A g \in Inner, i \in 1 .. Fields : pc'[Child(g, i)] = pc[Child(g, i)]
      BY <1>1, <1>2, ChildShape
    <2>2. Fields \in 1 .. Fields
      BY FieldsAssumption
    <2> QED
      BY <1>1, <1>2, <2>1, <2>2, InnerShape DEF IInv, JoinOK, Joined
  <1>6. RunOK'
    <2>1. \A v \in Worker : run'[v] # None => v # w /\ run'[v] = run[v] /\ run[v] # f /\ run[v] \in Frame
      BY <1>1, <1>2, NoneAssumption DEF IInv, TypeOK, RunOK
    <2> QED
      BY <1>2, <2>1 DEF IInv, RunOK
  <1>7. DequeOK' /\ NoDuplicates'
    <2>1. \A g \in Inner : pc[g] = "spawned" => g # f /\ g # None
      BY <1>1, InnerShape, NoneAssumption
    <2> QED
      BY <1>2, <2>1, WaitingLeftAlone, InnerShape
  <1>8. BackOK'
    <2> SUFFICES ASSUME NEW v \in Worker, NEW g \in Inner,
                        run'[v] = g, pc'[g] = "spawned", parent_id[g] = v
                 PROVE  pc'[Child(g, child[g])] = "done"
      BY <1>2 DEF BackOK
    <2>1. g \in Frame /\ g # None /\ Child(g, child[g]) \in Frame
      BY ChildShape, InnerShape, NoneAssumption DEF IInv, TypeOK
    <2>2. run[v] = g /\ pc[g] = "spawned"
      BY <1>2, <2>1
    <2> QED
      BY <1>2, <2>1, <2>2 DEF IInv, BackOK
  <1> QED
    BY <1>3, <1>4, <1>5, <1>6, <1>7, <1>8 DEF IInv

\* The return of an ordinary call preserves it.
LEMMA ReturnCalledIInv ==
    ASSUME IInv, NEW w \in Worker, NEW f \in Frame, ReturnCalled(w, f)
    PROVE  IInv'
  <1> DEFINE p == Parent(f)
  <1>1. At(w, f, "return") /\ run[w] = f /\ pc[f] = "return" /\ f # Root /\ ~Spawned(f)
    BY DEF ReturnCalled, At
  <1>2. /\ p \in Inner /\ p \in Frame /\ p # f
        /\ f = Child(p, Index(f))
        /\ Index(f) \in 1 .. Fields
        /\ \A g \in Inner, i \in 1 .. Fields : f = Child(g, i) => g = p /\ i = Index(f)
        /\ \A v \in Worker : v # w => run[v] # f
        /\ pc[p] \notin Starting
        /\ Index(f) <= child[p]
    BY <1>1, Returning
  <1>3. Index(f) = Fields /\ f = Child(p, Fields) /\ Fields \in 1 .. Fields
    BY <1>1, <1>2, FieldsAssumption DEF Spawned
  <1>4. pc[p] = "calling"
    <2>1. pc[p] # "spawned"
      BY <1>2, <1>3, FieldsAssumption DEF IInv, ChildOK, TypeOK
    <2>2. pc[p] # "build"
      <3>1. pc[Child(p, Fields)] # "new"
        BY <1>1, <1>3
      <3>2. child[p] \in 1 .. Fields
        BY <1>2 DEF IInv, TypeOK
      <3>3. Fields < child[p] \/ pc[p] # "build"
        BY <1>2, <1>3, <3>1 DEF IInv, StartedOK
      <3> QED
        BY <3>2, <3>3, FieldsAssumption
    <2>3. pc[p] \notin {"sync", "suspended"} \cup Joined
      BY <1>1, <1>2, <1>3 DEF IInv, JoinOK
    <2> QED
      BY <1>2, <2>1, <2>2, <2>3 DEF IInv, TypeOK, PC, Starting, Joined
  <1>5. /\ pc' \in [Frame -> PC]
        /\ pc'[f] = "done"
        /\ pc'[p] = "sync"
        /\ \A g \in Frame : g # f /\ g # p => pc'[g] = pc[g]
        /\ run' \in [Worker -> Frame \cup {None}]
        /\ run'[w] = p
        /\ \A v \in Worker : v # w => run'[v] = run[v]
        /\ UNCHANGED <<deque, child, parent_id, loc, end, fresh, mem>>
    BY <1>2 DEF IInv, TypeOK, PC, ReturnCalled
  <1> HIDE DEF p
  <1>6. TypeOK'
    BY <1>5 DEF IInv, TypeOK
  <1>7. LeavesOK' /\ ChildOK' /\ StartedOK' /\ LocOK' /\ AvailableIsDone'
    BY <1>1, <1>2, <1>4, <1>5, Returned
  <1>8. JoinOK'
    <2>1. \A g \in Inner, i \in 1 .. Fields :
            /\ pc[Child(g, i)] = "done" => pc'[Child(g, i)] = "done"
            /\ Child(g, i) # f => (pc[Child(g, i)] = "done" <=> pc'[Child(g, i)] = "done")
      BY <1>1, <1>4, <1>5, ChildShape
    <2>2. ASSUME NEW g \in Inner, g # f, g # p
          PROVE  pc'[g] = pc[g] /\ Child(g, Fields) # f
      BY <1>2, <1>3, <1>5, <2>2, InnerShape
    <2>3. f \in Inner => \A i \in 1 .. Fields : pc[Child(f, i)] = "done"
      BY <1>1 DEF IInv, JoinOK, Joined
    <2> QED
      BY <1>1, <1>3, <1>5, <2>1, <2>2, <2>3 DEF IInv, JoinOK, Joined
  <1>9. RunOK'
    <2>1. \A v \in Worker : v # w /\ run[v] # None => run[v] \in Frame /\ run[v] # f /\ run[v] # p
      BY <1>2, <1>4 DEF IInv, TypeOK, RunOK, Executed
    <2>2. p # None /\ pc'[p] \in Executed
      BY <1>2, <1>5, NoneAssumption DEF Executed
    <2> QED
      BY <1>5, <2>1, <2>2 DEF IInv, RunOK
  <1>10. DequeOK' /\ NoDuplicates'
    BY <1>1, <1>4, <1>5, WaitingLeftAlone, InnerShape
  <1>11. BackOK'
    <2> SUFFICES ASSUME NEW v \in Worker, NEW g \in Inner,
                        run'[v] = g, pc'[g] = "spawned", parent_id[g] = v
                 PROVE  pc'[Child(g, child[g])] = "done"
      BY <1>5 DEF BackOK
    <2>1. g \in Frame /\ g # p /\ g # f /\ Child(g, child[g]) \in Frame
      BY <1>5, ChildShape, InnerShape DEF IInv, TypeOK
    <2>2. run[v] = g /\ pc[g] = "spawned"
      BY <1>5, <2>1
    <2> QED
      BY <1>4, <1>5, <2>1, <2>2 DEF IInv, BackOK
  <1> QED
    BY <1>6, <1>7, <1>8, <1>9, <1>10, <1>11 DEF IInv

\* Taking the k-th continuation from worker u's deque leaves the others waiting.
LEMMA Taken ==
    ASSUME IInv, NEW u \in Worker, NEW k \in 1 .. Len(deque[u]),
           NEW p, p = Parent(deque[u][k]),
           NEW v \in Worker,
           run' \in [Worker -> Frame \cup {None}],
           run'[v] = p,
           \A x \in Worker : x # v => run'[x] = run[x],
           \A g \in Inner : pc[g] = "spawned" => pc'[g] = "spawned",
           UNCHANGED <<child, parent_id>>,
           \A x \in Worker : x # u => deque'[x] = deque[x],
           \A i \in 1 .. Len(deque'[u]) :
               \E j \in 1 .. Len(deque[u]) : j # k /\ deque'[u][i] = deque[u][j]
    PROVE  DequeOK'
  <1>1. ASSUME NEW x \in Worker, NEW i \in 1 .. Len(deque[x]), x # u \/ i # k
        PROVE  Parent(deque[x][i]) # p
    <2> DEFINE c == deque[u][k]
               d == deque[x][i]
    <2>1. /\ Index(c) = child[p] /\ parent_id[p] = u
          /\ Index(d) = child[Parent(d)] /\ parent_id[Parent(d)] = x
      BY DEF IInv, DequeOK
    <2>2. c = Child(p, Index(c)) /\ d = Child(Parent(d), Index(d))
      BY Waiting
    <2>3. CASE x # u
      BY <2>1, <2>3
    <2>4. CASE x = u /\ i # k
      <3>1. c # d
        BY <2>4 DEF IInv, NoDuplicates
      <3> QED
        BY <2>1, <2>2, <3>1
    <2> QED
      BY <1>1, <2>3, <2>4
  <1>2. ASSUME NEW x \in Worker, NEW i \in 1 .. Len(deque[x]), x # u \/ i # k
        PROVE  LET d == deque[x][i]
                   g == Parent(d)
               IN /\ Spawned(d)
                  /\ pc'[g] = "spawned"
                  /\ Index(d) = child'[g]
                  /\ parent_id'[g] = x
                  /\ \A y \in Worker : run'[y] # g
    <2> DEFINE d == deque[x][i]
               g == Parent(d)
    <2>1. /\ Spawned(d)
          /\ pc[g] = "spawned"
          /\ Index(d) = child[g]
          /\ parent_id[g] = x
          /\ \A y \in Worker : run[y] # g
      BY DEF IInv, DequeOK
    <2>2. g \in Inner /\ g # p
      BY <1>1, <1>2, Waiting
    <2> QED
      BY <2>1, <2>2
  <1> SUFFICES ASSUME NEW x \in Worker, NEW i \in 1 .. Len(deque'[x])
               PROVE  (LET d == deque[x][i]
                           g == Parent(d)
                       IN /\ Spawned(d)
                          /\ pc[g] = "spawned"
                          /\ Index(d) = child[g]
                          /\ parent_id[g] = x
                          /\ \A y \in Worker : run[y] # g)'
    BY DEF DequeOK
  <1>3. CASE x # u
    <2>1. i \in 1 .. Len(deque[x]) /\ deque'[x][i] = deque[x][i]
      BY <1>3
    <2> QED
      BY <1>2, <1>3, <2>1
  <1>4. CASE x = u
    <2>1. PICK j \in 1 .. Len(deque[u]) : j # k /\ deque'[x][i] = deque[u][j]
      BY <1>4
    <2> QED
      BY <1>2, <1>4, <2>1
  <1> QED
    BY <1>3, <1>4

\* The return to a continuation that was not stolen preserves it.
LEMMA ReturnPoppedIInv ==
    ASSUME IInv, NEW w \in Worker, NEW f \in Frame, ReturnPopped(w, f)
    PROVE  IInv'
  <1> DEFINE p == Parent(f)
             n == Len(deque[w])
  <1>1. /\ At(w, f, "return") /\ run[w] = f /\ pc[f] = "return" /\ f # Root /\ Spawned(f)
        /\ deque[w] # <<>> /\ deque[w] \in Seq(Frame) /\ deque[w][n] = f
    BY DEF IInv, TypeOK, ReturnPopped, At, Spawned, MayPop
  <1>2. /\ p \in Inner /\ p \in Frame /\ p # f
        /\ f = Child(p, Index(f))
        /\ Index(f) \in 1 .. Fields
        /\ \A g \in Inner, i \in 1 .. Fields : f = Child(g, i) => g = p /\ i = Index(f)
        /\ \A v \in Worker : v # w => run[v] # f
    BY <1>1, Returning
  <1>3. /\ n \in Nat \ {0}
        /\ SubSeq(deque[w], 1, n - 1) \in Seq(Frame)
        /\ Len(SubSeq(deque[w], 1, n - 1)) = n - 1
        /\ \A k \in 1 .. n - 1 : SubSeq(deque[w], 1, n - 1)[k] = deque[w][k]
    BY <1>1, Popped
  <1>4. /\ n \in 1 .. n
        /\ pc[p] = "spawned" /\ Index(f) = child[p] /\ parent_id[p] = w
        /\ \A v \in Worker : run[v] # p
    BY <1>1, <1>3 DEF IInv, DequeOK
  <1>5. /\ pc' \in [Frame -> PC]
        /\ pc'[f] = "done"
        /\ \A g \in Frame : g # f => pc'[g] = pc[g]
        /\ run' \in [Worker -> Frame \cup {None}]
        /\ run'[w] = p
        /\ \A v \in Worker : v # w => run'[v] = run[v]
        /\ deque' = [deque EXCEPT ![w] = SubSeq(deque[w], 1, n - 1)]
        /\ UNCHANGED <<child, parent_id, loc, end, fresh, mem>>
    BY <1>2 DEF IInv, TypeOK, PC, ReturnPopped
  <1> HIDE DEF p, n
  <1>6. /\ deque' \in [Worker -> Seq(Frame)]
        /\ deque'[w] = SubSeq(deque[w], 1, n - 1)
        /\ \A v \in Worker : v # w => deque'[v] = deque[v]
    BY <1>3, <1>5 DEF IInv, TypeOK
  <1>7. TypeOK'
    BY <1>5, <1>6 DEF IInv, TypeOK
  <1>8. LeavesOK' /\ ChildOK' /\ StartedOK' /\ LocOK' /\ AvailableIsDone'
    BY <1>1, <1>5, Returned
  <1>9. JoinOK'
    <2>1. Index(f) # Fields /\ Fields \in 1 .. Fields
      BY <1>1, <1>2, FieldsAssumption DEF Spawned
    <2>2. \A g \in Inner : Child(g, Fields) # f
      BY <1>2, <2>1
    <2>3. \A g \in Inner, i \in 1 .. Fields :
            /\ pc[Child(g, i)] = "done" => pc'[Child(g, i)] = "done"
            /\ Child(g, i) # f => (pc[Child(g, i)] = "done" <=> pc'[Child(g, i)] = "done")
      BY <1>1, <1>5, ChildShape
    <2>4. \A g \in Inner : g # f => pc'[g] = pc[g]
      BY <1>5, InnerShape
    <2>5. f \in Inner => \A i \in 1 .. Fields : pc[Child(f, i)] = "done"
      BY <1>1 DEF IInv, JoinOK, Joined
    <2> QED
      BY <1>1, <1>5, <2>1, <2>2, <2>3, <2>4, <2>5 DEF IInv, JoinOK, Joined
  <1>10. RunOK'
    <2>1. \A v \in Worker : v # w /\ run[v] # None => run[v] \in Frame /\ run[v] # f /\ run[v] # p
      BY <1>2, <1>4 DEF IInv, TypeOK
    <2>2. p # None /\ pc'[p] \in Executed
      BY <1>2, <1>4, <1>5, NoneAssumption DEF Executed
    <2> QED
      BY <1>5, <2>1, <2>2 DEF IInv, RunOK
  <1>11. DequeOK'
    <2>1. \A i \in 1 .. Len(deque'[w]) :
            \E k \in 1 .. Len(deque[w]) : k # n /\ deque'[w][i] = deque[w][k]
      <3> SUFFICES ASSUME NEW i \in 1 .. Len(deque'[w])
                   PROVE  i \in 1 .. Len(deque[w]) /\ i # n /\ deque'[w][i] = deque[w][i]
        OBVIOUS
      <3> QED
        BY <1>3, <1>6 DEF n
    <2>2. n \in 1 .. Len(deque[w]) /\ p = Parent(deque[w][n])
      BY <1>1, <1>4 DEF n, p
    <2>3. \A g \in Inner : pc[g] = "spawned" => pc'[g] = "spawned"
      BY <1>1, <1>5, InnerShape
    <2> QED
      BY <1>5, <1>6, <2>1, <2>2, <2>3, Taken
  <1>12. NoDuplicates'
    <2>1. \A v \in Worker : v # w => deque'[v] = deque[v]
      BY <1>6
    <2>2. \A i, k \in 1 .. Len(deque'[w]) : deque'[w][i] = deque'[w][k] => i = k
      <3> SUFFICES ASSUME NEW i \in 1 .. n - 1, NEW k \in 1 .. n - 1,
                          deque[w][i] = deque[w][k]
                   PROVE  i = k
        BY <1>3, <1>6
      <3>1. i \in 1 .. Len(deque[w]) /\ k \in 1 .. Len(deque[w])
        BY <1>3 DEF n
      <3> QED
        BY <3>1 DEF IInv, NoDuplicates
    <2> QED
      BY <2>1, <2>2 DEF IInv, NoDuplicates
  <1>13. BackOK'
    <2> SUFFICES ASSUME NEW v \in Worker, NEW g \in Inner,
                        run'[v] = g, pc'[g] = "spawned", parent_id[g] = v
                 PROVE  pc'[Child(g, child[g])] = "done"
      BY <1>5 DEF BackOK
    <2>1. CASE g = p
      BY <1>2, <1>4, <1>5, <2>1
    <2>2. CASE g # p
      <3>1. g \in Frame /\ g # f /\ Child(g, child[g]) \in Frame
        BY <1>5, ChildShape, InnerShape DEF IInv, TypeOK
      <3>2. run[v] = g /\ pc[g] = "spawned"
        BY <1>5, <2>2, <3>1
      <3> QED
        BY <1>5, <3>1, <3>2 DEF IInv, BackOK
    <2> QED
      BY <2>1, <2>2
  <1> QED
    BY <1>7, <1>8, <1>9, <1>10, <1>11, <1>12, <1>13 DEF IInv

\* The return from a call whose continuation was stolen preserves it, whether or not
\* the parent waits for it.
LEMMA ReturnStolenIInv ==
    ASSUME IInv, NEW w \in Worker, NEW f \in Frame, ReturnStolen(w, f)
    PROVE  IInv'
  <1> DEFINE p == Parent(f)
             done == [pc EXCEPT ![f] = "done"]
             resumed == pc[p] = "suspended" /\ SpawnedDone(p, done)
  <1>1. At(w, f, "return") /\ run[w] = f /\ pc[f] = "return" /\ f # Root /\ Spawned(f)
    BY DEF ReturnStolen, At, Spawned
  <1>2. /\ p \in Inner /\ p \in Frame /\ p # f
        /\ f = Child(p, Index(f))
        /\ Index(f) \in 1 .. Fields
        /\ \A g \in Inner, i \in 1 .. Fields : f = Child(g, i) => g = p /\ i = Index(f)
        /\ \A v \in Worker : v # w => run[v] # f
    BY <1>1, Returning
  <1>3. /\ done \in [Frame -> PC]
        /\ done[f] = "done"
        /\ \A g \in Frame : g # f => done[g] = pc[g]
    BY DEF IInv, TypeOK, PC
  <1>4. /\ pc' \in [Frame -> PC]
        /\ pc'[f] = "done"
        /\ \A g \in Frame : g # f /\ g # p => pc'[g] = pc[g]
        /\ resumed => pc'[p] = "tie" /\ run'[w] = p
        /\ ~resumed => pc'[p] = pc[p] /\ run'[w] = None
        /\ run' \in [Worker -> Frame \cup {None}]
        /\ \A v \in Worker : v # w => run'[v] = run[v]
        /\ UNCHANGED <<deque, child, parent_id, loc, end, fresh, mem>>
    <2>1. UNCHANGED <<deque, child, parent_id, loc, end, fresh, mem>>
      BY DEF ReturnStolen
    <2>2. CASE resumed
      <3>1. run' = [run EXCEPT ![w] = p] /\ pc' = [done EXCEPT ![p] = "tie"]
        BY <2>2 DEF ReturnStolen
      <3> HIDE DEF done, resumed
      <3> QED
        BY <1>2, <1>3, <2>1, <2>2, <3>1 DEF IInv, TypeOK, PC
    <2>3. CASE ~resumed
      <3>1. run' = [run EXCEPT ![w] = None] /\ pc' = done
        BY <2>3 DEF ReturnStolen
      <3> HIDE DEF done, resumed
      <3> QED
        BY <1>2, <1>3, <2>1, <2>3, <3>1 DEF IInv, TypeOK, PC
    <2> QED
      BY <2>2, <2>3
  <1>5. resumed => /\ pc[p] = "suspended"
                   /\ \A i \in 1 .. Fields - 1 : Child(p, i) = f \/ pc[Child(p, i)] = "done"
    BY <1>2, <1>3, FieldsAssumption, ChildShape DEF SpawnedDone
  <1> HIDE DEF p, done, resumed
  <1>6. pc'[p] = pc[p] \/ (pc[p] = "suspended" /\ pc'[p] = "tie" /\ run'[w] = p)
    BY <1>4, <1>5
  <1>7. TypeOK'
    BY <1>4 DEF IInv, TypeOK
  <1>8. LeavesOK' /\ ChildOK' /\ StartedOK' /\ LocOK' /\ AvailableIsDone'
    <2>1. \A g \in Frame : g # f =>
            \/ pc'[g] = pc[g]
            \/ g \in Inner /\ pc[g] \in {"calling", "suspended"} /\ pc'[g] \in {"sync", "tie"}
      BY <1>2, <1>4, <1>6
    <2> QED
      BY <1>1, <1>4, <2>1, Returned
  <1>9. JoinOK'
    <2>1. Index(f) # Fields /\ Fields \in 1 .. Fields
      BY <1>1, <1>2, FieldsAssumption DEF Spawned
    <2>2. \A g \in Inner : Child(g, Fields) # f
      BY <1>2, <2>1
    <2>3. \A g \in Inner, i \in 1 .. Fields :
            /\ pc[Child(g, i)] = "done" \/ Child(g, i) = f => pc'[Child(g, i)] = "done"
            /\ pc[Child(g, i)] # "done" /\ Child(g, i) # f => pc'[Child(g, i)] # "done"
      BY <1>1, <1>2, <1>4, <1>6, ChildShape
    <2>4. \A g \in Inner : g # f /\ g # p => pc'[g] = pc[g]
      BY <1>4, InnerShape
    <2>5. f \in Inner => \A i \in 1 .. Fields : pc[Child(f, i)] = "done"
      BY <1>1 DEF IInv, JoinOK, Joined
    <2>6. resumed => \A i \in 1 .. Fields : pc'[Child(p, i)] = "done"
      <3> SUFFICES ASSUME resumed, NEW i \in 1 .. Fields
                   PROVE  pc'[Child(p, i)] = "done"
        OBVIOUS
      <3>1. CASE i = Fields
        BY <1>2, <1>5, <2>3, <3>1 DEF IInv, JoinOK
      <3>2. CASE i # Fields
        <4>1. i \in 1 .. Fields - 1
          BY <2>1, <3>2, FieldsAssumption
        <4> QED
          BY <1>2, <1>5, <2>3, <4>1
      <3> QED
        BY <3>1, <3>2
    <2>7. ASSUME NEW g \in Inner
          PROVE  (/\ pc[g] = "calling" => pc[Child(g, Fields)] # "done"
                  /\ pc[g] \in {"sync", "suspended"} => pc[Child(g, Fields)] = "done"
                  /\ pc[g] \in Joined => \A i \in 1 .. Fields : pc[Child(g, i)] = "done")'
      <3>1. CASE g = f
        BY <1>4, <2>3, <2>5, <3>1 DEF Joined
      <3>2. CASE g = p /\ resumed
        BY <1>4, <2>6, <3>2 DEF Joined
      <3>3. CASE g # f /\ (g # p \/ ~resumed)
        <4>1. pc'[g] = pc[g]
          BY <1>4, <2>4, <3>3
        <4> QED
          BY <2>1, <2>2, <2>3, <4>1 DEF IInv, JoinOK
      <3> QED
        BY <1>2, <3>1, <3>2, <3>3
    <2> QED
      BY <2>7 DEF JoinOK
  <1>10. RunOK'
    <2>1. \A v \in Worker : v # w /\ run[v] # None =>
            run[v] \in Frame /\ run[v] # f /\ (run[v] = p => pc[p] # "suspended")
      BY <1>2 DEF IInv, TypeOK, RunOK, Executed
    <2>2. p # None
      BY <1>2, NoneAssumption
    <2>3. \A v \in Worker : run'[v] # None => pc'[run'[v]] \in Executed
      <3> SUFFICES ASSUME NEW v \in Worker, run'[v] # None
                   PROVE  pc'[run'[v]] \in Executed
        OBVIOUS
      <3>1. CASE v = w
        BY <1>4, <3>1 DEF Executed
      <3>2. CASE v # w
        <4>1. run'[v] = run[v] /\ pc[run[v]] \in Executed
          BY <1>4, <3>2 DEF IInv, RunOK
        <4> QED
          BY <1>4, <1>6, <2>1, <3>2, <4>1
      <3> QED
        BY <3>1, <3>2
    <2>4. \A u, v \in Worker : run'[u] # None /\ run'[u] = run'[v] => u = v
      BY <1>4, <1>5, <2>1, <2>2 DEF IInv, RunOK
    <2> QED
      BY <2>3, <2>4 DEF RunOK
  <1>11. DequeOK' /\ NoDuplicates'
    <2> SUFFICES ASSUME NEW g \in Inner, pc[g] = "spawned", \A v \in Worker : run[v] # g
                 PROVE  pc'[g] = "spawned" /\ \A v \in Worker : run'[v] # g
      BY <1>4, WaitingLeftAlone
    <2>1. g \in Frame /\ g # f /\ g # None
      BY <1>1, InnerShape, NoneAssumption
    <2>2. run'[w] = None \/ (run'[w] = p /\ pc[p] = "suspended")
      BY <1>4, <1>5
    <2> QED
      BY <1>4, <1>6, <2>1, <2>2
  <1>12. BackOK'
    <2> SUFFICES ASSUME NEW v \in Worker, NEW g \in Inner,
                        run'[v] = g, pc'[g] = "spawned", parent_id[g] = v
                 PROVE  pc'[Child(g, child[g])] = "done"
      BY <1>4 DEF BackOK
    <2>1. /\ g \in Frame /\ g # f /\ g # None
          /\ Child(g, child[g]) \in Frame /\ child[g] \in 1 .. Fields
      BY <1>4, ChildShape, InnerShape, NoneAssumption DEF IInv, TypeOK
    <2>2. pc[g] = "spawned"
      BY <1>4, <1>6, <2>1
    <2>3. run[v] = g
      BY <1>4, <1>5, <2>1, <2>2
    <2>4. pc[Child(g, child[g])] = "done"
      BY <2>2, <2>3 DEF IInv, BackOK
    <2> QED
      BY <1>1, <1>4, <1>6, <2>1, <2>4
  <1> QED
    BY <1>7, <1>8, <1>9, <1>10, <1>11, <1>12 DEF IInv

\* A theft preserves it: the thief is not the worker that spawned.
LEMMA StealIInv ==
    ASSUME IInv, NEW w \in Worker, NEW v \in Worker, Steal(w, v)
    PROVE  IInv'
  <1> DEFINE c == deque[v][1]
             p == Parent(c)
  <1>1. w # v /\ run[w] = None /\ deque[v] # <<>> /\ deque[v] \in Seq(Frame)
    BY DEF IInv, TypeOK, Steal
  <1>2. /\ Len(deque[v]) \in Nat \ {0}
        /\ Tail(deque[v]) \in Seq(Frame)
        /\ Len(Tail(deque[v])) = Len(deque[v]) - 1
        /\ \A k \in 1 .. Len(deque[v]) - 1 : Tail(deque[v])[k] = deque[v][k + 1]
    BY <1>1, Robbed
  <1>3. 1 \in 1 .. Len(deque[v])
    BY <1>2
  <1>4. p \in Inner /\ p \in Frame /\ p # None
    BY <1>3, Waiting, NoneAssumption
  <1>5. pc[p] = "spawned" /\ parent_id[p] = v /\ \A u \in Worker : run[u] # p
    BY <1>3 DEF IInv, DequeOK
  <1>6. /\ run' = [run EXCEPT ![w] = p]
        /\ deque' = [deque EXCEPT ![v] = Tail(@)]
        /\ UNCHANGED <<pc, child, parent_id, loc, end, fresh, mem>>
    BY DEF Steal
  <1> HIDE DEF c, p
  <1>7. /\ run' \in [Worker -> Frame \cup {None}]
        /\ run'[w] = p
        /\ \A u \in Worker : u # w => run'[u] = run[u]
        /\ deque' \in [Worker -> Seq(Frame)]
        /\ deque'[v] = Tail(deque[v])
        /\ \A u \in Worker : u # v => deque'[u] = deque[u]
    BY <1>2, <1>4, <1>6 DEF IInv, TypeOK
  <1>8. TypeOK'
    BY <1>6, <1>7 DEF IInv, TypeOK
  <1>9. LeavesOK' /\ ChildOK' /\ StartedOK' /\ JoinOK' /\ LocOK' /\ AvailableIsDone'
    BY <1>6 DEF IInv, LeavesOK, ChildOK, StartedOK, JoinOK, LocOK, AvailableIsDone
  <1>10. RunOK'
    BY <1>5, <1>6, <1>7 DEF IInv, RunOK, Executed
  <1>11. DequeOK'
    <2>1. \A i \in 1 .. Len(deque'[v]) :
            \E j \in 1 .. Len(deque[v]) : j # 1 /\ deque'[v][i] = deque[v][j]
      <3> SUFFICES ASSUME NEW i \in 1 .. Len(deque'[v])
                   PROVE  i + 1 \in 1 .. Len(deque[v]) /\ i + 1 # 1 /\ deque'[v][i] = deque[v][i + 1]
        OBVIOUS
      <3> QED
        BY <1>2, <1>7
    <2>2. p = Parent(deque[v][1])
      BY DEF p, c
    <2> QED
      BY <1>3, <1>6, <1>7, <2>1, <2>2, Taken
  <1>12. NoDuplicates'
    <2>1. \A h, i \in 1 .. Len(deque'[v]) : deque'[v][h] = deque'[v][i] => h = i
      <3> SUFFICES ASSUME NEW h \in 1 .. Len(deque[v]) - 1, NEW i \in 1 .. Len(deque[v]) - 1,
                          deque[v][h + 1] = deque[v][i + 1]
                   PROVE  h = i
        BY <1>2, <1>7
      <3>1. h + 1 \in 1 .. Len(deque[v]) /\ i + 1 \in 1 .. Len(deque[v])
        BY <1>2
      <3>2. h + 1 = i + 1
        BY <3>1 DEF IInv, NoDuplicates
      <3> QED
        BY <3>2
    <2> QED
      BY <1>7, <2>1 DEF IInv, NoDuplicates
  <1>13. BackOK'
    BY <1>1, <1>5, <1>6, <1>7 DEF IInv, BackOK
  <1> QED
    BY <1>8, <1>9, <1>10, <1>11, <1>12, <1>13 DEF IInv

-----------------------------------------------------------------------------
\* Every step preserves the invariant.
LEMMA NextIInv == IInv /\ [Next]_vars => IInv'
  <1> SUFFICES ASSUME IInv, [Next]_vars
               PROVE  IInv'
    OBVIOUS
  <1>1. CASE UNCHANGED vars
    BY <1>1 DEF vars, IInv, TypeOK, LeavesOK, ChildOK, StartedOK, JoinOK, RunOK, DequeOK,
                NoDuplicates, BackOK, LocOK, AvailableIsDone
  <1>2. ASSUME NEW w \in Worker, Work(w)
        PROVE  IInv'
    <2> SUFFICES ASSUME NEW f \in Frame, Step(w, f)
                 PROVE  IInv'
      BY <1>2 DEF Work
    <2>1. CASE WriteLeaf(w, f)
      BY <2>1, WriteLeafIInv
    <2>2. CASE StartFields(w, f)
      BY <2>2, StartFieldsIInv
    <2>3. CASE Spawn(w, f)
      BY <2>3, SpawnIInv
    <2>4. CASE AfterAvailable(w, f)
      BY <2>4, AfterAvailableIInv
    <2>5. CASE FreshRegion(w, f)
      BY <2>5, FreshRegionIInv
    <2>6. CASE CallLast(w, f)
      BY <2>6, CallLastIInv
    <2>7. CASE Sync(w, f)
      BY <2>7, SyncIInv
    <2>8. CASE Tie(w, f)
      BY <2>8, TieIInv
    <2>9. CASE Construct(w, f)
      BY <2>9, ConstructIInv
    <2>10. CASE ReturnCalled(w, f)
      BY <2>10, ReturnCalledIInv
    <2>11. CASE ReturnPopped(w, f)
      BY <2>11, ReturnPoppedIInv
    <2>12. CASE ReturnStolen(w, f)
      BY <2>12, ReturnStolenIInv
    <2>13. CASE ReturnRoot(w, f)
      BY <2>13, ReturnRootIInv
    <2> QED
      BY <2>1, <2>2, <2>3, <2>4, <2>5, <2>6, <2>7, <2>8, <2>9, <2>10, <2>11, <2>12, <2>13 DEF Step
  <1>3. ASSUME NEW w \in Worker, NEW v \in Worker, Steal(w, v)
        PROVE  IInv'
    BY <1>3, StealIInv
  <1> QED
    BY <1>1, <1>2, <1>3 DEF Next

(* What is proved about the parallel allocation rests on the invariant. *)
THEOREM ParIInv == Spec => []IInv
  BY InitIInv, NextIInv, PTL DEF Spec

(* Every variable keeps its type, whatever the scheduler does. *)
THEOREM ParTypeOK == Spec => []TypeOK
  <1>1. IInv => TypeOK
    BY DEF IInv
  <1> QED
    BY <1>1, ParIInv, PTL

(* A field is only put behind a predecessor that has been returned: the
   comparison of worker ids never mistakes a stolen continuation for one that
   was not (ParAlloc.hs, AfterVariableLE). *)
THEOREM ParAvailableIsDone == Spec => []AvailableIsDone
  <1>1. IInv => AvailableIsDone
    BY DEF IInv
  <1> QED
    BY <1>1, ParIInv, PTL

(* A constructor is only tied together, written and returned when all of its
   fields are there (ParAlloc.hs, SyncE). *)
THEOREM ParJoinedIsComplete == Spec => []JoinedIsComplete
  <1>1. IInv => JoinedIsComplete
    <2> SUFFICES ASSUME IInv, NEW f \in Inner, pc[f] \in Joined, NEW i \in 1 .. Fields
                 PROVE  pc[Child(f, i)] = "done" /\ end[Child(f, i)] # None
      BY DEF JoinedIsComplete, Joined
    <2>1. pc[Child(f, i)] = "done"
      BY DEF IInv, JoinOK
    <2> QED
      BY <2>1, FieldsEnd, NoneAssumption
  <1> QED
    BY <1>1, ParIInv, PTL

-----------------------------------------------------------------------------
(***************************************************************************)
(* Parallel calls never write to one region at the same time.              *)
(***************************************************************************)
\* d is c, or a call made by c, directly or not.
InTree(c, d) == Len(c) <= Len(d) /\ \A k \in 1 .. Len(c) : d[k] = c[k]

(***************************************************************************)
(* The inductive invariant.                                                *)
(***************************************************************************)

RootOK == loc[Root] = RegionStart(Root)

\* Locations are set once.
UnsetOK ==
    /\ \A f \in Inner, i \in 1 .. Fields :
         pc[f] \in Starting \/ i > child[f] => loc[Child(f, i)] = None
    /\ \A f \in Frame : pc[f] \notin {"return", "done"} => end[f] = None

\* A field is written to the region of its constructor, to one of its own or to
\* one that was made for an earlier field or below it.
PlaceOK ==
    \A f \in Inner, i \in 1 .. Fields : loc[Child(f, i)] # None =>
        \/ loc[Child(f, i)].reg \in {loc[f].reg, Child(f, i)}
        \/ \E k \in 1 .. i - 1 : InTree(Child(f, k), loc[Child(f, i)].reg)

\* A value ends in the region where it starts or in one made below it.
EndOK ==
    \A f \in Frame : end[f] # None => end[f].reg = loc[f].reg \/ InTree(f, end[f].reg)

\* A field that was begun before an earlier one was done starts in a region that
\* was made after that.
AfterOK ==
    \A f \in Inner, i, j \in 1 .. Fields :
        i < j /\ j <= child[f] /\ pc[Child(f, i)] # "done"
        => \E k \in i + 1 .. j : InTree(Child(f, k), loc[Child(f, j)].reg)

RegionInv ==
    /\ RootOK
    /\ UnsetOK
    /\ PlaceOK
    /\ EndOK
    /\ AfterOK

-----------------------------------------------------------------------------
(***************************************************************************)
(* The tree of calls.  Induction over its depth rests on the least element *)
(* of a set of naturals, which the library has for finite sets by strict   *)
(* inclusion.                                                              *)
(***************************************************************************)
LEMMA Least ==
    ASSUME NEW T \in SUBSET Nat, T # {}
    PROVE  \E x \in T : \A y \in T : x <= y
  <1> DEFINE S == {1 .. n : n \in T}
  <1>1. S \subseteq FiniteSubsetsOf(Nat) /\ S # {}
    <2>1. \A n \in T : 1 .. n \in SUBSET Nat /\ IsFiniteSet(1 .. n)
      BY FS_Interval
    <2> QED
      BY <2>1 DEF FiniteSubsetsOf
  <1>2. PICK s \in S : \A t \in S : <<t, s>> \notin StrictSubsetOrdering(Nat)
    BY <1>1, WFMin, FS_StrictSubsetOrderingWellFounded
  <1>3. PICK x \in T : s = 1 .. x
    BY <1>2
  <1>4. ASSUME NEW y \in T, y < x
        PROVE  FALSE
    <2>1. 1 .. y \in SUBSET Nat /\ 1 .. x \in SUBSET Nat /\ 1 .. y \subseteq 1 .. x
      BY <1>4
    <2>2. 1 .. y # 1 .. x
      <3>1. x \in 1 .. x /\ x \notin 1 .. y
        BY <1>4
      <3> QED
        BY <3>1
    <2>3. <<1 .. y, 1 .. x>> \in StrictSubsetOrdering(Nat)
      BY <2>1, <2>2, Zenon DEF StrictSubsetOrdering
    <2> QED
      BY <1>2, <1>3, <2>3
  <1> QED
    BY <1>4

\* A call is the sequence of the fields that lead to it.
LEMMA FrameSeq ==
    ASSUME NEW c \in Frame
    PROVE  /\ c \in Seq(1 .. Fields)
           /\ Len(c) \in Nat
           /\ \A k \in 1 .. Len(c) : c[k] \in 1 .. Fields
  <1>1. Root \in Seq(1 .. Fields)
    BY DEF Root
  <1>2. ASSUME NEW f \in Inner, NEW i \in 1 .. Fields
        PROVE  Child(f, i) \in Seq(1 .. Fields)
    BY InnerAssumption DEF Child
  <1>3. c \in Seq(1 .. Fields)
    BY <1>1, <1>2 DEF Frame
  <1>4. \A k \in 1 .. Len(c) : c[k] \in 1 .. Fields
    BY <1>3, ElementOfSeq
  <1> QED
    BY <1>3, <1>4

\* Two calls are the same if their fields are.
LEMMA SameFrame ==
    ASSUME NEW c \in Seq(1 .. Fields), NEW d \in Seq(1 .. Fields), Len(c) = Len(d),
           \A k \in 1 .. Len(c) : c[k] = d[k]
    PROVE  c = d
  OBVIOUS

\* A child is one field longer than its call.
LEMMA ChildFields ==
    ASSUME NEW f \in Inner, NEW i \in 1 .. Fields
    PROVE  /\ f \in Frame /\ Child(f, i) \in Frame
           /\ Len(f) \in Nat
           /\ Len(Child(f, i)) = Len(f) + 1
           /\ \A k \in 1 .. Len(f) : Child(f, i)[k] = f[k]
           /\ Child(f, i)[Len(f) + 1] = i
  <1>1. f \in Seq(1 .. Fields)
    BY InnerAssumption
  <1> QED
    BY <1>1, ChildShape DEF Child

\* Calls lie below themselves, and below what lies below.
LEMMA TreeOrder ==
    /\ \A c \in Frame : InTree(c, c)
    /\ \A b, c, d \in Frame : InTree(b, c) /\ InTree(c, d) => InTree(b, d)
    /\ \A c, d \in Frame : InTree(c, d) /\ InTree(d, c) => c = d
  <1>1. \A c \in Frame : InTree(c, c)
    BY FrameSeq DEF InTree
  <1>2. ASSUME NEW b \in Frame, NEW c \in Frame, NEW d \in Frame, InTree(b, c), InTree(c, d)
        PROVE  InTree(b, d)
    BY <1>2, FrameSeq DEF InTree
  <1>3. ASSUME NEW c \in Frame, NEW d \in Frame, InTree(c, d), InTree(d, c)
        PROVE  c = d
    <2>1. Len(c) = Len(d)
      BY <1>3, FrameSeq DEF InTree
    <2> QED
      BY <1>3, <2>1, FrameSeq, SameFrame DEF InTree
  <1> QED
    BY <1>1, <1>2, <1>3

\* The subtrees of the children of a call are below it and apart.
LEMMA ChildTree ==
    ASSUME NEW f \in Inner, NEW i \in 1 .. Fields
    PROVE  /\ InTree(f, Child(f, i))
           /\ ~InTree(Child(f, i), f)
           /\ \A c \in Frame : InTree(c, Child(f, i)) /\ c # Child(f, i) => InTree(c, f)
           /\ \A j \in 1 .. Fields, c \in Frame :
                InTree(Child(f, i), c) /\ InTree(Child(f, j), c) => i = j
  <1>1. InTree(f, Child(f, i)) /\ ~InTree(Child(f, i), f)
    BY ChildFields DEF InTree
  <1>2. ASSUME NEW c \in Frame, InTree(c, Child(f, i)), c # Child(f, i)
        PROVE  InTree(c, f)
    <2>1. Len(c) # Len(f) + 1
      BY <1>2, ChildFields, FrameSeq, SameFrame DEF InTree
    <2> QED
      BY <1>2, <2>1, ChildFields, FrameSeq DEF InTree
  <1>3. ASSUME NEW j \in 1 .. Fields, NEW c \in Frame, InTree(Child(f, i), c), InTree(Child(f, j), c)
        PROVE  i = j
    <2>1. Len(f) + 1 \in 1 .. Len(Child(f, i)) /\ Len(f) + 1 \in 1 .. Len(Child(f, j))
      BY ChildFields
    <2>2. c[Len(f) + 1] = i /\ c[Len(f) + 1] = j
      BY <1>3, <2>1, ChildFields DEF InTree
    <2> QED
      BY <2>2
  <1> QED
    BY <1>1, <1>2, <1>3

\* What leads to a call are calls that make calls.
LEMMA PrefixInner ==
    ASSUME NEW d \in Frame, NEW n \in Nat, n < Len(d)
    PROVE  SubSeq(d, 1, n) \in Inner
  <1> DEFINE Bad(c) == \E k \in Nat : k < Len(c) /\ SubSeq(c, 1, k) \notin Inner
             T == {Len(c) : c \in {b \in Frame : Bad(b)}}
  <1> SUFFICES ASSUME T # {}
               PROVE  FALSE
    OBVIOUS
  <1>1. T \in SUBSET Nat
    BY FrameSeq
  <1>2. PICK x \in T : \A y \in T : x <= y
    BY <1>1, Least
  <1>3. PICK c \in Frame : Bad(c) /\ x = Len(c)
    BY <1>2
  <1>4. PICK k \in Nat : k < Len(c) /\ SubSeq(c, 1, k) \notin Inner
    BY <1>3
  <1>5. c \in Seq(1 .. Fields) /\ Len(c) \in Nat \ {0} /\ c # Root
    <2>1. c \in Seq(1 .. Fields) /\ Len(c) \in Nat
      BY FrameSeq
    <2> QED
      BY <1>4, <2>1 DEF Root
  <1>6. Parent(c) \in Inner /\ Parent(c) \in Frame
    BY <1>5, ParentShape, InnerShape
  <1>7. k # Len(c) - 1
    BY <1>4, <1>6 DEF Parent
  <1>8. PICK n1 \in Nat : n1 = Len(c) - 1
    <2> HIDE DEF T, Bad
    <2> QED
      BY <1>5
  <1>9. Parent(c) = SubSeq(c, 1, n1) /\ Len(Parent(c)) = n1
    BY <1>5, <1>8 DEF Parent
  <1>10. k < n1 /\ SubSeq(Parent(c), 1, k) = SubSeq(c, 1, k)
    BY <1>4, <1>5, <1>7, <1>8, <1>9
  <1>11. Bad(Parent(c))
    BY <1>4, <1>9, <1>10
  <1>12. n1 \in T
    BY <1>6, <1>9, <1>11
  <1>13. x <= n1
    BY <1>2, <1>12
  <1> HIDE DEF T, Bad
  <1> QED
    BY <1>3, <1>5, <1>8, <1>13

\* A strict prefix of a call, with the next field.
LEMMA PrefixChild ==
    ASSUME NEW d \in Frame, NEW n \in Nat, n < Len(d)
    PROVE  LET f == SubSeq(d, 1, n)
           IN /\ f \in Inner
              /\ Len(f) = n
              /\ \A k \in 1 .. n : f[k] = d[k]
              /\ d[n + 1] \in 1 .. Fields
              /\ InTree(Child(f, d[n + 1]), d)
  <1> DEFINE f == SubSeq(d, 1, n)
  <1>1. f \in Inner
    BY PrefixInner
  <1>2. d \in Seq(1 .. Fields) /\ Len(d) \in Nat
    BY FrameSeq
  <1>3. Len(f) = n /\ \A k \in 1 .. n : f[k] = d[k]
    BY <1>2
  <1>4. n + 1 \in 1 .. Len(d) /\ d[n + 1] \in 1 .. Fields
    BY <1>2, FrameSeq
  <1> HIDE DEF f
  <1>5. InTree(Child(f, d[n + 1]), d)
    BY <1>1, <1>2, <1>3, <1>4, ChildFields DEF InTree
  <1> QED
    BY <1>1, <1>3, <1>4, <1>5 DEF f

\* What lies below a call lies below one of its children.
LEMMA Below ==
    ASSUME NEW f \in Frame, NEW d \in Frame, InTree(f, d), f # d
    PROVE  f \in Inner /\ \E i \in 1 .. Fields : InTree(Child(f, i), d)
  <1>1. f \in Seq(1 .. Fields) /\ d \in Seq(1 .. Fields) /\ Len(f) \in Nat /\ Len(d) \in Nat
    BY FrameSeq
  <1>2. Len(f) # Len(d)
    BY <1>1, SameFrame DEF InTree
  <1>3. Len(f) < Len(d)
    BY <1>1, <1>2 DEF InTree
  <1> DEFINE g == SubSeq(d, 1, Len(f))
  <1>4. /\ g \in Inner /\ Len(g) = Len(f)
        /\ \A k \in 1 .. Len(f) : g[k] = d[k]
        /\ d[Len(f) + 1] \in 1 .. Fields
        /\ InTree(Child(g, d[Len(f) + 1]), d)
    BY <1>1, <1>3, PrefixChild
  <1> HIDE DEF g
  <1>5. g = f
    BY <1>1, <1>4, InnerAssumption, SameFrame DEF InTree
  <1> QED
    BY <1>4, <1>5

\* Two calls of which neither is below the other are below different children
\* of one.
LEMMA Apart ==
    ASSUME NEW c \in Frame, NEW d \in Frame, ~InTree(c, d), ~InTree(d, c)
    PROVE  \E f \in Inner, i, j \in 1 .. Fields :
               i # j /\ InTree(Child(f, i), c) /\ InTree(Child(f, j), d)
  <1>1. c \in Seq(1 .. Fields) /\ d \in Seq(1 .. Fields) /\ Len(c) \in Nat /\ Len(d) \in Nat
    BY FrameSeq
  <1> DEFINE T == {k \in Nat : k \in 1 .. Len(c) /\ k \in 1 .. Len(d) /\ c[k] # d[k]}
  <1>2. T # {} /\ T \in SUBSET Nat
    BY <1>1 DEF InTree
  <1>3. PICK m \in T : \A k \in T : m <= k
    BY <1>2, Least
  <1>4. PICK n \in Nat : n = m - 1
    BY <1>3
  <1>5. n < Len(c) /\ n < Len(d) /\ n + 1 = m /\ c[m] # d[m]
    BY <1>1, <1>3, <1>4
  <1>6. \A k \in 1 .. n : c[k] = d[k]
    BY <1>1, <1>3, <1>4
  <1> HIDE DEF T
  <1> DEFINE f == SubSeq(c, 1, n)
             g == SubSeq(d, 1, n)
  <1>7. /\ f \in Inner /\ Len(f) = n /\ \A k \in 1 .. n : f[k] = c[k]
        /\ c[m] \in 1 .. Fields /\ InTree(Child(f, c[m]), c)
    BY <1>5, PrefixChild
  <1>8. /\ g \in Inner /\ Len(g) = n /\ \A k \in 1 .. n : g[k] = d[k]
        /\ d[m] \in 1 .. Fields /\ InTree(Child(g, d[m]), d)
    BY <1>5, PrefixChild
  <1> HIDE DEF f, g
  <1>9. f = g
    BY <1>6, <1>7, <1>8, InnerAssumption, SameFrame
  <1> QED
    BY <1>5, <1>7, <1>8, <1>9

-----------------------------------------------------------------------------
(***************************************************************************)
(* The invariant is inductive.                                             *)
(***************************************************************************)
LEMMA InitRegionInv == Init => RegionInv
  <1> SUFFICES ASSUME Init
               PROVE  RegionInv
    OBVIOUS
  <1>1. RootOK
    BY RootShape DEF Init, RootOK
  <1>2. UnsetOK
    BY ChildShape DEF Init, UnsetOK
  <1>3. PlaceOK
    BY ChildShape DEF Init, PlaceOK
  <1>4. EndOK
    BY DEF Init, EndOK
  <1>5. AfterOK
    BY InnerShape, FieldsAssumption DEF Init, AfterOK
  <1> QED
    BY <1>1, <1>2, <1>3, <1>4, <1>5 DEF RegionInv

\* A step that sets no location preserves the invariant, if it begins no fields,
\* finishes no value and forgets no return.
LEMMA NothingPlaced ==
    ASSUME RegionInv, UNCHANGED <<child, loc, end>>,
           \A c \in Frame :
               /\ pc'[c] \in Starting => pc[c] \in Starting
               /\ pc[c] \in {"return", "done"} => pc'[c] \in {"return", "done"}
               /\ pc[c] = "done" => pc'[c] = "done"
    PROVE  RegionInv'
  <1>1. RootOK' /\ PlaceOK' /\ EndOK'
    BY DEF RegionInv, RootOK, PlaceOK, EndOK
  <1>2. UnsetOK'
    BY InnerShape DEF RegionInv, UnsetOK
  <1>3. AfterOK'
    BY ChildShape DEF RegionInv, AfterOK
  <1> QED
    BY <1>1, <1>2, <1>3 DEF RegionInv

\* A step that finishes the value of f.
LEMMA Ended ==
    ASSUME IInv, RegionInv, NEW f \in Frame, NEW a \in Address,
           pc[f] \notin Starting \ {"entry"}, pc[f] \notin {"return", "done"},
           a.reg = loc[f].reg \/ InTree(f, a.reg),
           end' = [end EXCEPT ![f] = a],
           pc' = [pc EXCEPT ![f] = "return"],
           UNCHANGED <<child, loc>>
    PROVE  RegionInv'
  <1>1. /\ end'[f] = a
        /\ pc'[f] = "return"
        /\ \A c \in Frame : c # f => end'[c] = end[c] /\ pc'[c] = pc[c]
    BY DEF IInv, TypeOK
  <1>2. RootOK' /\ PlaceOK'
    BY DEF RegionInv, RootOK, PlaceOK
  <1>3. UnsetOK'
    BY <1>1, InnerShape DEF RegionInv, UnsetOK, Starting
  <1>4. EndOK'
    BY <1>1 DEF RegionInv, EndOK
  <1>5. AfterOK'
    BY <1>1, ChildShape DEF RegionInv, AfterOK
  <1> QED
    BY <1>2, <1>3, <1>4, <1>5 DEF RegionInv

\* A step that places field n of f at a.
LEMMA Placed ==
    ASSUME IInv, RegionInv, NEW f \in Inner, NEW n \in 1 .. Fields, NEW a \in Address,
           pc[Child(f, n)] = "new",
           loc' = [loc EXCEPT ![Child(f, n)] = a],
           pc' = [pc EXCEPT ![f] = "build"],
           pc[f] \notin {"return", "done"},
           child' = [child EXCEPT ![f] = n],
           pc[f] \in Starting => n = 1,
           child[f] \in {n - 1, n},
           \/ a.reg \in {loc[f].reg, Child(f, n)}
           \/ \E k \in 1 .. n - 1 : InTree(Child(f, k), a.reg),
           \A i \in 1 .. n - 1 : pc[Child(f, i)] # "done"
               => \E k \in i + 1 .. n : InTree(Child(f, k), a.reg),
           UNCHANGED end
    PROVE  RegionInv'
  <1> DEFINE c == Child(f, n)
  <1>1. /\ f \in Frame /\ c \in Frame /\ c # Root /\ c # f
        /\ pc[c] = "new"
        /\ \A i \in 1 .. Fields : Child(f, i) = c => i = n
        /\ \A g \in Inner, i \in 1 .. Fields : Child(g, i) = c => g = f /\ i = n
        /\ \A g \in Inner, i \in 1 .. Fields : Child(g, i) \in Frame /\ g \in Frame
    BY ChildShape
  <1> HIDE DEF c
  <1>2. /\ loc'[c] = a
        /\ \A d \in Frame : d # c => loc'[d] = loc[d]
        /\ pc'[f] = "build" /\ pc'[c] = "new"
        /\ \A d \in Frame : d # f => pc'[d] = pc[d]
        /\ child'[f] = n
        /\ \A d \in Frame : d # f => child'[d] = child[d]
        /\ child[f] \in 1 .. Fields
    BY <1>1 DEF IInv, TypeOK, c
  <1>3. RootOK'
    BY <1>1, <1>2, RootShape DEF RegionInv, RootOK
  <1>4. UnsetOK'
    <2>1. ASSUME NEW g \in Inner, NEW i \in 1 .. Fields, pc'[g] \in Starting \/ i > child'[g]
          PROVE  loc'[Child(g, i)] = None
      <3>1. CASE g = f
        <4>1. i > n /\ Child(g, i) # c
          BY <1>1, <1>2, <2>1, <3>1 DEF Starting
        <4>2. loc[Child(g, i)] = None
          BY <1>2, <2>1, <3>1, <4>1 DEF RegionInv, UnsetOK
        <4> QED
          BY <1>1, <1>2, <4>1, <4>2
      <3>2. CASE g # f
        <4>1. Child(g, i) # c
          BY <1>1, <3>2
        <4> QED
          BY <1>1, <1>2, <2>1, <3>2, <4>1 DEF RegionInv, UnsetOK
      <3> QED
        BY <3>1, <3>2
    <2>2. \A g \in Frame : pc'[g] \notin {"return", "done"} => end'[g] = None
      BY <1>2 DEF RegionInv, UnsetOK
    <2> QED
      BY <2>1, <2>2 DEF UnsetOK
  <1>5. PlaceOK'
    <2> SUFFICES ASSUME NEW g \in Inner, NEW i \in 1 .. Fields, loc'[Child(g, i)] # None
                 PROVE  \/ loc'[Child(g, i)].reg \in {loc'[g].reg, Child(g, i)}
                        \/ \E k \in 1 .. i - 1 : InTree(Child(g, k), loc'[Child(g, i)].reg)
      BY DEF PlaceOK
    <2>1. CASE Child(g, i) = c
      <3>1. g = f /\ i = n /\ loc'[g] = loc[g]
        BY <1>1, <1>2, <2>1
      <3> QED
        BY <1>2, <2>1, <3>1 DEF c
    <2>2. CASE Child(g, i) # c
      <3>1. loc'[Child(g, i)] = loc[Child(g, i)]
        BY <1>1, <1>2, <2>2
      <3>2. g # c
        BY <1>1, <3>1 DEF RegionInv, UnsetOK, Starting
      <3> QED
        BY <1>1, <1>2, <3>1, <3>2 DEF RegionInv, PlaceOK
    <2> QED
      BY <2>1, <2>2
  <1>6. EndOK'
    <2>1. end[c] = None
      BY <1>1 DEF RegionInv, UnsetOK
    <2> QED
      BY <1>2, <2>1 DEF RegionInv, EndOK
  <1>7. AfterOK'
    <2> SUFFICES ASSUME NEW g \in Inner, NEW i \in 1 .. Fields, NEW j \in 1 .. Fields,
                        i < j, j <= child'[g], pc'[Child(g, i)] # "done"
                 PROVE  \E k \in i + 1 .. j : InTree(Child(g, k), loc'[Child(g, j)].reg)
      BY DEF AfterOK
    <2>1. pc[Child(g, i)] # "done"
      BY <1>1, <1>2
    <2>2. CASE Child(g, j) = c
      <3>1. g = f /\ j = n /\ i \in 1 .. n - 1
        BY <1>1, <2>2
      <3> QED
        BY <1>2, <2>1, <2>2, <3>1
    <2>3. CASE Child(g, j) # c
      <3>1. loc'[Child(g, j)] = loc[Child(g, j)]
        BY <1>1, <1>2, <2>3
      <3>2. j <= child[g]
        <4>1. CASE g = f
          BY <1>2, <2>3, <4>1 DEF c
        <4>2. CASE g # f
          BY <1>1, <1>2, <4>2
        <4> QED
          BY <4>1, <4>2
      <3> QED
        BY <2>1, <3>1, <3>2 DEF RegionInv, AfterOK
    <2> QED
      BY <2>2, <2>3
  <1> QED
    BY <1>3, <1>4, <1>5, <1>6, <1>7 DEF RegionInv

\* A sequential call writes and ends in the region it was given.
LEMMA WriteLeafRegion ==
    ASSUME IInv, RegionInv, NEW w \in Worker, NEW f \in Frame, WriteLeaf(w, f)
    PROVE  RegionInv'
  <1>1. pc[f] = "entry" /\ loc[f] \in Address
    BY DEF IInv, LocOK, WriteLeaf, At
  <1>2. After(loc[f]) \in Address /\ After(loc[f]).reg = loc[f].reg
    BY <1>1, AddressShape DEF After, Address
  <1> QED
    BY <1>1, <1>2, Ended DEF WriteLeaf

\* The constructor ends where its last field does.
LEMMA ConstructRegion ==
    ASSUME IInv, RegionInv, NEW w \in Worker, NEW f \in Frame, Construct(w, f)
    PROVE  RegionInv'
  <1>1. f \in Inner /\ pc[f] = "construct"
    BY DEF IInv, LeavesOK, Construct, At
  <1> DEFINE c == Child(f, Fields)
  <1>2. c \in Frame /\ pc[c] = "done" /\ Fields \in 1 .. Fields
    BY <1>1, FieldsAssumption, ChildShape DEF IInv, JoinOK, Joined
  <1>3. end[c] \in Address /\ loc[c] \in Address
    BY <1>2 DEF IInv, LocOK
  <1>4. end[c].reg = loc[f].reg \/ InTree(f, end[c].reg)
    <2>1. end[c].reg = loc[c].reg \/ InTree(c, end[c].reg)
      BY <1>2, <1>3, AddressShape DEF RegionInv, EndOK
    <2>2. \/ loc[c].reg \in {loc[f].reg, c}
          \/ \E k \in 1 .. Fields - 1 : InTree(Child(f, k), loc[c].reg)
      BY <1>1, <1>2, <1>3, AddressShape DEF RegionInv, PlaceOK
    <2>3. \A k \in 1 .. Fields, d \in Frame : InTree(Child(f, k), d) => InTree(f, d)
      BY <1>1, ChildShape, ChildTree, TreeOrder
    <2>4. end[c].reg \in Frame /\ loc[c].reg \in Frame
      BY <1>3 DEF Address
    <2>5. InTree(f, c)
      BY <1>1, <1>2, ChildTree
    <2> QED
      BY <1>2, <2>1, <2>2, <2>3, <2>4, <2>5, FieldsAssumption
  <1> HIDE DEF c
  <1>5. end' = [end EXCEPT ![f] = end[c]] /\ pc' = [pc EXCEPT ![f] = "return"] /\ UNCHANGED <<child, loc>>
    BY DEF Construct, c
  <1> QED
    BY <1>1, <1>3, <1>4, <1>5, Ended DEF Starting

\* The first field goes behind the tag.
LEMMA StartFieldsRegion ==
    ASSUME IInv, RegionInv, NEW w \in Worker, NEW f \in Frame, StartFields(w, f)
    PROVE  RegionInv'
  <1>1. f \in Inner /\ pc[f] = "entry" /\ loc[f] \in Address /\ child[f] = 1
    BY DEF IInv, LocOK, ChildOK, StartFields, At, Sequential, Starting
  <1>2. After(loc[f]) \in Address /\ After(loc[f]).reg = loc[f].reg
    BY <1>1, AddressShape DEF After, Address
  <1>3. 1 \in 1 .. Fields /\ pc[Child(f, 1)] = "new"
    BY <1>1, FieldsAssumption DEF IInv, StartedOK, Starting
  <1>4. child' = [child EXCEPT ![f] = 1]
    BY <1>1, InnerShape DEF StartFields, IInv, TypeOK
  <1>5. /\ loc' = [loc EXCEPT ![Child(f, 1)] = After(loc[f])]
        /\ pc' = [pc EXCEPT ![f] = "build"]
        /\ UNCHANGED end
    BY DEF StartFields
  <1>6. child[f] \in {1 - 1, 1} /\ 1 .. 1 - 1 = {}
    BY <1>1
  <1> DEFINE a == After(loc[f])
  <1> HIDE DEF a
  <1> QED
    BY <1>1, <1>2, <1>3, <1>4, <1>5, <1>6, Placed DEF a

\* The next field.
LEMMA NextFieldShape ==
    ASSUME IInv, NEW f \in Inner, pc[f] = "spawned"
    PROVE  /\ child[f] \in 1 .. Fields
           /\ child[f] + 1 \in 1 .. Fields
           /\ pc[Child(f, child[f] + 1)] = "new"
           /\ loc[Child(f, child[f])] \in Address
  <1>1. child[f] \in 1 .. Fields /\ child[f] < Fields
    BY InnerShape DEF IInv, TypeOK, ChildOK
  <1>2. child[f] + 1 \in 1 .. Fields
    BY <1>1, FieldsAssumption
  <1>3. pc[Child(f, child[f] + 1)] = "new"
    BY <1>1, <1>2 DEF IInv, StartedOK
  <1>4. loc[Child(f, child[f])] \in Address
    BY <1>1 DEF IInv, LocOK, Starting
  <1> QED
    BY <1>1, <1>2, <1>3, <1>4

\* A field behind its predecessor stays within what was made for the fields up
\* to that, and behind those that are not done.
LEMMA AfterAvailableRegion ==
    ASSUME IInv, RegionInv, NEW w \in Worker, NEW f \in Frame, AfterAvailable(w, f)
    PROVE  RegionInv'
  <1>1. f \in Inner /\ pc[f] = "spawned" /\ run[w] = f /\ parent_id[f] = w
    BY DEF IInv, LeavesOK, AfterAvailable, At, not_stolen
  <1> DEFINE m == child[f]
             c == Child(f, m)
  <1>2. m \in 1 .. Fields /\ m + 1 \in 1 .. Fields /\ pc[Child(f, m + 1)] = "new" /\ loc[c] \in Address
    BY <1>1, NextFieldShape
  <1>3. c \in Frame /\ pc[c] = "done" /\ end[c] \in Address
    BY <1>1, <1>2, ChildShape DEF IInv, BackOK, LocOK
  <1>4. /\ child' = [child EXCEPT ![f] = m + 1]
        /\ loc' = [loc EXCEPT ![Child(f, m + 1)] = end[c]]
        /\ pc' = [pc EXCEPT ![f] = "build"]
        /\ UNCHANGED end
    BY <1>1, InnerShape DEF AfterAvailable, IInv, TypeOK
  <1>5. end[c].reg = loc[c].reg \/ InTree(c, end[c].reg)
    BY <1>3, AddressShape DEF RegionInv, EndOK
  <1>6. InTree(c, c)
    BY <1>3, TreeOrder
  <1>7. \/ loc[c].reg \in {loc[f].reg, c}
        \/ \E k \in 1 .. m - 1 : InTree(Child(f, k), loc[c].reg)
    BY <1>1, <1>2, AddressShape DEF RegionInv, PlaceOK
  <1>8. \A i \in 1 .. m - 1 : pc[Child(f, i)] # "done"
          => \E k \in i + 1 .. m : InTree(Child(f, k), loc[c].reg)
    <2> SUFFICES ASSUME NEW i \in 1 .. m - 1, pc[Child(f, i)] # "done"
                 PROVE  \E k \in i + 1 .. m : InTree(Child(f, k), loc[c].reg)
      OBVIOUS
    <2>1. i \in 1 .. Fields /\ i < m
      BY <1>2, FieldsAssumption
    <2> QED
      BY <1>1, <1>2, <2>1 DEF RegionInv, AfterOK
  <1> DEFINE n == m + 1
             a == end[c]
  <1>9. \/ a.reg \in {loc[f].reg, Child(f, n)}
        \/ \E k \in 1 .. n - 1 : InTree(Child(f, k), a.reg)
    <2>1. m \in 1 .. n - 1 /\ \A k \in 1 .. m - 1 : k \in 1 .. n - 1
      BY <1>2
    <2> QED
      BY <1>5, <1>6, <1>7, <2>1
  <1>10. ASSUME NEW i \in 1 .. n - 1, pc[Child(f, i)] # "done"
         PROVE  \E k \in i + 1 .. n : InTree(Child(f, k), a.reg)
    <2>1. i \in 1 .. m - 1 /\ m \in i + 1 .. n /\ \A k \in i + 1 .. m : k \in i + 1 .. n
      BY <1>2, <1>3, <1>10
    <2> QED
      BY <1>5, <1>8, <1>10, <2>1
  <1>11. n \in 1 .. Fields /\ m \in {n - 1, n} /\ pc[Child(f, n)] = "new"
    BY <1>2
  <1> HIDE DEF m, n, c, a
  <1> QED
    BY <1>1, <1>3, <1>4, <1>9, <1>10, <1>11, Placed DEF Starting, n, a, m

\* A fresh region is behind everything.
LEMMA FreshRegionRegion ==
    ASSUME IInv, RegionInv, NEW w \in Worker, NEW f \in Frame, FreshRegion(w, f)
    PROVE  RegionInv'
  <1>1. f \in Inner /\ pc[f] = "spawned"
    BY DEF IInv, LeavesOK, FreshRegion, At
  <1> DEFINE n == child[f] + 1
             a == RegionStart(Child(f, n))
  <1>2. n \in 1 .. Fields /\ pc[Child(f, n)] = "new" /\ child[f] \in {n - 1, n}
    BY <1>1, NextFieldShape
  <1>3. /\ child' = [child EXCEPT ![f] = n]
        /\ loc' = [loc EXCEPT ![Child(f, n)] = a]
        /\ pc' = [pc EXCEPT ![f] = "build"]
        /\ UNCHANGED end
    BY <1>1, InnerShape DEF FreshRegion, IInv, TypeOK
  <1>4. Child(f, n) \in Frame /\ a \in Address /\ a.reg = Child(f, n) /\ InTree(Child(f, n), a.reg)
    BY <1>1, <1>2, ChildShape, AddressShape, TreeOrder DEF RegionStart
  <1>5. \A i \in 1 .. n - 1 : n \in i + 1 .. n
    BY <1>2
  <1>6. \A i \in 1 .. n - 1 : \E k \in i + 1 .. n : InTree(Child(f, k), a.reg)
    BY <1>4, <1>5
  <1> HIDE DEF n, a
  <1> QED
    BY <1>1, <1>2, <1>3, <1>4, <1>6, Placed DEF Starting

\* Every step preserves the invariant.
LEMMA NextRegionInv == IInv /\ RegionInv /\ [Next]_vars => RegionInv'
  <1> SUFFICES ASSUME IInv, RegionInv, [Next]_vars
               PROVE  RegionInv'
    OBVIOUS
  <1> DEFINE Quiet ==
        /\ UNCHANGED <<child, loc, end>>
        /\ \A c \in Frame :
             /\ pc'[c] \in Starting => pc[c] \in Starting
             /\ pc[c] \in {"return", "done"} => pc'[c] \in {"return", "done"}
             /\ pc[c] = "done" => pc'[c] = "done"
  <1>1. CASE UNCHANGED vars
    <2>1. Quiet
      BY <1>1 DEF vars
    <2> QED
      BY <2>1, NothingPlaced
  <1>2. ASSUME NEW w \in Worker, NEW v \in Worker, Steal(w, v)
        PROVE  RegionInv'
    <2>1. Quiet
      BY <1>2 DEF Steal
    <2> QED
      BY <2>1, NothingPlaced
  <1>3. ASSUME NEW w \in Worker, NEW f \in Frame, Step(w, f)
        PROVE  RegionInv'
    <2>1. CASE WriteLeaf(w, f)
      BY <2>1, WriteLeafRegion
    <2>2. CASE StartFields(w, f)
      BY <2>2, StartFieldsRegion
    <2>3. CASE AfterAvailable(w, f)
      BY <2>3, AfterAvailableRegion
    <2>4. CASE FreshRegion(w, f)
      BY <2>4, FreshRegionRegion
    <2>5. CASE Construct(w, f)
      BY <2>5, ConstructRegion
    <2>6. CASE Spawn(w, f)
      <3>1. f \in Inner /\ pc[f] = "build" /\ child[f] \in 1 .. Fields
        BY <2>6 DEF Spawn, At, IInv, LeavesOK, TypeOK
      <3>2. Child(f, child[f]) \in Frame /\ Child(f, child[f]) # f
        BY <3>1, ChildShape
      <3>3. pc[Child(f, child[f])] = "new"
        BY <3>1 DEF IInv, StartedOK
      <3>4. Quiet
        BY <2>6, <3>1, <3>2, <3>3 DEF Spawn, IInv, TypeOK, Starting
      <3> QED
        BY <3>4, NothingPlaced
    <2>7. CASE CallLast(w, f)
      <3>1. f \in Inner /\ pc[f] = "build" /\ child[f] = Fields /\ Fields \in 1 .. Fields
        BY <2>7, FieldsAssumption DEF CallLast, At, IInv, LeavesOK
      <3>2. Child(f, Fields) \in Frame /\ Child(f, Fields) # f
        BY <3>1, ChildShape
      <3>3. pc[Child(f, Fields)] = "new"
        BY <3>1 DEF IInv, StartedOK
      <3>4. Quiet
        BY <2>7, <3>1, <3>2, <3>3 DEF CallLast, IInv, TypeOK, Starting
      <3> QED
        BY <3>4, NothingPlaced
    <2>8. CASE Sync(w, f)
      <3>1. Quiet
        BY <2>8 DEF Sync, At, IInv, TypeOK, Starting
      <3> QED
        BY <3>1, NothingPlaced
    <2>9. CASE Tie(w, f)
      <3>1. Quiet
        BY <2>9 DEF Tie, At, IInv, TypeOK, Starting
      <3> QED
        BY <3>1, NothingPlaced
    <2>10. CASE ReturnCalled(w, f)
      <3>1. Parent(f) \in Inner /\ Parent(f) \in Frame /\ f = Child(Parent(f), Index(f)) /\ Index(f) \in 1 .. Fields
        BY <2>10, ParentShape, InnerShape DEF ReturnCalled
      <3>2. pc[f] = "return" /\ Parent(f) # f
        BY <2>10, <3>1, ChildShape DEF ReturnCalled, At
      <3>3. pc[Parent(f)] \notin {"return", "done"}
        BY <3>1, <3>2 DEF IInv, JoinOK, Joined
      <3>4. Quiet
        BY <2>10, <3>1, <3>2, <3>3 DEF ReturnCalled, IInv, TypeOK, Starting
      <3> QED
        BY <3>4, NothingPlaced
    <2>11. CASE ReturnPopped(w, f)
      <3>1. Quiet
        BY <2>11 DEF ReturnPopped, At, IInv, TypeOK, Starting
      <3> QED
        BY <3>1, NothingPlaced
    <2>12. CASE ReturnStolen(w, f)
      <3>1. \/ pc' = [pc EXCEPT ![f] = "done"]
            \/ /\ pc[Parent(f)] = "suspended"
               /\ pc' = [[pc EXCEPT ![f] = "done"] EXCEPT ![Parent(f)] = "tie"]
        BY <2>12 DEF ReturnStolen
      <3>2. Quiet
        BY <2>12, <3>1 DEF ReturnStolen, At, IInv, TypeOK, Starting
      <3> QED
        BY <3>2, NothingPlaced
    <2>13. CASE ReturnRoot(w, f)
      <3>1. Quiet
        BY <2>13 DEF ReturnRoot, At, IInv, TypeOK, Starting
      <3> QED
        BY <3>1, NothingPlaced
    <2> QED
      BY <1>3, <2>1, <2>2, <2>3, <2>4, <2>5, <2>6, <2>7, <2>8, <2>9, <2>10, <2>11, <2>12, <2>13 DEF Step
  <1> QED
    BY <1>1, <1>2, <1>3 DEF Next, Work

-----------------------------------------------------------------------------
(***************************************************************************)
(* What the invariant says of whole subtrees, by induction over their      *)
(* depth.                                                                  *)
(***************************************************************************)

\* A call below another has a caller, which is that one or below it too.
LEMMA Caller ==
    ASSUME NEW c \in Frame, NEW d \in Frame, InTree(c, d), c # d
    PROVE  \E g \in Inner, i \in 1 .. Fields :
               d = Child(g, i) /\ g \in Frame /\ InTree(c, g) /\ Len(g) < Len(d)
  <1>1. d # Root
    <2>1. Len(c) # Len(d)
      BY FrameSeq, SameFrame DEF InTree
    <2>2. Len(Root) = 0
      BY DEF Root
    <2> QED
      BY <2>1, <2>2, FrameSeq DEF InTree
  <1>2. PICK g \in Inner, i \in 1 .. Fields : d = Child(g, i) /\ g \in Frame
    BY <1>1, ParentShape, InnerShape
  <1>3. InTree(c, g)
    BY <1>2, ChildTree
  <1>4. Len(g) < Len(d)
    BY <1>2, ChildFields
  <1> QED
    BY <1>2, <1>3, <1>4

\* Below a call that has not begun nothing has, below one that has joined its
\* children everything has ended.
LEMMA TreeOK ==
    ASSUME IInv, NEW c \in Frame, NEW d \in Frame, InTree(c, d), c # d
    PROVE  /\ pc[c] \in Starting => pc[d] = "new"
           /\ pc[c] \in Joined => pc[d] = "done"
  <1> DEFINE Good(b) == /\ pc[c] \in Starting => pc[b] = "new"
                        /\ pc[c] \in Joined => pc[b] = "done"
             T == {Len(b) : b \in {e \in Frame : InTree(c, e) /\ c # e /\ ~Good(e)}}
  <1> SUFFICES ASSUME T # {}
               PROVE  FALSE
    OBVIOUS
  <1>1. T \in SUBSET Nat
    BY FrameSeq
  <1>2. PICK x \in T : \A y \in T : x <= y
    BY <1>1, Least
  <1>3. PICK b \in Frame : InTree(c, b) /\ c # b /\ ~Good(b) /\ x = Len(b)
    BY <1>2
  <1>4. PICK g \in Inner, i \in 1 .. Fields :
          b = Child(g, i) /\ g \in Frame /\ InTree(c, g) /\ Len(g) < Len(b)
    BY <1>3, Caller
  <1>5. g = c \/ Good(g)
    <2>1. Len(g) \in Nat /\ Len(b) \in Nat
      BY FrameSeq, <1>4
    <2>2. Len(g) \notin T
      <3> HIDE DEF T
      <3> QED
        BY <1>2, <1>3, <1>4, <2>1
    <2> QED
      BY <1>4, <2>2
  <1>6. /\ pc[g] \in Starting => pc[b] = "new"
        /\ pc[g] \in Joined => pc[b] = "done"
    BY <1>4 DEF IInv, StartedOK, JoinOK
  <1> QED
    BY <1>3, <1>5, <1>6 DEF Starting, Joined

\* What starts below a call starts in the region of that, or in one made for a
\* call below it.
LEMMA StartsWithin ==
    ASSUME IInv, RegionInv, NEW c \in Frame, NEW d \in Frame, InTree(c, d), loc[d] # None
    PROVE  loc[c] # None /\ (loc[d].reg = loc[c].reg \/ InTree(c, loc[d].reg))
  <1> DEFINE Good(b) == loc[c] # None /\ (loc[b].reg = loc[c].reg \/ InTree(c, loc[b].reg))
             T == {Len(b) : b \in {e \in Frame : InTree(c, e) /\ loc[e] # None /\ ~Good(e)}}
  <1> SUFFICES ASSUME T # {}
               PROVE  FALSE
    OBVIOUS
  <1>1. T \in SUBSET Nat
    BY FrameSeq
  <1>2. PICK x \in T : \A y \in T : x <= y
    BY <1>1, Least
  <1>3. PICK b \in Frame : InTree(c, b) /\ loc[b] # None /\ ~Good(b) /\ x = Len(b)
    BY <1>2
  <1>4. PICK g \in Inner, i \in 1 .. Fields :
          b = Child(g, i) /\ g \in Frame /\ InTree(c, g) /\ Len(g) < Len(b)
    BY <1>3, Caller
  <1>5. loc[g] # None
    <2>1. pc[g] \notin Starting
      BY <1>3, <1>4 DEF RegionInv, UnsetOK
    <2> QED
      BY <1>4, <2>1, NoneAssumption DEF IInv, LocOK, Starting
  <1>6. Good(g)
    <2>1. Len(g) \in Nat /\ Len(b) \in Nat
      BY FrameSeq, <1>4
    <2>2. Len(g) \notin T
      <3> HIDE DEF T
      <3> QED
        BY <1>2, <1>3, <1>4, <2>1
    <2> QED
      BY <1>4, <1>5, <2>2
  <1>7. \/ loc[b].reg \in {loc[g].reg, b}
        \/ \E k \in 1 .. i - 1 : InTree(Child(g, k), loc[b].reg)
    BY <1>3, <1>4 DEF RegionInv, PlaceOK
  <1>8. loc[b].reg \in Frame
    BY <1>3 DEF IInv, TypeOK, Address
  <1>9. ASSUME NEW k \in 1 .. i - 1, InTree(Child(g, k), loc[b].reg)
        PROVE  InTree(c, loc[b].reg)
    <2>1. k \in 1 .. Fields
      BY <1>4, FieldsAssumption
    <2>2. Child(g, k) \in Frame /\ InTree(g, Child(g, k))
      BY <1>4, <2>1, ChildShape, ChildTree
    <2>3. InTree(c, Child(g, k))
      BY <1>4, <2>2, TreeOrder
    <2> QED
      BY <1>8, <1>9, <2>2, <2>3, TreeOrder
  <1> QED
    BY <1>3, <1>6, <1>7, <1>9

\* No call starts in a region that was made below it.
LEMMA StartsAbove ==
    ASSUME IInv, RegionInv, NEW f \in Frame, loc[f] # None, InTree(f, loc[f].reg)
    PROVE  loc[f].reg = f
  <1> DEFINE Bad(b) == loc[b] # None /\ InTree(b, loc[b].reg) /\ loc[b].reg # b
             T == {Len(b) : b \in {e \in Frame : Bad(e)}}
  <1> SUFFICES ASSUME T # {}
               PROVE  FALSE
    OBVIOUS
  <1>1. T \in SUBSET Nat
    BY FrameSeq
  <1>2. PICK x \in T : \A y \in T : x <= y
    BY <1>1, Least
  <1>3. PICK b \in Frame : Bad(b) /\ x = Len(b)
    BY <1>2
  <1>4. b # Root
    BY <1>3 DEF RegionInv, RootOK, RegionStart
  <1>5. PICK g \in Inner, i \in 1 .. Fields : b = Child(g, i) /\ g \in Frame
    BY <1>4, ParentShape, InnerShape
  <1>6. Len(g) < Len(b) /\ InTree(g, b) /\ ~InTree(b, g)
    BY <1>5, ChildFields, ChildTree
  <1>7. loc[g] # None
    <2>1. pc[g] \notin Starting
      BY <1>3, <1>5 DEF RegionInv, UnsetOK
    <2> QED
      BY <1>5, <2>1, NoneAssumption DEF IInv, LocOK, Starting
  <1>8. loc[b].reg \in Frame
    BY <1>3 DEF IInv, TypeOK, Address
  <1>9. \/ loc[b].reg = loc[g].reg
        \/ \E k \in 1 .. i - 1 : InTree(Child(g, k), loc[b].reg)
    BY <1>3, <1>5 DEF RegionInv, PlaceOK
  <1>10. CASE loc[b].reg = loc[g].reg
    <2>1. InTree(g, loc[g].reg) /\ loc[g].reg # g
      BY <1>3, <1>5, <1>6, <1>8, <1>10, TreeOrder
    <2>2. Len(g) \in T
      BY <1>5, <1>7, <2>1
    <2>3. Len(g) \in Nat /\ Len(b) \in Nat
      BY FrameSeq, <1>5
    <2> HIDE DEF T, Bad
    <2> QED
      BY <1>2, <1>3, <1>6, <2>2, <2>3
  <1>11. ASSUME NEW k \in 1 .. i - 1, InTree(Child(g, k), loc[b].reg)
         PROVE  FALSE
    <2>1. k \in 1 .. Fields /\ k # i
      BY <1>5, FieldsAssumption
    <2> QED
      BY <1>3, <1>5, <1>8, <1>11, <2>1, ChildTree
  <1> QED
    BY <1>9, <1>10, <1>11

-----------------------------------------------------------------------------
(***************************************************************************)
(* Nobody writes where another does.                                       *)
(***************************************************************************)
Writing == {"entry", "tie", "construct"}

\* A call writes to the region of its location, or to those that were made for
\* calls below it.
LEMMA WritesWithin ==
    ASSUME IInv, RegionInv, NEW f \in Frame, NEW r \in WritesTo(f)
    PROVE  /\ pc[f] \in Writing
           /\ loc[f] # None
           /\ r \in Frame
           /\ r = loc[f].reg \/ InTree(f, r)
  <1>1. pc[f] \in Writing
    BY DEF WritesTo, Writing
  <1>2. loc[f] \in Address /\ loc[f] # None /\ loc[f].reg \in Frame
    BY <1>1, NoneAssumption DEF IInv, LocOK, Writing, Address
  <1>3. CASE pc[f] # "tie"
    BY <1>1, <1>2, <1>3 DEF WritesTo, Writing
  <1>4. CASE pc[f] = "tie"
    <2>1. PICK i \in TiedFields(f) : r = end[Child(f, i - 1)].reg
      BY <1>4 DEF WritesTo, TieFrom
    <2>2. f \in Inner /\ i - 1 \in 1 .. Fields
      BY <1>4, <2>1, FieldsAssumption DEF IInv, LeavesOK, TiedFields
    <2> DEFINE c == Child(f, i - 1)
    <2>3. c \in Frame /\ end[c] \in Address /\ loc[c] \in Address /\ InTree(f, c)
      <3>1. c \in Frame /\ InTree(f, c)
        BY <2>2, ChildShape, ChildTree
      <3>2. end[c] \in Address /\ pc[c] = "done"
        BY <1>4, <2>2, FieldsEnd DEF Joined, IInv, JoinOK
      <3> QED
        BY <3>1, <3>2 DEF IInv, LocOK
    <2>4. end[c].reg \in Frame
      BY <2>3 DEF Address
    <2>5. end[c].reg = loc[c].reg \/ InTree(c, end[c].reg)
      BY <2>3, AddressShape DEF RegionInv, EndOK
    <2>6. loc[c].reg = loc[f].reg \/ InTree(f, loc[c].reg)
      BY <2>3, StartsWithin, AddressShape
    <2>7. InTree(c, end[c].reg) => InTree(f, end[c].reg)
      BY <2>3, <2>4, TreeOrder
    <2> QED
      BY <1>1, <1>2, <2>1, <2>4, <2>5, <2>6, <2>7
  <1> QED
    BY <1>3, <1>4

\* While both write, what a later field writes lies behind an earlier one.
LEMMA SiblingsApart ==
    ASSUME IInv, RegionInv, NEW h \in Inner,
           NEW i \in 1 .. Fields, NEW j \in 1 .. Fields, i < j,
           NEW f \in Frame, InTree(Child(h, i), f),
           NEW g \in Frame, InTree(Child(h, j), g),
           NEW r, r \in WritesTo(f), r \in WritesTo(g)
    PROVE  FALSE
  <1> DEFINE c == Child(h, i)
             d == Child(h, j)
  <1>1. c \in Frame /\ d \in Frame /\ h \in Frame
    BY ChildShape
  <1>2. /\ pc[f] \in Writing /\ loc[f] # None /\ r \in Frame
        /\ r = loc[f].reg \/ InTree(f, r)
        /\ pc[g] \in Writing /\ loc[g] # None
        /\ r = loc[g].reg \/ InTree(g, r)
    BY WritesWithin
  <1>3. pc[c] # "done"
    BY <1>1, <1>2, TreeOK DEF Joined, Writing
  <1>4. pc[d] # "new"
    BY <1>1, <1>2, TreeOK DEF Starting, Writing
  <1>5. j <= child[h]
    <2>1. j < child[h] \/ j = child[h]
      BY <1>4 DEF IInv, StartedOK
    <2>2. child[h] \in 1 .. Fields
      BY <1>1 DEF IInv, TypeOK
    <2> QED
      BY <2>1, <2>2, FieldsAssumption
  <1>6. PICK k \in i + 1 .. j : InTree(Child(h, k), loc[d].reg)
    BY <1>3, <1>5 DEF RegionInv, AfterOK
  <1>7. \E l \in i + 1 .. j : InTree(Child(h, l), r)
    <2>1. j \in i + 1 .. j
      BY FieldsAssumption
    <2>2. loc[g].reg = loc[d].reg \/ InTree(d, loc[g].reg)
      BY <1>1, <1>2, StartsWithin
    <2>3. InTree(g, r) => InTree(d, r)
      BY <1>1, <1>2, TreeOrder
    <2> QED
      BY <1>2, <1>6, <2>1, <2>2, <2>3
  <1>8. PICK l \in i + 1 .. j : InTree(Child(h, l), r)
    BY <1>7
  <1>9. l \in 1 .. Fields /\ l # i /\ \A m \in 1 .. i - 1 : m \in 1 .. Fields /\ m # l
    BY FieldsAssumption
  <1>10. ~InTree(c, r)
    BY <1>2, <1>8, <1>9, ChildTree
  <1>11. r = loc[c].reg /\ loc[c] # None
    <2>1. loc[c] # None /\ (loc[f].reg = loc[c].reg \/ InTree(c, loc[f].reg))
      BY <1>1, <1>2, StartsWithin
    <2>2. InTree(f, r) => InTree(c, r)
      BY <1>1, <1>2, TreeOrder
    <2> QED
      BY <1>2, <1>10, <2>1, <2>2
  <1>12. \/ r \in {loc[h].reg, c}
         \/ \E m \in 1 .. i - 1 : InTree(Child(h, m), r)
    BY <1>11 DEF RegionInv, PlaceOK
  <1>13. r # c
    BY <1>1, <1>10, TreeOrder
  <1>14. ~\E m \in 1 .. i - 1 : InTree(Child(h, m), r)
    BY <1>2, <1>8, <1>9, ChildTree
  <1>15. r # loc[h].reg
    <2>1. loc[h] # None
      BY <1>1, <1>2, <1>11, StartsWithin, ChildTree
    <2>2. Child(h, l) \in Frame /\ InTree(h, Child(h, l)) /\ ~InTree(Child(h, l), h)
      BY <1>9, ChildShape, ChildTree
    <2>3. InTree(h, r) /\ r # h
      BY <1>1, <1>2, <1>8, <2>2, TreeOrder
    <2> QED
      BY <1>1, <2>1, <2>3, StartsAbove
  <1> QED
    BY <1>12, <1>13, <1>14, <1>15

\* Two workers that write are at calls below different fields of one call, and the
\* invariant keeps those apart.
LEMMA RegionInvSafe == IInv /\ RegionInv => OneWriterPerRegion
  <1> SUFFICES ASSUME IInv, RegionInv, NEW f \in Frame, NEW g \in Frame, f # g,
                      NEW r, r \in WritesTo(f), r \in WritesTo(g)
               PROVE  FALSE
    BY DEF OneWriterPerRegion
  <1>1. pc[f] \in Writing /\ pc[g] \in Writing
    BY WritesWithin
  <1>2. ~InTree(f, g) /\ ~InTree(g, f)
    BY <1>1, TreeOK DEF Writing, Starting, Joined
  <1>3. PICK h \in Inner, i, j \in 1 .. Fields :
          i # j /\ InTree(Child(h, i), f) /\ InTree(Child(h, j), g)
    BY <1>2, Apart
  <1>4. i < j \/ j < i
    BY <1>3, FieldsAssumption
  <1> QED
    BY <1>3, <1>4, SiblingsApart

-----------------------------------------------------------------------------
(* The invariant holds in every reachable state. *)
THEOREM ParRegionInv == Spec => [](IInv /\ RegionInv)
  BY InitIInv, InitRegionInv, NextIInv, NextRegionInv, PTL DEF Spec

(* Two workers never write to one region at the same time, whatever is stolen
   (Codegen.hs, NewParBuffer: regions have no lock). *)
THEOREM ParOneWriterPerRegion == Spec => []OneWriterPerRegion
  BY ParRegionInv, RegionInvSafe, PTL
=============================================================================

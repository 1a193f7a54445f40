-------------------------- MODULE ParProgressProofs -------------------------
(***************************************************************************)
(* Parallel calls never wait for each other for ever: as long as the       *)
(* program has not ended somebody executes a call, for any number of       *)
(* workers, any constructor, any tree of calls and any thefts.             *)
(***************************************************************************)
EXTENDS ParAllocProofs

(***************************************************************************)
(* The inductive invariant.                                                *)
(***************************************************************************)

\* The spawned calls that f has made have returned, except perhaps c.
QuietBut(f, c) ==
    f \in Inner => \A i \in 1 .. Fields - 1 : Child(f, i) # c => pc[Child(f, i)] \in {"new", "done"}
Quiet(f) ==
    f \in Inner => \A i \in 1 .. Fields - 1 : pc[Child(f, i)] \in {"new", "done"}

\* f was reached from d by ordinary calls only, and they have nothing running
\* beside them.
CalledFrom(d, f) ==
    /\ InTree(d, f)
    /\ \A x \in Frame : InTree(d, x) /\ InTree(x, f) =>
         /\ x # d => ~Spawned(x)
         /\ x # f => pc[x] = "calling" /\ Quiet(x)

\* A worker without a call has nothing on its deque.
IdleOK == \A w \in Worker : run[w] = None => deque[w] = <<>>

\* A worker works on what was called from the youngest continuation of its deque,
\* and each of those was called from the one before it.
YoungestOK ==
    \A w \in Worker : run[w] # None /\ deque[w] # <<>>
        => CalledFrom(deque[w][Len(deque[w])], run[w]) /\ Quiet(run[w])
YoungerOK ==
    \A w \in Worker : \A k \in 1 .. Len(deque[w]) - 1 :
        LET d == deque[w][k + 1]
        IN CalledFrom(deque[w][k], Parent(d)) /\ QuietBut(Parent(d), d)

\* Who has something to execute is executed or waits on a deque.
ActiveOK ==
    \A f \in Frame : pc[f] \in Executed =>
        \/ \E w \in Worker : run[w] = f
        \/ /\ pc[f] = "spawned"
           /\ \E w \in Worker : \E k \in 1 .. Len(deque[w]) : deque[w][k] = Child(f, child[f])

\* Who is suspended waits for a call that has not returned.
SuspendedOK == \A f \in Inner : pc[f] = "suspended" => ~SpawnedDone(f, pc)

\* Only so many calls have begun.
BegunOK ==
    /\ pc[Root] # "new"
    /\ \E n \in Nat : \A f \in Frame : pc[f] # "new" => Len(f) <= n

ProgressInv ==
    /\ IdleOK
    /\ YoungestOK
    /\ YoungerOK
    /\ ActiveOK
    /\ SuspendedOK
    /\ BegunOK

\* Nothing waits when the program starts.
LEMMA InitProgressInv == Init => ProgressInv
  <1> SUFFICES ASSUME Init
               PROVE  ProgressInv
    OBVIOUS
  <1>1. IdleOK /\ YoungestOK /\ YoungerOK
    BY DEF Init, IdleOK, YoungestOK, YoungerOK
  <1>2. ASSUME NEW f \in Frame, pc[f] # "new"
        PROVE  f = Root /\ pc[f] = "entry"
    BY <1>2 DEF Init
  <1>3. ActiveOK
    <2>1. pc[Root] = "entry" => \E w \in Worker : run[w] = Root
      <3>1. Main \in Worker
        BY WorkerAssumption DEF Main
      <3> QED
        BY <3>1 DEF Init
    <2> QED
      BY <1>2, <2>1 DEF ActiveOK, Executed
  <1>4. SuspendedOK
    BY <1>2, InnerShape DEF SuspendedOK
  <1>5. BegunOK
    <2>1. Len(Root) = 0
      BY DEF Root
    <2>2. pc[Root] # "new"
      BY RootShape DEF Init
    <2> QED
      BY <1>2, <2>1, <2>2 DEF BegunOK
  <1> QED
    BY <1>1, <1>3, <1>4, <1>5 DEF ProgressInv

-----------------------------------------------------------------------------
\* What a step of the call f on worker w does to calls: only its child begins, only
\* the call that made it returns from an ordinary call, and what is executed
\* afterwards was so before or is executed by w.
Effect(w, f) ==
    /\ f \in Frame /\ run[w] = f /\ pc[f] \in Executed
    /\ \A v \in Worker \ {w} : run'[v] = run[v] /\ deque'[v] = deque[v]
    /\ \A c \in Frame : /\ pc[c] = "done" => pc'[c] = "done"
                        /\ pc[c] # "new" => pc'[c] # "new"
                        /\ pc[c] = "new" /\ pc'[c] # "new"
                             => f \in Inner /\ pc[f] = "build" /\ c = Child(f, child[f])
                        /\ pc[c] = "calling" /\ pc'[c] # "calling"
                             => pc[f] = "return" /\ f # Root /\ ~Spawned(f) /\ c = Parent(f)
                        /\ pc'[c] \in Executed
                             => \/ run'[w] = c
                                \/ c # f /\ pc'[c] = pc[c] /\ child'[c] = child[c]
                                \/ /\ c = f /\ pc[f] = "build" /\ pc'[c] = "spawned" /\ child'[c] = child[c]
                                   /\ deque'[w] = Append(deque[w], Child(f, child[f]))

\* That is what each of the steps does.
LEMMA StepEffect ==
    ASSUME IInv, NEW w \in Worker, NEW f \in Frame, Step(w, f)
    PROVE  Effect(w, f)
  <1>1. /\ pc \in [Frame -> PC] /\ run \in [Worker -> Frame \cup {None}]
        /\ child \in [Frame -> 1 .. Fields] /\ deque \in [Worker -> Seq(Frame)]
    BY DEF IInv, TypeOK
  <1>2. ASSUME run[w] = f, pc[f] \in {"entry", "build", "spawned", "sync", "tie", "construct"}
        PROVE  pc[f] \in Executed
    BY <1>2 DEF Executed
  <1>3. CASE WriteLeaf(w, f) \/ Tie(w, f) \/ Construct(w, f) \/ StartFields(w, f)
    <2>1. /\ run[w] = f /\ pc[f] \in {"entry", "tie", "construct"}
          /\ \E at \in {"build", "return", "construct"} : pc' = [pc EXCEPT ![f] = at]
          /\ UNCHANGED <<run, deque, child>>
      BY <1>3 DEF WriteLeaf, Tie, Construct, StartFields, At
    <2> QED
      BY <1>1, <1>2, <2>1 DEF Effect
  <1>4. CASE AfterAvailable(w, f) \/ FreshRegion(w, f)
    <2>1. /\ run[w] = f /\ pc[f] = "spawned"
          /\ pc' = [pc EXCEPT ![f] = "build"]
          /\ \A c \in Frame : c # f => child'[c] = child[c]
          /\ UNCHANGED <<run, deque>>
      BY <1>1, <1>4 DEF AfterAvailable, FreshRegion, At
    <2> QED
      BY <1>1, <1>2, <2>1 DEF Effect
  <1>5. CASE Spawn(w, f) \/ CallLast(w, f)
    <2> DEFINE c == Child(f, child[f])
    <2>1. run[w] = f /\ pc[f] = "build" /\ UNCHANGED child
      BY <1>5 DEF Spawn, CallLast, At
    <2>2. f \in Inner /\ child[f] \in 1 .. Fields
      BY <1>1, <2>1 DEF IInv, LeavesOK
    <2>3. c \in Frame /\ c # f /\ pc[c] = "new"
      BY <2>1, <2>2, ChildShape DEF IInv, StartedOK
    <2>4. /\ run' = [run EXCEPT ![w] = c]
          /\ \E at \in {"spawned", "calling"} :
               /\ pc' = [pc EXCEPT ![f] = at, ![c] = "entry"]
               /\ at = "spawned" => deque' = [deque EXCEPT ![w] = Append(@, c)]
               /\ at = "calling" => UNCHANGED deque
      BY <1>5 DEF Spawn, CallLast
    <2> HIDE DEF c
    <2>5. \A d \in Frame : d # f /\ d # c => pc'[d] = pc[d]
      BY <1>1, <2>4
    <2>6. pc'[c] = "entry" /\ run'[w] = c
      BY <1>1, <2>3, <2>4
    <2>7. pc'[f] = "calling" \/ (pc'[f] = "spawned" /\ deque'[w] = Append(deque[w], c))
      BY <1>1, <2>3, <2>4
    <2>8. \A v \in Worker \ {w} : run'[v] = run[v] /\ deque'[v] = deque[v]
      BY <1>1, <2>4
    <2> QED
      BY <1>2, <2>1, <2>2, <2>3, <2>5, <2>6, <2>7, <2>8 DEF Effect, Executed, c
  <1>6. CASE Sync(w, f)
    <2>1. /\ run[w] = f /\ pc[f] = "sync" /\ UNCHANGED <<deque, child>>
          /\ \/ pc' = [pc EXCEPT ![f] = "tie"] /\ UNCHANGED run
             \/ pc' = [pc EXCEPT ![f] = "suspended"] /\ run' = [run EXCEPT ![w] = None]
      BY <1>6 DEF Sync, At
    <2> QED
      BY <1>1, <1>2, <2>1 DEF Effect, Executed
  <1>7. CASE ReturnCalled(w, f)
    <2> DEFINE p == Parent(f)
    <2>1. run[w] = f /\ pc[f] = "return" /\ f # Root /\ ~Spawned(f) /\ UNCHANGED <<deque, child>>
      BY <1>7 DEF ReturnCalled, At
    <2>2. p \in Inner /\ p \in Frame /\ Index(f) \in 1 .. Fields /\ f = Child(p, Index(f)) /\ p # f
      BY <2>1, ParentShape, ChildShape
    <2>3. pc[p] # "new" /\ pc[p] # "done"
      <3>1. pc[p] \notin Starting
        BY <2>1, <2>2 DEF IInv, StartedOK
      <3>2. pc[p] # "done"
        BY <2>1, <2>2 DEF IInv, JoinOK, Joined
      <3> QED
        BY <3>1, <3>2 DEF Starting
    <2>4. run' = [run EXCEPT ![w] = p] /\ pc' = [pc EXCEPT ![f] = "done", ![p] = "sync"]
      BY <1>7 DEF ReturnCalled
    <2> HIDE DEF p
    <2>5. /\ pc'[f] = "done" /\ pc'[p] = "sync" /\ run'[w] = p
          /\ \A c \in Frame : c # f /\ c # p => pc'[c] = pc[c]
          /\ \A v \in Worker \ {w} : run'[v] = run[v]
      BY <1>1, <2>2, <2>4
    <2> QED
      BY <2>1, <2>2, <2>3, <2>5 DEF Effect, Executed, p
  <1>8. CASE ReturnPopped(w, f) \/ ReturnRoot(w, f)
    <2>1. /\ run[w] = f /\ pc[f] = "return" /\ pc' = [pc EXCEPT ![f] = "done"] /\ UNCHANGED child
          /\ \A v \in Worker \ {w} : run'[v] = run[v] /\ deque'[v] = deque[v]
      BY <1>1, <1>8 DEF ReturnPopped, ReturnRoot, At
    <2> QED
      BY <1>1, <2>1 DEF Effect, Executed
  <1>9. CASE ReturnStolen(w, f)
    <2> DEFINE p == Parent(f)
    <2>1. run[w] = f /\ pc[f] = "return" /\ f # Root /\ UNCHANGED <<deque, child>>
      BY <1>9 DEF ReturnStolen, At, Spawned
    <2>2. p \in Frame /\ p # f
      BY <2>1, ParentShape, ChildShape
    <2>3. \/ /\ pc[p] = "suspended"
             /\ run' = [run EXCEPT ![w] = p] /\ pc' = [pc EXCEPT ![f] = "done", ![p] = "tie"]
          \/ run' = [run EXCEPT ![w] = None] /\ pc' = [pc EXCEPT ![f] = "done"]
      BY <1>9 DEF ReturnStolen
    <2> HIDE DEF p
    <2>4. CASE /\ pc[p] = "suspended"
               /\ run' = [run EXCEPT ![w] = p] /\ pc' = [pc EXCEPT ![f] = "done", ![p] = "tie"]
      BY <1>1, <2>1, <2>2, <2>4 DEF Effect, Executed
    <2>5. CASE run' = [run EXCEPT ![w] = None] /\ pc' = [pc EXCEPT ![f] = "done"]
      BY <1>1, <2>1, <2>2, <2>5 DEF Effect, Executed
    <2> QED
      BY <2>3, <2>4, <2>5
  <1> QED
    BY <1>3, <1>4, <1>5, <1>6, <1>7, <1>8, <1>9 DEF Step

\* A path of ordinary calls goes on from each of its calls to the last field.
LEMMA PathGoesOn ==
    ASSUME NEW d \in Frame, NEW g \in Frame, CalledFrom(d, g), NEW x \in Frame,
           InTree(d, x), InTree(x, g), x # g
    PROVE  /\ x \in Inner /\ Child(x, Fields) \in Frame
           /\ InTree(d, Child(x, Fields)) /\ InTree(Child(x, Fields), g)
  <1>1. x \in Inner /\ \E i \in 1 .. Fields : InTree(Child(x, i), g)
    BY Below
  <1>2. PICK i \in 1 .. Fields : InTree(Child(x, i), g)
    BY <1>1
  <1>3. /\ Child(x, i) \in Frame /\ Child(x, i) # Root /\ Index(Child(x, i)) = i
        /\ InTree(x, Child(x, i)) /\ ~InTree(Child(x, i), x)
    BY <1>1, ChildShape, ChildTree
  <1>4. InTree(d, Child(x, i)) /\ Child(x, i) # d
    BY <1>3, TreeOrder
  <1>5. ~Spawned(Child(x, i))
    BY <1>2, <1>3, <1>4 DEF CalledFrom
  <1>6. i = Fields
    BY <1>3, <1>5, FieldsAssumption DEF Spawned
  <1> QED
    BY <1>1, <1>2, <1>3, <1>4, <1>6

\* A step keeps quiet what it does not execute, or what begins no call.
LEMMA QuietKept ==
    ASSUME IInv, NEW w \in Worker, NEW f \in Frame, Effect(w, f), NEW g \in Frame,
           g # f \/ pc[f] # "build"
    PROVE  /\ Quiet(g) => Quiet(g)'
           /\ \A c : QuietBut(g, c) => QuietBut(g, c)'
  <1>1. ASSUME g \in Inner, NEW i \in 1 .. Fields - 1, pc[Child(g, i)] \in {"new", "done"}
        PROVE  pc'[Child(g, i)] \in {"new", "done"}
    <2>1. i \in 1 .. Fields /\ Child(g, i) \in Frame
      BY <1>1, ChildShape, FieldsAssumption
    <2>2. f \in Inner /\ pc[f] = "build" => Child(g, i) # Child(f, child[f])
      <3>1. child[f] \in 1 .. Fields
        BY DEF IInv, TypeOK
      <3> QED
        BY <1>1, <2>1, <3>1, ChildShape
    <2> QED
      BY <1>1, <2>1, <2>2 DEF Effect
  <1> QED
    BY <1>1 DEF Quiet, QuietBut

\* Nobody else comes between: a path of ordinary calls is only cut at its end, by
\* the return of the call that is executed there.
LEMMA PathKept ==
    ASSUME IInv, NEW w \in Worker, NEW f \in Frame, Effect(w, f),
           NEW d \in Frame, NEW g \in Frame, CalledFrom(d, g), g # f \/ pc[f] # "return"
    PROVE  CalledFrom(d, g)'
  <1> SUFFICES ASSUME NEW x \in Frame, InTree(d, x), InTree(x, g), x # g
               PROVE  pc'[x] = "calling" /\ Quiet(x)'
    BY DEF CalledFrom
  <1>1. pc[x] = "calling" /\ Quiet(x)
    BY DEF CalledFrom
  <1>2. x # f
    BY <1>1 DEF Effect, Executed
  <1>3. Quiet(x)'
    BY <1>1, <1>2, QuietKept
  <1>4. ASSUME pc'[x] # "calling"
        PROVE  FALSE
    <2>1. pc[f] = "return" /\ f # Root /\ ~Spawned(f) /\ x = Parent(f)
      BY <1>1, <1>4 DEF Effect
    <2>2. Index(f) \in 1 .. Fields /\ f = Child(x, Index(f))
      BY <2>1, ParentShape
    <2>3. f = Child(x, Fields)
      BY <2>1, <2>2, FieldsAssumption DEF Spawned
    <2>4. InTree(d, f) /\ InTree(f, g) /\ f # g
      BY <2>1, <2>3, PathGoesOn
    <2> QED
      BY <2>1, <2>4 DEF CalledFrom
  <1> QED
    BY <1>3, <1>4

\* A call that begins has made no calls, so nothing is beside it.
LEMMA NewQuiet ==
    ASSUME IInv, NEW c \in Frame, pc[c] \in Starting
    PROVE  Quiet(c) /\ CalledFrom(c, c)
  <1>1. Quiet(c)
    <2>1. ASSUME c \in Inner, NEW i \in 1 .. Fields - 1
          PROVE  pc[Child(c, i)] = "new"
      <3>1. i \in 1 .. Fields
        BY FieldsAssumption
      <3> QED
        BY <2>1, <3>1 DEF IInv, StartedOK
    <2> QED
      BY <2>1 DEF Quiet
  <1>2. CalledFrom(c, c)
    BY TreeOrder DEF CalledFrom
  <1> QED
    BY <1>1, <1>2

\* The youngest continuation of a worker, and the calls that those on its deque
\* return to.
LEMMA DequeShape ==
    ASSUME IInv, NEW v \in Worker
    PROVE  /\ deque[v] \in Seq(Frame) /\ Len(deque[v]) \in Nat
           /\ \A k \in 1 .. Len(deque[v]) :
                /\ deque[v][k] \in Frame /\ Spawned(deque[v][k]) /\ deque[v][k] # Root
                /\ Parent(deque[v][k]) \in Frame
                /\ pc[Parent(deque[v][k])] = "spawned"
                /\ \A u \in Worker : run[u] # Parent(deque[v][k])
           /\ deque[v] # <<>> => Len(deque[v]) \in 1 .. Len(deque[v])
  <1>1. deque[v] \in Seq(Frame) /\ Len(deque[v]) \in Nat
    BY DEF IInv, TypeOK
  <1>2. deque[v] # <<>> => Len(deque[v]) \in 1 .. Len(deque[v])
    BY <1>1
  <1> QED
    BY <1>1, <1>2, Waiting DEF IInv, DequeOK, Spawned

\* What a step leaves alone on the deques stays in order: d is older than e.
LEMMA YoungerKept ==
    ASSUME IInv, YoungerOK, NEW w \in Worker, NEW f \in Frame, Effect(w, f),
           NEW v \in Worker, NEW k \in 1 .. Len(deque[v]) - 1,
           NEW d, d = deque[v][k], NEW e, e = deque[v][k + 1]
    PROVE  CalledFrom(d, Parent(e))' /\ QuietBut(Parent(e), e)'
  <1>1. Len(deque[v]) \in Nat /\ k \in 1 .. Len(deque[v]) /\ k + 1 \in 1 .. Len(deque[v])
    BY DequeShape
  <1>2. d \in Frame /\ Parent(e) \in Frame /\ Parent(e) # f
    BY <1>1, DequeShape DEF Effect
  <1>3. CalledFrom(d, Parent(e)) /\ QuietBut(Parent(e), e)
    BY DEF YoungerOK
  <1> QED
    BY <1>2, <1>3, PathKept, QuietKept

\* The same of what another worker executes.
LEMMA OtherYoungest ==
    ASSUME IInv, YoungestOK, NEW w \in Worker, NEW f \in Frame, Effect(w, f),
           NEW v \in Worker \ {w}, run[v] # None, deque[v] # <<>>
    PROVE  (CalledFrom(deque[v][Len(deque[v])], run[v]) /\ Quiet(run[v]))'
  <1>1. run[v] \in Frame /\ run[v] # f
    BY DEF IInv, TypeOK, RunOK, Effect
  <1>2. PICK d \in Frame, g \in Frame : d = deque[v][Len(deque[v])] /\ g = run[v]
    BY <1>1, DequeShape
  <1>3. CalledFrom(d, g) /\ Quiet(g)
    BY <1>2 DEF YoungestOK
  <1>4. CalledFrom(d, g)' /\ Quiet(g)'
    BY <1>1, <1>2, <1>3, PathKept, QuietKept
  <1>5. deque'[v] = deque[v] /\ run'[v] = run[v]
    BY DEF Effect
  <1> QED
    BY <1>2, <1>4, <1>5

\* After a step of w it is the deque of w that has to be looked at.
LEMMA OthersKept ==
    ASSUME IInv, YoungerOK, YoungestOK, IdleOK, NEW w \in Worker, NEW f \in Frame, Effect(w, f),
           run'[w] = None => deque'[w] = <<>>,
           run'[w] # None /\ deque'[w] # <<>>
             => (CalledFrom(deque[w][Len(deque[w])], run[w]) /\ Quiet(run[w]))',
           \A k \in 1 .. Len(deque'[w]) - 1 :
             (CalledFrom(deque[w][k], Parent(deque[w][k + 1]))
               /\ QuietBut(Parent(deque[w][k + 1]), deque[w][k + 1]))'
    PROVE  IdleOK' /\ YoungestOK' /\ YoungerOK'
  <1>1. \A v \in Worker \ {w} : deque'[v] = deque[v] /\ run'[v] = run[v]
    BY DEF Effect
  <1>2. IdleOK'
    BY <1>1 DEF IdleOK
  <1>3. YoungestOK'
    <2> SUFFICES ASSUME NEW v \in Worker, run'[v] # None, deque'[v] # <<>>
                 PROVE  (CalledFrom(deque[v][Len(deque[v])], run[v]) /\ Quiet(run[v]))'
      BY DEF YoungestOK
    <2>1. CASE v = w
      BY <2>1
    <2>2. CASE v # w
      BY <1>1, <2>2, OtherYoungest
    <2> QED
      BY <2>1, <2>2
  <1>4. YoungerOK'
    <2> SUFFICES ASSUME NEW v \in Worker, NEW k \in 1 .. Len(deque'[v]) - 1
                 PROVE  (CalledFrom(deque[v][k], Parent(deque[v][k + 1]))
                          /\ QuietBut(Parent(deque[v][k + 1]), deque[v][k + 1]))'
      BY DEF YoungerOK
    <2>1. CASE v = w
      BY <2>1
    <2>2. CASE v # w
      <3>1. PICK d, e : d = deque[v][k] /\ e = deque[v][k + 1]
        OBVIOUS
      <3>2. CalledFrom(d, Parent(e))' /\ QuietBut(Parent(e), e)'
        BY <1>1, <2>2, <3>1, YoungerKept
      <3> QED
        BY <1>1, <2>2, <3>1, <3>2
    <2> QED
      BY <2>1, <2>2
  <1> QED
    BY <1>2, <1>3, <1>4

\* A step after which w has the deque that it had before.
LEMMA SameDeque ==
    ASSUME IInv, YoungerOK, YoungestOK, IdleOK, NEW w \in Worker, NEW f \in Frame, Effect(w, f),
           deque'[w] = deque[w],
           run'[w] = None => deque[w] = <<>>,
           run'[w] # None /\ deque[w] # <<>>
             => (CalledFrom(deque[w][Len(deque[w])], run[w]) /\ Quiet(run[w]))'
    PROVE  IdleOK' /\ YoungestOK' /\ YoungerOK'
  <1>1. ASSUME NEW k \in 1 .. Len(deque'[w]) - 1
        PROVE  (CalledFrom(deque[w][k], Parent(deque[w][k + 1]))
                 /\ QuietBut(Parent(deque[w][k + 1]), deque[w][k + 1]))'
    <2>1. PICK d, e : d = deque[w][k] /\ e = deque[w][k + 1]
      OBVIOUS
    <2>2. CalledFrom(d, Parent(e))' /\ QuietBut(Parent(e), e)'
      BY <2>1, YoungerKept
    <2> QED
      BY <2>1, <2>2
  <1> QED
    BY <1>1, OthersKept

-----------------------------------------------------------------------------
(***************************************************************************)
(* The order of the deques, one lemma per step.                            *)
(***************************************************************************)
InOrder == IdleOK /\ YoungestOK /\ YoungerOK

\* What w executes was called from its youngest continuation.
LEMMA Youngest ==
    ASSUME IInv, InOrder, NEW w \in Worker, NEW f \in Frame, run[w] = f, deque[w] # <<>>
    PROVE  \E d \in Frame : /\ d = deque[w][Len(deque[w])]
                            /\ d # Root /\ Spawned(d)
                            /\ CalledFrom(d, f) /\ Quiet(f)
  <1>1. f # None
    BY NoneAssumption
  <1> QED
    BY <1>1, DequeShape DEF InOrder, YoungestOK

\* w goes on with the same call.
LEMMA StaysOrder ==
    ASSUME IInv, InOrder, NEW w \in Worker, NEW f \in Frame, Effect(w, f),
           run'[w] = f, deque'[w] = deque[w], pc[f] \notin {"build", "return"}
    PROVE  InOrder'
  <1>1. ASSUME deque[w] # <<>>
        PROVE  (CalledFrom(deque[w][Len(deque[w])], run[w]) /\ Quiet(run[w]))'
    <2>1. PICK d \in Frame : d = deque[w][Len(deque[w])] /\ CalledFrom(d, f) /\ Quiet(f)
      BY <1>1, Youngest DEF Effect
    <2>2. CalledFrom(d, f)' /\ Quiet(f)'
      BY <2>1, PathKept, QuietKept
    <2> QED
      BY <2>1, <2>2
  <1>2. run'[w] # None
    BY NoneAssumption
  <1> QED
    BY <1>1, <1>2, SameDeque DEF InOrder

\* Nothing waits on the deque of a worker whose call is given up.
LEMMA LeavesOrder ==
    ASSUME IInv, InOrder, NEW w \in Worker, NEW f \in Frame, Effect(w, f),
           deque[w] = <<>>, deque'[w] = deque[w]
    PROVE  InOrder'
  BY SameDeque DEF InOrder

\* NewQuiet as a statement about one state.
LEMMA NewQuietNow == \A c \in Frame : IInv /\ pc[c] \in Starting => Quiet(c) /\ CalledFrom(c, c)
  BY NewQuiet

\* The same in the next state.
LEMMA NewQuietAfter == (\A c \in Frame : IInv /\ pc[c] \in Starting => Quiet(c) /\ CalledFrom(c, c))'
  BY NewQuietNow, PTL

\* A spawn puts the new call behind what the worker has.
LEMMA SpawnOrder ==
    ASSUME IInv, IInv', InOrder, NEW w \in Worker, NEW f \in Frame, Effect(w, f), Spawn(w, f)
    PROVE  InOrder'
  <1>0. PICK c : c = Child(f, child[f])
    OBVIOUS
  <1>1. /\ run[w] = f /\ pc[f] = "build"
        /\ deque' = [deque EXCEPT ![w] = Append(@, c)]
        /\ run' = [run EXCEPT ![w] = c]
        /\ pc' = [pc EXCEPT ![f] = "spawned", ![c] = "entry"]
    BY <1>0 DEF Spawn, At
  <1>2. f \in Inner /\ child[f] \in 1 .. Fields
    BY <1>1 DEF IInv, LeavesOK, TypeOK
  <1>3. c \in Frame /\ Parent(c) = f /\ c # f
    BY <1>0, <1>2, ChildShape
  <1>4. run \in [Worker -> Frame \cup {None}] /\ deque \in [Worker -> Seq(Frame)] /\ pc \in [Frame -> PC]
    BY DEF IInv, TypeOK
  <1>5. \A x \in Frame : x # c /\ pc[x] \in {"new", "done"} => pc'[x] \in {"new", "done"}
    BY <1>0 DEF Effect
  <1>6. run'[w] = c /\ deque'[w] = Append(deque[w], c) /\ pc'[c] = "entry"
    BY <1>1, <1>3, <1>4
  <1>7. (Quiet(c) /\ CalledFrom(c, c))'
    BY <1>3, <1>6, NewQuietAfter DEF Starting
  <1>8. /\ Len(deque[w]) \in Nat
        /\ Len(deque'[w]) = Len(deque[w]) + 1
        /\ \A k \in 1 .. Len(deque[w]) : deque'[w][k] = deque[w][k]
        /\ deque'[w][Len(deque[w]) + 1] = c
    BY <1>3, <1>4, <1>6, Pushed
  <1>9. (CalledFrom(deque[w][Len(deque[w])], run[w]) /\ Quiet(run[w]))'
    BY <1>6, <1>7, <1>8
  <1>10. ASSUME NEW k \in 1 .. Len(deque'[w]) - 1
         PROVE  (CalledFrom(deque[w][k], Parent(deque[w][k + 1]))
                   /\ QuietBut(Parent(deque[w][k + 1]), deque[w][k + 1]))'
    <2>1. k \in 1 .. Len(deque[w]) /\ deque'[w][k] = deque[w][k]
      BY <1>8
    <2>2. CASE k = Len(deque[w])
      <3>1. deque'[w][k + 1] = c
        BY <1>8, <2>2
      <3>2. PICK d \in Frame : d = deque[w][k] /\ CalledFrom(d, f) /\ Quiet(f)
        <4>1. deque[w] # <<>>
          BY <1>4, <2>1, <2>2
        <4> QED
          BY <1>1, <2>2, <4>1, Youngest
      <3>3. CalledFrom(d, f)'
        BY <1>1, <3>2, PathKept
      <3>4. QuietBut(f, c)'
        <4>1. ASSUME NEW i \in 1 .. Fields - 1
              PROVE  Child(f, i) \in Frame
          <5>1. i \in 1 .. Fields
            BY FieldsAssumption
          <5> QED
            BY <1>2, <5>1, ChildShape
        <4> QED
          BY <1>2, <1>5, <3>2, <4>1 DEF Quiet, QuietBut
      <3> QED
        BY <1>3, <2>1, <3>1, <3>2, <3>3, <3>4
    <2>3. CASE k # Len(deque[w])
      <3>1. k \in 1 .. Len(deque[w]) - 1 /\ deque'[w][k + 1] = deque[w][k + 1]
        BY <1>8, <2>1, <2>3
      <3>2. PICK d, e : d = deque[w][k] /\ e = deque[w][k + 1]
        OBVIOUS
      <3>3. CalledFrom(d, Parent(e))' /\ QuietBut(Parent(e), e)'
        BY <3>1, <3>2, YoungerKept DEF InOrder
      <3> QED
        BY <2>1, <3>1, <3>2, <3>3
    <2> QED
      BY <2>2, <2>3
  <1>11. run'[w] # None
    BY <1>3, <1>6, NoneAssumption
  <1> QED
    BY <1>9, <1>10, <1>11, OthersKept DEF InOrder

\* The ordinary call of the last field goes on from where the worker is.
LEMMA CallLastOrder ==
    ASSUME IInv, IInv', InOrder, NEW w \in Worker, NEW f \in Frame, Effect(w, f), CallLast(w, f)
    PROVE  InOrder'
  <1>0. PICK c : c = Child(f, Fields)
    OBVIOUS
  <1>1. /\ run[w] = f /\ pc[f] = "build" /\ child[f] = Fields /\ UNCHANGED deque
        /\ run' = [run EXCEPT ![w] = c]
        /\ pc' = [pc EXCEPT ![f] = "calling", ![c] = "entry"]
    BY <1>0 DEF CallLast, At
  <1>2. f \in Inner /\ Fields \in 1 .. Fields
    BY <1>1, FieldsAssumption DEF IInv, LeavesOK
  <1>3. /\ c \in Frame /\ c # f /\ c # Root /\ Index(c) = Fields
        /\ InTree(f, c) /\ \A x \in Frame : InTree(x, c) /\ x # c => InTree(x, f)
    BY <1>0, <1>2, ChildShape, ChildTree
  <1>4. run \in [Worker -> Frame \cup {None}] /\ pc \in [Frame -> PC]
    BY DEF IInv, TypeOK
  <1>5. run'[w] = c /\ pc'[c] = "entry" /\ pc'[f] = "calling"
    BY <1>1, <1>3, <1>4
  <1>6. (Quiet(c) /\ CalledFrom(c, c))'
    BY <1>3, <1>5, NewQuietAfter DEF Starting
  <1>7. ASSUME deque[w] # <<>>
        PROVE  (CalledFrom(deque[w][Len(deque[w])], run[w]) /\ Quiet(run[w]))'
    <2>1. PICK d \in Frame : d = deque[w][Len(deque[w])] /\ CalledFrom(d, f) /\ Quiet(f)
      BY <1>1, <1>7, Youngest
    <2>2. CalledFrom(d, f)'
      BY <1>1, <2>1, PathKept
    <2>3. Quiet(f)'
      <3>1. ASSUME NEW i \in 1 .. Fields - 1
            PROVE  Child(f, i) \in Frame /\ Child(f, i) # c
        <4>1. i \in 1 .. Fields /\ i # Fields
          BY FieldsAssumption
        <4> QED
          BY <1>2, <1>3, <4>1, ChildShape
      <3>2. \A x \in Frame : x # c /\ pc[x] \in {"new", "done"} => pc'[x] \in {"new", "done"}
        BY <1>0, <1>1 DEF Effect
      <3> QED
        BY <1>2, <2>1, <3>1, <3>2 DEF Quiet
    <2>4. InTree(d, c)
      BY <1>2, <1>3, <2>1, TreeOrder, InnerShape DEF CalledFrom
    <2>5. ~Spawned(c)
      BY <1>3, FieldsAssumption DEF Spawned
    <2>6. ASSUME NEW x \in Frame, InTree(d, x), InTree(x, c)
          PROVE  /\ x # d => ~Spawned(x)
                 /\ x # c => pc'[x] = "calling" /\ Quiet(x)'
      <3>1. CASE x = c
        BY <2>5, <3>1
      <3>2. CASE x = f
        BY <1>5, <2>1, <2>3, <2>6, <3>2, TreeOrder DEF CalledFrom
      <3>3. CASE x # c /\ x # f
        BY <1>3, <2>2, <2>6, <3>3 DEF CalledFrom
      <3> QED
        BY <3>1, <3>2, <3>3
    <2>7. CalledFrom(d, c)'
      BY <2>4, <2>6 DEF CalledFrom
    <2> QED
      BY <1>1, <1>5, <1>6, <2>1, <2>7
  <1>8. run'[w] # None
    BY <1>3, <1>5, NoneAssumption
  <1> QED
    BY <1>1, <1>7, <1>8, SameDeque DEF InOrder

\* Who has to wait for its fields has nothing left to go on with: its own
\* continuations were stolen, and those below it would be behind them.
LEMMA SyncOrder ==
    ASSUME IInv, InOrder, NEW w \in Worker, NEW f \in Frame, Effect(w, f), Sync(w, f)
    PROVE  InOrder'
  <1>1. run[w] = f /\ pc[f] = "sync" /\ UNCHANGED deque
    BY DEF Sync, At
  <1>2. CASE SpawnedDone(f, pc)
    BY <1>1, <1>2, StaysOrder DEF Sync
  <1>3. CASE ~SpawnedDone(f, pc)
    <2>1. ASSUME deque[w] # <<>>
          PROVE  FALSE
      <3>1. Quiet(f)
        BY <1>1, <2>1, Youngest
      <3>2. f \in Inner /\ child[f] = Fields
        BY <1>1 DEF IInv, LeavesOK, ChildOK, Starting
      <3>3. ASSUME NEW i \in 1 .. Fields - 1
            PROVE  pc[Child(f, i)] = "done"
        <4>1. i \in 1 .. Fields /\ i < child[f]
          BY <3>2, FieldsAssumption
        <4>2. pc[Child(f, i)] # "new"
          BY <1>1, <3>2, <4>1 DEF IInv, StartedOK, Starting
        <4> QED
          BY <3>1, <3>2, <4>2 DEF Quiet
      <3> QED
        BY <1>3, <3>3 DEF SpawnedDone
    <2> QED
      BY <1>1, <2>1, LeavesOrder
  <1> QED
    BY <1>2, <1>3

\* An ordinary call returns to the call before it.
LEMMA ReturnCalledOrder ==
    ASSUME IInv, InOrder, NEW w \in Worker, NEW f \in Frame, Effect(w, f), ReturnCalled(w, f)
    PROVE  InOrder'
  <1>0. PICK p : p = Parent(f)
    OBVIOUS
  <1>1. /\ run[w] = f /\ f # Root /\ ~Spawned(f) /\ UNCHANGED deque
        /\ run' = [run EXCEPT ![w] = p]
    BY <1>0 DEF ReturnCalled, At
  <1>2. p \in Inner /\ p \in Frame /\ Index(f) \in 1 .. Fields /\ f = Child(p, Index(f))
    BY <1>0, <1>1, ParentShape, InnerShape
  <1>3. InTree(p, f) /\ ~InTree(f, p) /\ \A x \in Frame : InTree(x, f) /\ x # f => InTree(x, p)
    BY <1>2, ChildTree
  <1>4. p # f
    BY <1>3, TreeOrder
  <1>5. run'[w] = p /\ p # None
    BY <1>1, <1>2, NoneAssumption DEF IInv, TypeOK
  <1>6. ASSUME deque[w] # <<>>
        PROVE  (CalledFrom(deque[w][Len(deque[w])], run[w]) /\ Quiet(run[w]))'
    <2>1. PICK d \in Frame : d = deque[w][Len(deque[w])] /\ CalledFrom(d, f) /\ Spawned(d)
      BY <1>1, <1>6, Youngest
    <2>2. InTree(d, p)
      BY <1>1, <1>3, <2>1 DEF CalledFrom
    <2>3. \A x \in Frame : InTree(x, p) => InTree(x, f) /\ x # f
      BY <1>2, <1>3, TreeOrder
    <2>4. CalledFrom(d, p)
      BY <2>1, <2>2, <2>3 DEF CalledFrom
    <2>5. Quiet(p)
      BY <1>2, <1>3, <1>4, <2>1, <2>2 DEF CalledFrom
    <2>6. CalledFrom(d, p)' /\ Quiet(p)'
      BY <1>2, <1>4, <2>4, <2>5, PathKept, QuietKept
    <2> QED
      BY <1>1, <1>5, <2>1, <2>6
  <1> QED
    BY <1>1, <1>5, <1>6, SameDeque DEF InOrder

\* A spawned call returns to the youngest continuation, which becomes what is
\* executed, in front of what was before it on the deque.
LEMMA ReturnPoppedOrder ==
    ASSUME IInv, InOrder, NEW w \in Worker, NEW f \in Frame, Effect(w, f), ReturnPopped(w, f)
    PROVE  InOrder'
  <1>0. PICK p : p = Parent(f)
    OBVIOUS
  <1>1. /\ run[w] = f /\ f # Root /\ deque[w] # <<>> /\ deque[w][Len(deque[w])] = f
        /\ deque' = [deque EXCEPT ![w] = SubSeq(@, 1, Len(@) - 1)]
        /\ run' = [run EXCEPT ![w] = p]
        /\ pc' = [pc EXCEPT ![f] = "done"]
    BY <1>0 DEF ReturnPopped, At, MayPop, Spawned
  <1>2. p \in Inner /\ p \in Frame /\ Index(f) \in 1 .. Fields /\ f = Child(p, Index(f)) /\ p # f
    BY <1>0, <1>1, ParentShape, ChildShape
  <1>3. /\ run \in [Worker -> Frame \cup {None}] /\ deque \in [Worker -> Seq(Frame)]
        /\ pc \in [Frame -> PC]
    BY DEF IInv, TypeOK
  <1>4. run'[w] = p /\ run'[w] # None /\ pc'[f] = "done"
    BY <1>1, <1>2, <1>3, NoneAssumption
  <1>5. /\ Len(deque[w]) \in Nat \ {0}
        /\ Len(deque'[w]) = Len(deque[w]) - 1
        /\ \A k \in 1 .. Len(deque[w]) - 1 : deque'[w][k] = deque[w][k]
    BY <1>1, <1>3, Popped
  <1>6. ASSUME deque'[w] # <<>>
        PROVE  (CalledFrom(deque[w][Len(deque[w])], run[w]) /\ Quiet(run[w]))'
    <2>1. PICK n : n = Len(deque'[w])
      OBVIOUS
    <2>2. n \in 1 .. Len(deque[w]) - 1
      <3>1. deque'[w] \in Seq(Frame)
        BY <1>1, <1>3, Popped
      <3>2. Len(deque'[w]) # 0
        BY <1>6, <3>1
      <3>3. PICK a \in Nat \ {0} : a = Len(deque[w])
        BY <1>5
      <3>4. n = a - 1 /\ n # 0
        BY <1>5, <2>1, <3>2, <3>3
      <3>5. n \in 1 .. a - 1
        BY <3>4
      <3> QED
        BY <3>3, <3>5
    <2>3. n + 1 = Len(deque[w])
      BY <1>5, <2>1
    <2>4. PICK d : d = deque[w][n]
      OBVIOUS
    <2>5. d \in Frame
      BY <1>5, <2>2, <2>4, DequeShape
    <2>6. CalledFrom(d, p) /\ QuietBut(p, f)
      BY <1>0, <1>1, <2>2, <2>3, <2>4 DEF InOrder, YoungerOK
    <2>7. CalledFrom(d, p)' /\ QuietBut(p, f)'
      BY <1>2, <2>5, <2>6, PathKept, QuietKept
    <2>8. Quiet(p)'
      BY <1>4, <2>7 DEF Quiet, QuietBut
    <2> QED
      BY <1>4, <1>5, <2>1, <2>2, <2>4, <2>7, <2>8
  <1>7. ASSUME NEW k \in 1 .. Len(deque'[w]) - 1
        PROVE  (CalledFrom(deque[w][k], Parent(deque[w][k + 1]))
                  /\ QuietBut(Parent(deque[w][k + 1]), deque[w][k + 1]))'
    <2>1. /\ k \in 1 .. Len(deque[w]) - 1
          /\ deque'[w][k] = deque[w][k] /\ deque'[w][k + 1] = deque[w][k + 1]
      BY <1>5
    <2>2. PICK d, e : d = deque[w][k] /\ e = deque[w][k + 1]
      OBVIOUS
    <2>3. CalledFrom(d, Parent(e))' /\ QuietBut(Parent(e), e)'
      BY <2>1, <2>2, YoungerKept DEF InOrder
    <2> QED
      BY <2>1, <2>2, <2>3
  <1> QED
    BY <1>4, <1>6, <1>7, OthersKept DEF InOrder

\* A spawned call whose continuation was stolen has nothing below it: what is on
\* the deque would be its own continuation.
LEMMA ReturnStolenOrder ==
    ASSUME IInv, InOrder, NEW w \in Worker, NEW f \in Frame, Effect(w, f), ReturnStolen(w, f)
    PROVE  InOrder'
  <1>1. run[w] = f /\ Spawned(f) /\ ~MayPop(w, f) /\ UNCHANGED deque
    BY DEF ReturnStolen, At
  <1>2. ASSUME deque[w] # <<>>
        PROVE  FALSE
    <2>1. PICK d \in Frame : d = deque[w][Len(deque[w])] /\ CalledFrom(d, f)
      BY <1>1, <1>2, Youngest
    <2>2. d # f
      BY <1>1, <1>2, <2>1 DEF MayPop
    <2> QED
      BY <1>1, <2>1, <2>2, TreeOrder DEF CalledFrom
  <1> QED
    BY <1>1, <1>2, LeavesOrder

\* Nothing is below the first call.
LEMMA ReturnRootOrder ==
    ASSUME IInv, InOrder, NEW w \in Worker, NEW f \in Frame, Effect(w, f), ReturnRoot(w, f)
    PROVE  InOrder'
  <1>1. run[w] = f /\ f = Root /\ UNCHANGED deque
    BY DEF ReturnRoot, At
  <1>2. ASSUME deque[w] # <<>>
        PROVE  FALSE
    <2>1. PICK d \in Frame : d # Root /\ InTree(d, Root)
      BY <1>1, <1>2, Youngest DEF CalledFrom
    <2>2. Len(Root) = 0
      BY DEF Root
    <2>3. InTree(Root, d)
      BY <2>2, FrameSeq DEF InTree
    <2> QED
      BY <2>1, <2>3, TreeOrder, RootShape
  <1> QED
    BY <1>1, <1>2, LeavesOrder

\* A thief has an empty deque, and takes from the old end of its victim's.
LEMMA StealOrder ==
    ASSUME IInv, InOrder, NEW w \in Worker, NEW v \in Worker, Steal(w, v)
    PROVE  InOrder'
  <1>1. /\ w # v /\ run[w] = None /\ deque[v] # <<>>
        /\ run' = [run EXCEPT ![w] = Parent(deque[v][1])]
        /\ deque' = [deque EXCEPT ![v] = Tail(@)]
        /\ UNCHANGED pc
    BY DEF Steal
  <1>2. run \in [Worker -> Frame \cup {None}] /\ deque \in [Worker -> Seq(Frame)]
    BY DEF IInv, TypeOK
  <1>3. deque[w] = <<>> /\ run[v] # None
    BY <1>1 DEF InOrder, IdleOK
  <1>4. /\ \A u \in Worker \ {w} : run'[u] = run[u]
        /\ \A u \in Worker \ {v} : deque'[u] = deque[u]
        /\ deque'[v] = Tail(deque[v])
    BY <1>1, <1>2
  <1>5. /\ deque'[v] \in Seq(Frame)
        /\ Len(deque[v]) \in Nat \ {0}
        /\ Len(deque'[v]) = Len(deque[v]) - 1
        /\ \A k \in 1 .. Len(deque[v]) - 1 : deque'[v][k] = deque[v][k + 1]
    BY <1>1, <1>2, <1>4, Robbed
  <1>6. ASSUME NEW d, NEW g
        PROVE  /\ CalledFrom(d, g) => CalledFrom(d, g)'
               /\ Quiet(g) => Quiet(g)'
               /\ QuietBut(g, d) => QuietBut(g, d)'
    BY <1>1 DEF CalledFrom, Quiet, QuietBut
  <1>7. IdleOK'
    BY <1>1, <1>3, <1>4 DEF InOrder, IdleOK
  <1>8. YoungestOK'
    <2> SUFFICES ASSUME NEW u \in Worker, run'[u] # None, deque'[u] # <<>>
                 PROVE  (CalledFrom(deque[u][Len(deque[u])], run[u]) /\ Quiet(run[u]))'
      BY DEF YoungestOK
    <2>1. u # w /\ run'[u] = run[u]
      BY <1>1, <1>3, <1>4
    <2>2. deque[u] # <<>> /\ deque'[u][Len(deque'[u])] = deque[u][Len(deque[u])]
      <3>1. CASE u = v
        <4>1. Len(deque'[v]) # 0
          BY <1>5, <3>1
        <4>2. Len(deque'[v]) \in 1 .. Len(deque[v]) - 1 /\ Len(deque'[v]) + 1 = Len(deque[v])
          <5>1. PICK a \in Nat \ {0} : a = Len(deque[v])
            BY <1>5
          <5>4. PICK n \in Nat : n = Len(deque'[v])
            BY <1>5, <5>1
          <5>2. n = a - 1 /\ n # 0
            BY <1>5, <4>1, <5>1, <5>4
          <5>3. n \in 1 .. a - 1 /\ n + 1 = a
            BY <5>2
          <5> QED
            BY <5>1, <5>4, <5>3
        <4> QED
          BY <1>1, <1>5, <3>1, <4>2
      <3>2. CASE u # v
        BY <1>4, <3>2
      <3> QED
        BY <3>1, <3>2
    <2>3. PICK d, g : d = deque[u][Len(deque[u])] /\ g = run[u]
      OBVIOUS
    <2>4. CalledFrom(d, g)' /\ Quiet(g)'
      BY <1>6, <2>1, <2>2, <2>3 DEF InOrder, YoungestOK
    <2> QED
      BY <2>1, <2>2, <2>3, <2>4
  <1>9. YoungerOK'
    <2> SUFFICES ASSUME NEW u \in Worker, NEW k \in 1 .. Len(deque'[u]) - 1
                 PROVE  (CalledFrom(deque[u][k], Parent(deque[u][k + 1]))
                          /\ QuietBut(Parent(deque[u][k + 1]), deque[u][k + 1]))'
      BY DEF YoungerOK
    <2>1. PICK j \in 1 .. Len(deque[u]) - 1 :
                  deque'[u][k] = deque[u][j] /\ deque'[u][k + 1] = deque[u][j + 1]
      <3>1. CASE u = v
        <4>1. k + 1 \in 1 .. Len(deque[v]) - 1 /\ k \in 1 .. Len(deque[v]) - 1
          BY <1>5, <3>1
        <4> QED
          BY <1>5, <3>1, <4>1
      <3>2. CASE u # v
        BY <1>4, <3>2
      <3> QED
        BY <3>1, <3>2
    <2>2. PICK d, e : d = deque[u][j] /\ e = deque[u][j + 1]
      OBVIOUS
    <2>3. CalledFrom(d, Parent(e)) /\ QuietBut(Parent(e), e)
      BY <2>2 DEF InOrder, YoungerOK
    <2>4. CalledFrom(d, Parent(e))' /\ QuietBut(Parent(e), e)'
      BY <1>6, <2>3
    <2> QED
      BY <2>1, <2>2, <2>4
  <1> QED
    BY <1>7, <1>8, <1>9 DEF InOrder

\* Whatever the program does, the deques stay in order.
LEMMA NextOrder == IInv /\ InOrder /\ [Next]_vars => InOrder'
  <1> SUFFICES ASSUME IInv, InOrder, [Next]_vars
               PROVE  InOrder'
    OBVIOUS
  <1>0. IInv'
    BY NextIInv
  <1>1. ASSUME NEW w \in Worker, NEW f \in Frame, Step(w, f)
        PROVE  InOrder'
    <2>1. Effect(w, f)
      BY <1>1, StepEffect
    <2>2. CASE WriteLeaf(w, f) \/ StartFields(w, f) \/ Tie(w, f) \/ Construct(w, f)
                 \/ AfterAvailable(w, f) \/ FreshRegion(w, f)
      <3>1. run[w] = f /\ pc[f] \notin {"build", "return"} /\ UNCHANGED <<run, deque>>
        BY <2>2 DEF WriteLeaf, StartFields, Tie, Construct, AfterAvailable, FreshRegion, At
      <3> QED
        BY <2>1, <3>1, StaysOrder
    <2>3. CASE Spawn(w, f)
      BY <1>0, <2>1, <2>3, SpawnOrder
    <2>4. CASE CallLast(w, f)
      BY <1>0, <2>1, <2>4, CallLastOrder
    <2>5. CASE Sync(w, f)
      BY <2>1, <2>5, SyncOrder
    <2>6. CASE ReturnCalled(w, f)
      BY <2>1, <2>6, ReturnCalledOrder
    <2>7. CASE ReturnPopped(w, f)
      BY <2>1, <2>7, ReturnPoppedOrder
    <2>8. CASE ReturnStolen(w, f)
      BY <2>1, <2>8, ReturnStolenOrder
    <2>9. CASE ReturnRoot(w, f)
      BY <2>1, <2>9, ReturnRootOrder
    <2> QED
      BY <1>1, <2>2, <2>3, <2>4, <2>5, <2>6, <2>7, <2>8, <2>9 DEF Step
  <1>2. ASSUME NEW w \in Worker, NEW v \in Worker, Steal(w, v)
        PROVE  InOrder'
    BY <1>2, StealOrder
  <1>3. CASE UNCHANGED vars
    <2>1. UNCHANGED <<run, deque, pc>>
      BY <1>3 DEF vars
    <2>2. ASSUME NEW d, NEW g
          PROVE  /\ CalledFrom(d, g) => CalledFrom(d, g)'
                 /\ Quiet(g) => Quiet(g)'
                 /\ QuietBut(g, d) => QuietBut(g, d)'
      BY <2>1 DEF CalledFrom, Quiet, QuietBut
    <2>3. IdleOK'
      BY <2>1 DEF InOrder, IdleOK
    <2>4. YoungestOK' /\ YoungerOK'
      BY <2>1, <2>2 DEF InOrder, YoungestOK, YoungerOK
    <2> QED
      BY <2>3, <2>4 DEF InOrder
  <1> QED
    BY <1>1, <1>2, <1>3 DEF Next, Work

-----------------------------------------------------------------------------
(***************************************************************************)
(* Nobody who has something to execute is forgotten.                       *)
(***************************************************************************)

\* A continuation leaves the deque only when it is gone on with.
LEMMA StillWaits ==
    ASSUME IInv, NEW w \in Worker, NEW f \in Frame, Step(w, f), NEW k \in 1 .. Len(deque[w])
    PROVE  \/ run'[w] = Parent(deque[w][k])
           \/ \E j \in 1 .. Len(deque'[w]) : deque'[w][j] = deque[w][k]
  <1>1. /\ run \in [Worker -> Frame \cup {None}] /\ deque \in [Worker -> Seq(Frame)]
        /\ deque[w] \in Seq(Frame) /\ Len(deque[w]) \in Nat
    BY DEF IInv, TypeOK
  <1>2. CASE Spawn(w, f)
    <2>1. PICK c : c = Child(f, child[f])
      OBVIOUS
    <2>2. deque'[w] = Append(deque[w], c)
      BY <1>1, <1>2, <2>1 DEF Spawn
    <2>3. c \in Frame
      <3>1. f \in Inner /\ child[f] \in 1 .. Fields
        BY <1>2 DEF IInv, LeavesOK, TypeOK, Spawn, At
      <3> QED
        BY <2>1, <3>1, ChildShape
    <2>4. Len(deque'[w]) = Len(deque[w]) + 1 /\ deque'[w][k] = deque[w][k]
      BY <1>1, <2>2, <2>3, Pushed
    <2>5. k \in 1 .. Len(deque'[w])
      BY <1>1, <2>4
    <2> QED
      BY <2>4, <2>5
  <1>3. CASE ReturnPopped(w, f)
    <2>1. /\ deque[w] # <<>> /\ deque[w][Len(deque[w])] = f
          /\ run'[w] = Parent(f)
          /\ deque'[w] = SubSeq(deque[w], 1, Len(deque[w]) - 1)
      BY <1>1, <1>3 DEF ReturnPopped, MayPop
    <2>2. CASE k = Len(deque[w])
      BY <2>1, <2>2
    <2>3. CASE k # Len(deque[w])
      <3>1. k \in 1 .. Len(deque[w]) - 1
        BY <1>1, <2>3
      <3>2. k \in 1 .. Len(deque'[w]) /\ deque'[w][k] = deque[w][k]
        BY <1>1, <2>1, <3>1, Popped
      <3> QED
        BY <3>2
    <2> QED
      BY <2>2, <2>3
  <1>4. CASE ~Spawn(w, f) /\ ~ReturnPopped(w, f)
    <2>1. UNCHANGED deque
      BY <1>4 DEF Step, WriteLeaf, StartFields, AfterAvailable, FreshRegion, CallLast, Sync, Tie,
                  Construct, ReturnCalled, ReturnStolen, ReturnRoot
    <2> QED
      BY <2>1
  <1> QED
    BY <1>2, <1>3, <1>4

\* A step of a call loses none of those who have something to execute.
LEMMA StepActive ==
    ASSUME IInv, ActiveOK, NEW w \in Worker, NEW f \in Frame, Step(w, f)
    PROVE  ActiveOK'
  <1>0. Effect(w, f)
    BY StepEffect
  <1> SUFFICES ASSUME NEW c \in Frame, pc'[c] \in Executed
               PROVE  \/ \E v \in Worker : run'[v] = c
                      \/ /\ pc'[c] = "spawned"
                         /\ \E v \in Worker : \E k \in 1 .. Len(deque'[v]) :
                              deque'[v][k] = Child(c, child'[c])
    BY DEF ActiveOK
  <1>1. CASE run'[w] = c
    BY <1>1
  <1>2. CASE c # f /\ pc'[c] = pc[c] /\ child'[c] = child[c]
    <2>1. CASE \E v \in Worker : run[v] = c
      <3>1. PICK v \in Worker : run[v] = c
        BY <2>1
      <3>2. v # w
        BY <1>0, <1>2, <3>1 DEF Effect
      <3> QED
        BY <1>0, <3>1, <3>2 DEF Effect
    <2>2. CASE /\ pc[c] = "spawned"
               /\ \E v \in Worker : \E k \in 1 .. Len(deque[v]) : deque[v][k] = Child(c, child[c])
      <3>0. PICK v \in Worker : \E k \in 1 .. Len(deque[v]) : deque[v][k] = Child(c, child[c])
        BY <2>2
      <3>1. PICK k \in 1 .. Len(deque[v]) : deque[v][k] = Child(c, child[c])
        BY <3>0
      <3>2. CASE v # w
        BY <1>0, <1>2, <2>2, <3>1, <3>2 DEF Effect
      <3>3. CASE v = w
        <4>1. CASE run'[w] = Parent(deque[w][k])
          <5>1. c \in Inner /\ child[c] \in 1 .. Fields
            BY <2>2 DEF IInv, LeavesOK, TypeOK
          <5>2. Parent(Child(c, child[c])) = c
            BY <5>1, ChildShape
          <5> QED
            BY <3>1, <3>3, <4>1, <5>2
        <4>2. CASE \E j \in 1 .. Len(deque'[w]) : deque'[w][j] = deque[w][k]
          BY <1>2, <2>2, <3>1, <3>3, <4>2
        <4> QED
          BY <3>3, <4>1, <4>2, StillWaits
      <3> QED
        BY <3>2, <3>3
    <2> QED
      BY <1>2, <2>1, <2>2 DEF ActiveOK
  <1>3. CASE /\ c = f /\ pc[f] = "build" /\ pc'[c] = "spawned" /\ child'[c] = child[c]
             /\ deque'[w] = Append(deque[w], Child(f, child[f]))
    <2>1. deque[w] \in Seq(Frame)
      BY DEF IInv, TypeOK
    <2>2. Child(f, child[f]) \in Frame
      <3>1. f \in Inner /\ child[f] \in 1 .. Fields
        BY <1>3 DEF IInv, LeavesOK, TypeOK
      <3> QED
        BY <3>1, ChildShape
    <2>3. /\ Len(deque[w]) + 1 \in 1 .. Len(deque'[w])
          /\ deque'[w][Len(deque[w]) + 1] = Child(f, child[f])
      <3>1. PICK e \in Frame : e = Child(f, child[f])
        BY <2>2
      <3> QED
        BY <1>3, <2>1, <3>1, Pushed
    <2> QED
      BY <1>3, <2>3
  <1> QED
    BY <1>0, <1>1, <1>2, <1>3 DEF Effect

\* What a thief takes it executes.
LEMMA StealActive ==
    ASSUME IInv, ActiveOK, NEW w \in Worker, NEW v \in Worker, Steal(w, v)
    PROVE  ActiveOK'
  <1>1. /\ run[w] = None /\ deque[v] # <<>>
        /\ run' = [run EXCEPT ![w] = Parent(deque[v][1])]
        /\ deque' = [deque EXCEPT ![v] = Tail(@)]
        /\ UNCHANGED <<pc, child>>
    BY DEF Steal
  <1>2. run \in [Worker -> Frame \cup {None}] /\ deque \in [Worker -> Seq(Frame)]
    BY DEF IInv, TypeOK
  <1>3. /\ Len(deque[v]) \in Nat \ {0}
        /\ Len(deque'[v]) = Len(deque[v]) - 1
        /\ \A k \in 1 .. Len(deque[v]) - 1 : deque'[v][k] = deque[v][k + 1]
    BY <1>1, <1>2, Robbed
  <1> SUFFICES ASSUME NEW c \in Frame, pc[c] \in Executed
               PROVE  \/ \E u \in Worker : run'[u] = c
                      \/ /\ pc[c] = "spawned"
                         /\ \E u \in Worker : \E k \in 1 .. Len(deque'[u]) :
                              deque'[u][k] = Child(c, child[c])
    BY <1>1 DEF ActiveOK
  <1>4. CASE \E u \in Worker : run[u] = c
    BY <1>1, <1>2, <1>4, NoneAssumption
  <1>5. CASE /\ pc[c] = "spawned"
             /\ \E u \in Worker : \E k \in 1 .. Len(deque[u]) : deque[u][k] = Child(c, child[c])
    <2>0. PICK u \in Worker : \E k \in 1 .. Len(deque[u]) : deque[u][k] = Child(c, child[c])
      BY <1>5
    <2>1. PICK k \in 1 .. Len(deque[u]) : deque[u][k] = Child(c, child[c])
      BY <2>0
    <2>2. CASE u # v
      BY <1>1, <1>2, <1>5, <2>1, <2>2
    <2>3. CASE u = v /\ k = 1
      <3>1. c \in Inner /\ child[c] \in 1 .. Fields
        BY <1>5 DEF IInv, LeavesOK, TypeOK
      <3>2. Parent(deque[v][1]) = c
        BY <2>1, <2>3, <3>1, ChildShape
      <3> QED
        BY <1>1, <1>2, <3>2
    <2>4. CASE u = v /\ k # 1
      <3>1. PICK j \in 1 .. Len(deque[v]) - 1 : j + 1 = k
        <4>1. PICK a \in Nat \ {0} : a = Len(deque[v])
          BY <1>3
        <4>2. k \in 1 .. a
          BY <2>4, <4>1
        <4>3. k - 1 \in 1 .. a - 1 /\ (k - 1) + 1 = k
          BY <2>4, <4>2
        <4> QED
          BY <4>1, <4>3
      <3>2. j \in 1 .. Len(deque'[v]) /\ deque'[v][j] = Child(c, child[c])
        BY <1>3, <2>1, <2>4, <3>1
      <3> QED
        BY <1>5, <3>2
    <2> QED
      BY <2>2, <2>3, <2>4
  <1> QED
    BY <1>4, <1>5 DEF ActiveOK

\* Who is suspended still waits for somebody, because the last of its fields would
\* have resumed it.
LEMMA StepSuspended ==
    ASSUME IInv, SuspendedOK, NEW w \in Worker, NEW f \in Frame, Step(w, f)
    PROVE  SuspendedOK'
  <1> SUFFICES ASSUME NEW g \in Inner, pc'[g] = "suspended"
               PROVE  \E i \in 1 .. Fields - 1 : pc'[Child(g, i)] # "done"
    BY DEF SuspendedOK, SpawnedDone
  <1>1. pc \in [Frame -> PC] /\ g \in Frame
    BY InnerShape DEF IInv, TypeOK
  <1>2. \A i \in 1 .. Fields - 1 : i \in 1 .. Fields
    BY FieldsAssumption
  <1>3. ASSUME pc[g] = "suspended",
               \A i \in 1 .. Fields - 1 : pc'[Child(g, i)] = "done" => pc[Child(g, i)] = "done"
        PROVE  \E i \in 1 .. Fields - 1 : pc'[Child(g, i)] # "done"
    BY <1>3 DEF SuspendedOK, SpawnedDone
  <1>4. \A i \in 1 .. Fields - 1 : Child(g, i) \in Frame /\ Parent(Child(g, i)) = g /\ Child(g, i) # Root
    BY <1>2, ChildShape
  <1>5. CASE Sync(w, f)
    <2>1. CASE SpawnedDone(f, pc)
      <3>1. pc' = [pc EXCEPT ![f] = "tie"] /\ pc[f] = "sync"
        BY <1>5, <2>1 DEF Sync, At
      <3>2. g # f /\ \A c \in Frame : pc'[c] = "done" => pc[c] = "done"
        BY <1>1, <3>1
      <3> QED
        BY <1>1, <1>3, <1>4, <3>1, <3>2
    <2>2. CASE ~SpawnedDone(f, pc)
      <3>1. pc' = [pc EXCEPT ![f] = "suspended"] /\ pc[f] = "sync"
        BY <1>5, <2>2 DEF Sync, At
      <3>2. \A c \in Frame : pc'[c] = "done" => pc[c] = "done"
        BY <1>1, <3>1
      <3>3. CASE g = f
        BY <1>4, <2>2, <3>2, <3>3 DEF SpawnedDone
      <3>4. CASE g # f
        BY <1>1, <1>3, <1>4, <3>1, <3>2, <3>4
      <3> QED
        BY <3>3, <3>4
    <2> QED
      BY <2>1, <2>2
  <1>6. CASE ReturnStolen(w, f)
    <2>0. PICK p : p = Parent(f)
      OBVIOUS
    <2>1. pc[f] = "return" /\ f # Root
      BY <1>6 DEF ReturnStolen, At, Spawned
    <2>2. p \in Frame /\ p # f
      BY <2>0, <2>1, ParentShape, ChildShape
    <2>3. CASE pc[p] = "suspended" /\ SpawnedDone(p, [pc EXCEPT ![f] = "done"])
      <3>1. pc' = [pc EXCEPT ![f] = "done", ![p] = "tie"]
        BY <1>6, <2>0, <2>3 DEF ReturnStolen
      <3>2. g # p /\ pc[g] = "suspended"
        BY <1>1, <2>1, <2>2, <3>1
      <3>3. \A c \in Frame : c # f /\ pc'[c] = "done" => pc[c] = "done"
        BY <1>1, <2>2, <3>1
      <3> QED
        BY <1>3, <1>4, <2>0, <3>2, <3>3
    <2>4. CASE ~(pc[p] = "suspended" /\ SpawnedDone(p, [pc EXCEPT ![f] = "done"]))
      <3>1. pc' = [pc EXCEPT ![f] = "done"]
        BY <1>6, <2>0, <2>4 DEF ReturnStolen
      <3>2. g # f /\ pc[g] = "suspended"
        BY <1>1, <2>1, <3>1
      <3>3. \A c \in Frame : c # f /\ pc'[c] = "done" => pc[c] = "done"
        BY <1>1, <3>1
      <3>4. CASE g = p
        BY <2>4, <3>1, <3>2, <3>4 DEF SpawnedDone
      <3>5. CASE g # p
        BY <1>3, <1>4, <2>0, <3>2, <3>3, <3>5
      <3> QED
        BY <3>4, <3>5
    <2> QED
      BY <2>3, <2>4
  <1>7. CASE ReturnCalled(w, f) \/ ReturnPopped(w, f)
    <2>0. PICK p : p = Parent(f)
      OBVIOUS
    <2>1. pc[f] = "return" /\ f # Root
      BY <1>7 DEF ReturnCalled, ReturnPopped, At, Spawned
    <2>2. p \in Frame /\ p # f
      BY <2>0, <2>1, ParentShape, ChildShape
    <2>3. g # p /\ pc[g] = "suspended" /\ \A c \in Frame : c # f /\ pc'[c] = "done" => pc[c] = "done"
      <3>1. CASE ReturnCalled(w, f)
        <4>1. pc' = [pc EXCEPT ![f] = "done", ![p] = "sync"]
          BY <2>0, <3>1 DEF ReturnCalled
        <4> QED
          BY <1>1, <2>1, <2>2, <4>1
      <3>2. CASE ReturnPopped(w, f)
        <4>1. pc' = [pc EXCEPT ![f] = "done"]
          BY <3>2 DEF ReturnPopped
        <4>2. pc[p] = "spawned"
          <5>1. deque[w] # <<>> /\ f = deque[w][Len(deque[w])]
            BY <3>2 DEF ReturnPopped, MayPop
          <5> QED
            BY <2>0, <5>1, DequeShape
        <4> QED
          BY <1>1, <2>1, <2>2, <4>1, <4>2
      <3> QED
        BY <1>7, <3>1, <3>2
    <2> QED
      BY <1>3, <1>4, <2>0, <2>3
  <1>8. CASE ReturnRoot(w, f)
    <2>1. f = Root /\ pc[f] = "return" /\ pc' = [pc EXCEPT ![f] = "done"]
      BY <1>8 DEF ReturnRoot, At
    <2>2. pc[g] = "suspended" /\ \A c \in Frame : c # Root /\ pc'[c] = "done" => pc[c] = "done"
      BY <1>1, <2>1
    <2> QED
      BY <1>3, <1>4, <2>2
  <1>9. CASE Spawn(w, f) \/ CallLast(w, f)
    <2>0. PICK c : c = Child(f, child[f])
      OBVIOUS
    <2>1. /\ c \in Frame
          /\ \E at \in {"spawned", "calling"} : pc' = [pc EXCEPT ![f] = at, ![c] = "entry"]
      <3>1. f \in Inner /\ child[f] \in 1 .. Fields
        BY <1>9 DEF IInv, LeavesOK, TypeOK, Spawn, CallLast, At
      <3> QED
        BY <1>9, <2>0, <3>1, ChildShape DEF Spawn, CallLast
    <2>2. pc[g] = "suspended" /\ \A x \in Frame : pc'[x] = "done" => pc[x] = "done"
      BY <1>1, <2>1
    <2> QED
      BY <1>3, <1>4, <2>2
  <1>10. CASE \/ WriteLeaf(w, f) \/ StartFields(w, f) \/ Tie(w, f) \/ Construct(w, f)
              \/ AfterAvailable(w, f) \/ FreshRegion(w, f)
    <2>1. \E at \in {"return", "build", "construct"} : pc' = [pc EXCEPT ![f] = at]
      BY <1>10 DEF WriteLeaf, StartFields, Tie, Construct, AfterAvailable, FreshRegion
    <2>2. pc[g] = "suspended" /\ \A x \in Frame : pc'[x] = "done" => pc[x] = "done"
      BY <1>1, <2>1
    <2> QED
      BY <1>3, <1>4, <2>2
  <1> QED
    BY <1>5, <1>6, <1>7, <1>8, <1>9, <1>10 DEF Step

\* A step begins at most one call, one level below the one that makes it.
LEMMA StepBegun ==
    ASSUME IInv, BegunOK, NEW w \in Worker, NEW f \in Frame, Effect(w, f)
    PROVE  BegunOK'
  <1>1. PICK n \in Nat : \A c \in Frame : pc[c] # "new" => Len(c) <= n
    BY DEF BegunOK
  <1>2. ASSUME NEW c \in Frame, pc'[c] # "new"
        PROVE  Len(c) <= n + 1
    <2>1. CASE pc[c] # "new"
      BY <1>1, <2>1, FrameSeq
    <2>2. CASE pc[c] = "new"
      <3>1. f \in Inner /\ pc[f] = "build" /\ c = Child(f, child[f])
        BY <1>2, <2>2 DEF Effect
      <3>2. PICK i \in 1 .. Fields : i = child[f]
        BY DEF IInv, TypeOK
      <3>3. Len(c) = Len(f) + 1 /\ Len(f) \in Nat
        BY <3>1, <3>2, ChildFields
      <3>4. Len(f) <= n
        BY <1>1, <3>1
      <3> QED
        BY <3>3, <3>4
    <2> QED
      BY <2>1, <2>2
  <1>3. pc'[Root] # "new"
    BY RootShape DEF BegunOK, Effect
  <1> QED
    BY <1>2, <1>3 DEF BegunOK

\* The invariant is inductive.
LEMMA NextProgressInv == IInv /\ ProgressInv /\ [Next]_vars => ProgressInv'
  <1> SUFFICES ASSUME IInv, ProgressInv, [Next]_vars
               PROVE  ProgressInv'
    OBVIOUS
  <1>1. InOrder'
    BY NextOrder DEF ProgressInv, InOrder
  <1>2. ASSUME NEW w \in Worker, NEW f \in Frame, Step(w, f)
        PROVE  ActiveOK' /\ SuspendedOK' /\ BegunOK'
    BY <1>2, StepEffect, StepActive, StepSuspended, StepBegun DEF ProgressInv
  <1>3. ASSUME NEW w \in Worker, NEW v \in Worker, Steal(w, v)
        PROVE  ActiveOK' /\ SuspendedOK' /\ BegunOK'
    <2>1. UNCHANGED pc
      BY <1>3 DEF Steal
    <2>2. SuspendedOK' /\ BegunOK'
      BY <2>1 DEF ProgressInv, SuspendedOK, SpawnedDone, BegunOK
    <2> QED
      BY <1>3, <2>2, StealActive DEF ProgressInv
  <1>4. CASE UNCHANGED vars
    <2>1. UNCHANGED <<run, deque, pc, child>>
      BY <1>4 DEF vars
    <2> QED
      BY <1>1, <2>1 DEF ProgressInv, InOrder, ActiveOK, SuspendedOK, SpawnedDone, BegunOK
  <1> QED
    BY <1>1, <1>2, <1>3, <1>4 DEF Next, Work, ProgressInv, InOrder

\* If nobody works, who has not ended waits for a call that it has made, which has
\* not ended either.
LEMMA WaitsForDeeper ==
    ASSUME IInv, ProgressInv, \A w \in Worker : run[w] = None,
           NEW f \in Frame, pc[f] \notin {"new", "done"}
    PROVE  \E c \in Frame : pc[c] \notin {"new", "done"} /\ Len(c) = Len(f) + 1
  <1>1. \A w \in Worker : Len(deque[w]) = 0
    <2>1. \A w \in Worker : deque[w] = <<>>
      BY DEF ProgressInv, IdleOK
    <2>2. Len(<<>>) = 0
      OBVIOUS
    <2> QED
      BY <2>1, <2>2
  <1>2. pc[f] \notin Executed
    BY <1>1, NoneAssumption DEF ProgressInv, ActiveOK
  <1>3. pc[f] \in {"calling", "suspended"}
    <2>1. pc[f] \in PC
      BY DEF IInv, TypeOK
    <2> QED
      BY <1>2, <2>1 DEF PC, Executed
  <1>4. f \in Inner /\ child[f] = Fields /\ Fields \in 1 .. Fields
    BY <1>3, FieldsAssumption DEF IInv, LeavesOK, ChildOK, Starting
  <1>5. PICK i \in 1 .. Fields : pc[Child(f, i)] # "done"
    <2>1. CASE pc[f] = "calling"
      BY <1>4, <2>1 DEF IInv, JoinOK
    <2>2. CASE pc[f] = "suspended"
      BY <1>4, <2>2 DEF ProgressInv, SuspendedOK, SpawnedDone
    <2> QED
      BY <1>3, <2>1, <2>2
  <1>6. pc[Child(f, i)] # "new"
    BY <1>3, <1>4, <1>5 DEF IInv, StartedOK, Starting
  <1> QED
    BY <1>4, <1>5, <1>6, ChildFields

\* So somebody works.
LEMMA ProgressInvSafe == IInv /\ ProgressInv => SomeoneWorks
  <1> SUFFICES ASSUME IInv, ProgressInv, pc[Root] # "done", \A w \in Worker : run[w] = None
               PROVE  FALSE
    BY DEF SomeoneWorks
  <1>1. PICK n \in Nat : \A f \in Frame : pc[f] # "new" => Len(f) <= n
    BY DEF ProgressInv, BegunOK
  <1> DEFINE T == {n - Len(f) : f \in {g \in Frame : pc[g] \notin {"new", "done"}}}
  <1>2. T \in SUBSET Nat
    BY <1>1, FrameSeq
  <1>3. T # {}
    <2>1. Root \in Frame /\ pc[Root] # "new"
      BY RootShape DEF ProgressInv, BegunOK
    <2> QED
      BY <2>1
  <1>4. PICK x \in T : \A y \in T : x <= y
    <2> HIDE DEF T
    <2> QED
      BY <1>2, <1>3, Least
  <1>5. PICK f \in Frame : pc[f] \notin {"new", "done"} /\ x = n - Len(f)
    BY <1>4
  <1>6. PICK c \in Frame : pc[c] \notin {"new", "done"} /\ Len(c) = Len(f) + 1
    BY <1>5, WaitsForDeeper
  <1>7. n - Len(c) \in T
    BY <1>6
  <1>8. n - Len(f) <= n - Len(c)
    BY <1>4, <1>5, <1>7
  <1> QED
    BY <1>6, <1>8, FrameSeq

(* Until the program has ended somebody executes a call: no schedule, and no
   theft, leaves all the calls waiting for each other. *)
THEOREM ParSomeoneWorks == Spec => []SomeoneWorks
  <1>1. Init => IInv /\ ProgressInv
    BY InitIInv, InitProgressInv
  <1>2. IInv /\ ProgressInv /\ [Next]_vars => IInv' /\ ProgressInv'
    BY NextIInv, NextProgressInv
  <1> QED
    BY <1>1, <1>2, ProgressInvSafe, PTL DEF Spec

=============================================================================

------------------------------ MODULE ParAlloc ------------------------------
(***************************************************************************)
(* Parallel allocation into one region: the code that the compiler emits   *)
(* for a function that builds a constructor whose fields are built by      *)
(* parallel calls (Passes/ParAlloc.hs, Passes/Codegen.hs), run by          *)
(* work-stealing workers.                                                  *)
(*                                                                         *)
(*     x_1 = spawn build; ...; x_n = build; sync; Con x_1 ... x_n          *)
(*                                                                         *)
(* Field i + 1 belongs behind field i, whose size is known only once it is *)
(* written.  If the continuation of the spawn was not stolen, field i is   *)
(* finished and field i + 1 is written behind it.  If it was stolen, field *)
(* i + 1 gets a fresh region, and after the sync a pointer is written      *)
(* behind field i.                                                         *)
(*                                                                         *)
(* The scheduler is Cilk's: a spawn pushes the continuation of the parent  *)
(* on the worker's deque and runs the child; a thief takes the oldest      *)
(* continuation of another worker; a child that returns pops the youngest. *)
(***************************************************************************)
EXTENDS Naturals, Sequences

CONSTANTS Worker,         \* the worker threads
          Fields,         \* packed fields of the constructor: all but the last spawned
          Inner,          \* the calls above the cutoff, the others are sequential
          RegionOnSpawn,  \* the flag --region-on-spawn
          None

(* The calls of the function; the i-th call made by f is Append(f, i). *)
Root == <<>>
Child(f, i) == Append(f, i)
Frame == {Root} \cup {Child(f, i) : f \in Inner, i \in 1 .. Fields}
Parent(c) == SubSeq(c, 1, Len(c) - 1)
Index(c) == c[Len(c)]
Sequential(f) == f \notin Inner
Spawned(c) == c # Root /\ Index(c) < Fields

(* The worker that starts the program: any, they are all alike. *)
Main == CHOOSE w \in Worker : TRUE

(* Regions are named after the call that they were allocated for. *)
Address == [reg : Frame, off : Nat]

ASSUME WorkerAssumption == Worker # {}
ASSUME FieldsAssumption == Fields \in Nat \ {0, 1}
ASSUME InnerAssumption == \A f \in Inner : f \in Seq(1 .. Fields) /\ f \in Frame
ASSUME FlagAssumption == RegionOnSpawn \in BOOLEAN
ASSUME NoneAssumption == None \notin Frame /\ None \notin Worker /\ None \notin Address

VARIABLES
    run,        \* the call each worker executes, None of a thief
    deque,      \* of each worker: the spawned calls whose continuations wait, oldest first
    pc,         \* where each call is
    child,      \* the field each call works on
    parent_id,  \* the worker that last spawned from the call
    loc,        \* where the value of a call is to be written
    end,        \* where it ended
    fresh,      \* the calls that were given a region of their own (after_env)
    mem         \* the cells written so far

vars == <<run, deque, pc, child, parent_id, loc, end, fresh, mem>>

OnePerParent(c) == [reg |-> Parent(c), off |-> 0]   \* a seeded fault
RegionStart(c) == [reg |-> c, off |-> 0]
After(a) == [a EXCEPT !.off = @ + 1]

Leaf(f) == [tag |-> "leaf", of |-> f]
Node(f) == [tag |-> "node", of |-> f, fields |-> [i \in 1 .. Fields |-> loc[Child(f, i)]]]
Indirection(a) == [tag |-> "indirection", to |-> a]

\* The memory m after the cell at a was written.
Put(m, a, cell) == [x \in DOMAIN m \cup {a} |-> IF x = a THEN cell ELSE m[x]]

PC == {"new", "entry", "build", "spawned", "calling", "sync", "suspended",
       "tie", "construct", "return", "done"}

Init ==
    /\ run = [w \in Worker |-> IF w = Main THEN Root ELSE None]
    /\ deque = [w \in Worker |-> <<>>]
    /\ pc = [f \in Frame |-> IF f = Root THEN "entry" ELSE "new"]
    /\ child = [f \in Frame |-> 1]
    /\ parent_id = [f \in Frame |-> None]
    /\ loc = [f \in Frame |-> IF f = Root THEN RegionStart(Root) ELSE None]
    /\ end = [f \in Frame |-> None]
    /\ fresh = {}
    /\ mem = <<>>

-----------------------------------------------------------------------------
(***************************************************************************)
(* The compiled function, executed by worker w.                            *)
(***************************************************************************)
At(w, f, at) == run[w] = f /\ pc[f] = at

\* mkTree_seq below the cutoff: a value without parallelism, here one cell.
WriteLeaf(w, f) ==
    /\ At(w, f, "entry")
    /\ Sequential(f)
    /\ mem' = Put(mem, loc[f], Leaf(f))
    /\ end' = [end EXCEPT ![f] = After(loc[f])]
    /\ pc' = [pc EXCEPT ![f] = "return"]
    /\ UNCHANGED <<run, deque, child, parent_id, loc, fresh>>

\* letloc l_1 = after the tag
StartFields(w, f) ==
    /\ At(w, f, "entry")
    /\ ~Sequential(f)
    /\ loc' = [loc EXCEPT ![Child(f, 1)] = After(loc[f])]
    /\ pc' = [pc EXCEPT ![f] = "build"]
    /\ UNCHANGED <<run, deque, child, parent_id, end, fresh, mem>>

SpawnLastToo(w, f) ==   \* a seeded fault
    /\ At(w, f, "build")
    /\ LET c == Child(f, child[f])
       IN /\ deque' = [deque EXCEPT ![w] = Append(@, c)]
          /\ run' = [run EXCEPT ![w] = c]
          /\ pc' = [pc EXCEPT ![f] = "spawned", ![c] = "entry"]
    /\ parent_id' = [parent_id EXCEPT ![f] = w]
    /\ UNCHANGED <<child, loc, end, fresh, mem>>

\* parent_id = GetCilkWorkerNum; x_i = spawn build
Spawn(w, f) ==
    /\ At(w, f, "build")
    /\ child[f] < Fields
    /\ LET c == Child(f, child[f])
       IN /\ deque' = [deque EXCEPT ![w] = Append(@, c)]
          /\ run' = [run EXCEPT ![w] = c]
          /\ pc' = [pc EXCEPT ![f] = "spawned", ![c] = "entry"]
    /\ parent_id' = [parent_id EXCEPT ![f] = w]
    /\ UNCHANGED <<child, loc, end, fresh, mem>>

\* seeded faults: without the comparison; behind the start of x_i
NotCompared(w, f) == ~RegionOnSpawn
BehindStart(w, f) ==
    /\ At(w, f, "spawned")
    /\ w = parent_id[f]
    /\ ~RegionOnSpawn
    /\ loc' = [loc EXCEPT ![Child(f, child[f] + 1)] = After(loc[Child(f, child[f])])]
    /\ child' = [child EXCEPT ![f] = @ + 1]
    /\ pc' = [pc EXCEPT ![f] = "build"]
    /\ UNCHANGED <<run, deque, parent_id, end, fresh, mem>>

\* cont_id = GetCilkWorkerNum; not_stolen = cont_id == parent_id
not_stolen(w, f) == w = parent_id[f] /\ ~RegionOnSpawn

\* letavail x_i; letloc l_(i+1) = after x_i
AfterAvailable(w, f) ==
    /\ At(w, f, "spawned")
    /\ not_stolen(w, f)
    /\ loc' = [loc EXCEPT ![Child(f, child[f] + 1)] = end[Child(f, child[f])]]
    /\ child' = [child EXCEPT ![f] = @ + 1]
    /\ pc' = [pc EXCEPT ![f] = "build"]
    /\ UNCHANGED <<run, deque, parent_id, end, fresh, mem>>

\* letparregion r; letloc l_(i+1) = start r, the binding after x_i pending
FreshRegion(w, f) ==
    /\ At(w, f, "spawned")
    /\ ~not_stolen(w, f)
    /\ LET d == Child(f, child[f] + 1)
       IN /\ loc' = [loc EXCEPT ![d] = RegionStart(d)]
          /\ fresh' = fresh \cup {d}
    /\ child' = [child EXCEPT ![f] = @ + 1]
    /\ pc' = [pc EXCEPT ![f] = "build"]
    /\ UNCHANGED <<run, deque, parent_id, end, mem>>

\* The last field is built by an ordinary call.
CallLast(w, f) ==
    /\ At(w, f, "build")
    /\ child[f] = Fields
    /\ run' = [run EXCEPT ![w] = Child(f, Fields)]
    /\ pc' = [pc EXCEPT ![f] = "calling", ![Child(f, Fields)] = "entry"]
    /\ UNCHANGED <<deque, child, parent_id, loc, end, fresh, mem>>

\* SyncE: the pending bindings, then an indirection from where field i - 1
\* ended to each field i that has a fresh region.
TiedLast(f) ==   \* a seeded fault, as is the next
    {i \in 2 .. Fields : Child(f, i) \in fresh /\ \A j \in i + 1 .. Fields : Child(f, j) \notin fresh}
TieFromStart(f, i) == After(loc[Child(f, i - 1)])
TiedFields(f) == {i \in 2 .. Fields : Child(f, i) \in fresh}
TieFrom(f, i) == end[Child(f, i - 1)]
Tie(w, f) ==
    /\ At(w, f, "tie")
    /\ mem' = [a \in DOMAIN mem \cup {TieFrom(f, i) : i \in TiedFields(f)} |->
                 IF \E i \in TiedFields(f) : TieFrom(f, i) = a
                 THEN Indirection(loc[Child(f, CHOOSE i \in TiedFields(f) : TieFrom(f, i) = a)])
                 ELSE mem[a]]
    /\ pc' = [pc EXCEPT ![f] = "construct"]
    /\ UNCHANGED <<run, deque, child, parent_id, loc, end, fresh>>

\* The constructor, which ends where its last field ends (Cursorize, DataConE).
Construct(w, f) ==
    /\ At(w, f, "construct")
    /\ mem' = Put(mem, loc[f], Node(f))
    /\ end' = [end EXCEPT ![f] = end[Child(f, Fields)]]
    /\ pc' = [pc EXCEPT ![f] = "return"]
    /\ UNCHANGED <<run, deque, child, parent_id, loc, fresh>>

-----------------------------------------------------------------------------
(***************************************************************************)
(* The scheduler.                                                          *)
(***************************************************************************)
ReturnCalled(w, f) ==
    /\ At(w, f, "return")
    /\ f # Root
    /\ ~Spawned(f)
    /\ run' = [run EXCEPT ![w] = Parent(f)]
    /\ pc' = [pc EXCEPT ![f] = "done", ![Parent(f)] = "sync"]
    /\ UNCHANGED <<deque, child, parent_id, loc, end, fresh, mem>>

\* The continuation of the spawn of f is the youngest on w's deque.
MayPop(w, f) == deque[w] # <<>> /\ deque[w][Len(deque[w])] = f

\* The child returns to the continuation that is still on the worker's deque.
ReturnPopped(w, f) ==
    /\ At(w, f, "return")
    /\ Spawned(f)
    /\ MayPop(w, f)
    /\ deque' = [deque EXCEPT ![w] = SubSeq(@, 1, Len(@) - 1)]
    /\ run' = [run EXCEPT ![w] = Parent(f)]
    /\ pc' = [pc EXCEPT ![f] = "done"]
    /\ UNCHANGED <<child, parent_id, loc, end, fresh, mem>>

SomeDone(f, at) == \E i \in 1 .. Fields - 1 : at[Child(f, i)] = "done"   \* a seeded fault
SpawnedDone(f, at) == \A i \in 1 .. Fields - 1 : at[Child(f, i)] = "done"

\* A seeded fault: the last child does not look for a suspended parent.
ReturnUnnoticed(w, f) ==
    /\ At(w, f, "return")
    /\ Spawned(f)
    /\ ~MayPop(w, f)
    /\ run' = [run EXCEPT ![w] = None]
    /\ pc' = [pc EXCEPT ![f] = "done"]
    /\ UNCHANGED <<deque, child, parent_id, loc, end, fresh, mem>>

\* The continuation was stolen: the last child of a suspended call resumes it,
\* any other leaves the worker without work.
ReturnStolen(w, f) ==
    /\ At(w, f, "return")
    /\ Spawned(f)
    /\ ~MayPop(w, f)
    /\ LET p == Parent(f)
           done == [pc EXCEPT ![f] = "done"]
       IN IF pc[p] = "suspended" /\ SpawnedDone(p, done)
          THEN /\ run' = [run EXCEPT ![w] = p]
               /\ pc' = [done EXCEPT ![p] = "tie"]
          ELSE /\ run' = [run EXCEPT ![w] = None]
               /\ pc' = done
    /\ UNCHANGED <<deque, child, parent_id, loc, end, fresh, mem>>

ReturnRoot(w, f) ==
    /\ At(w, f, "return")
    /\ f = Root
    /\ run' = [run EXCEPT ![w] = None]
    /\ pc' = [pc EXCEPT ![f] = "done"]
    /\ UNCHANGED <<deque, child, parent_id, loc, end, fresh, mem>>

\* cilk_sync
Sync(w, f) ==
    /\ At(w, f, "sync")
    /\ IF SpawnedDone(f, pc)
       THEN /\ pc' = [pc EXCEPT ![f] = "tie"]
            /\ UNCHANGED run
       ELSE /\ pc' = [pc EXCEPT ![f] = "suspended"]
            /\ run' = [run EXCEPT ![w] = None]
    /\ UNCHANGED <<deque, child, parent_id, loc, end, fresh, mem>>

\* Thief w takes the oldest continuation of worker v.
Steal(w, v) ==
    /\ w # v
    /\ run[w] = None
    /\ deque[v] # <<>>
    /\ run' = [run EXCEPT ![w] = Parent(deque[v][1])]
    /\ deque' = [deque EXCEPT ![v] = Tail(@)]
    /\ UNCHANGED <<pc, child, parent_id, loc, end, fresh, mem>>

-----------------------------------------------------------------------------
Step(w, f) ==
    \/ WriteLeaf(w, f) \/ StartFields(w, f) \/ Spawn(w, f)
    \/ AfterAvailable(w, f) \/ FreshRegion(w, f) \/ CallLast(w, f)
    \/ Sync(w, f) \/ Tie(w, f) \/ Construct(w, f)
    \/ ReturnCalled(w, f) \/ ReturnPopped(w, f) \/ ReturnStolen(w, f)
    \/ ReturnRoot(w, f)

Work(w) == \E f \in Frame : Step(w, f)

Next ==
    \/ \E w \in Worker : Work(w)
    \/ \E w, v \in Worker : Steal(w, v)

Spec == Init /\ [][Next]_vars

(***************************************************************************)
(* A worker that has a call to execute goes on with it.  Nothing is asked  *)
(* of the thieves: whether and whom they rob is left open.                 *)
(***************************************************************************)
FairSpec == Spec /\ \A w \in Worker : WF_vars(Work(w))

-----------------------------------------------------------------------------
Cell ==
    [tag : {"leaf"}, of : Frame]
        \cup [tag : {"node"}, of : Frame, fields : [1 .. Fields -> Address]]
        \cup [tag : {"indirection"}, to : Address]

(* Every variable has its type. *)
TypeOK ==
    /\ run \in [Worker -> Frame \cup {None}]
    /\ deque \in [Worker -> Seq(Frame)]
    /\ pc \in [Frame -> PC]
    /\ child \in [Frame -> 1 .. Fields]
    /\ parent_id \in [Frame -> Worker \cup {None}]
    /\ loc \in [Frame -> Address \cup {None}]
    /\ end \in [Frame -> Address \cup {None}]
    /\ fresh \in SUBSET Frame
    /\ \A a \in DOMAIN mem : a \in Address /\ mem[a] \in Cell

(* A field is put behind its predecessor only if the predecessor is there:
   the variables that letavail makes available before the sync have been
   returned (ParAlloc.hs, AfterVariableLE; Codegen.hs, LetAvailT). *)
AvailableIsDone ==
    \A f \in Inner, i \in 1 .. Fields - 1 :
        i < child[f] /\ Child(f, i + 1) \notin fresh => pc[Child(f, i)] = "done"

(* A constructor is only written when all of its fields are, and a call
   returns to its caller only then (ParAlloc.hs, SyncE; Codegen.hs, ParSync). *)
JoinedIsComplete ==
    \A f \in Inner :
        pc[f] \in {"tie", "construct", "return", "done"}
            => \A i \in 1 .. Fields : pc[Child(f, i)] = "done" /\ end[Child(f, i)] # None

(* Two workers never write to one region at the same time: a region has one
   cursor, and nothing guards it (Codegen.hs, NewParBuffer). *)
WritesTo(f) ==
    CASE pc[f] = "entry" -> {loc[f].reg}
      [] pc[f] = "tie" -> {TieFrom(f, i).reg : i \in TiedFields(f)}
      [] pc[f] = "construct" -> {loc[f].reg}
      [] OTHER -> {}
OneWriterPerRegion ==
    \A f, g \in Frame : f # g => WritesTo(f) \cap WritesTo(g) = {}

(* Calls never wait for each other for ever: until the program has ended some
   worker executes a call, whoever stole what from whom.  A call that is
   suspended at its sync is resumed by the last of its fields, and nothing stays
   behind on the deque of a worker that has nothing to execute (SyncE; the
   cilk_spawn and cilk_sync that Codegen.hs emits). *)
SomeoneWorks == pc[Root] # "done" => \E w \in Worker : run[w] # None

(* No cell is ever written twice, whoever writes it. *)
WrittenOnce == [][\A a \in DOMAIN mem : a \in DOMAIN mem' /\ mem'[a] = mem[a]]_vars
=============================================================================

------------------------------ MODULE ParRead -------------------------------
(***************************************************************************)
(* What the parallel allocation of ParAlloc leaves in memory, and what the *)
(* code that reads it finds there.  A value is read as the sequence of its *)
(* cells in preorder, each named after the call that built it.             *)
(***************************************************************************)
EXTENDS ParAlloc

Values == Seq(Frame \cup {None})   \* None: a cell that was never written

(***************************************************************************)
(* Readers in order (Cursorize, unpackDataCon): each field starts where    *)
(* the reading of the one before it ended.  Such a reader is a cursor, the *)
(* number of values it still has to read there, and what it has read.      *)
(***************************************************************************)
Cursor == [at : Address, left : Nat, value : Values]

IsIndirection(a) == a \in DOMAIN mem /\ mem[a].tag = "indirection"

ReadCell(s) ==
    IF s.at \notin DOMAIN mem
    THEN [s EXCEPT !.left = @ - 1, !.value = Append(@, None)]
    ELSE [at |-> After(s.at),
          left |-> IF mem[s.at].tag = "node" THEN s.left - 1 + Fields ELSE s.left - 1,
          value |-> Append(s.value, mem[s.at].of)]

\* redir_br: go on where the target of a pointer ends.
Redirect(s) == [s EXCEPT !.at = mem[s.at].to]

NextCell(s) == IF IsIndirection(s.at) THEN Redirect(s) ELSE ReadCell(s)

InOrder[s \in Cursor] == IF s.left = 0 THEN s.value ELSE InOrder[NextCell(s)]

\* indir_br: read one value at the target, then go on behind the pointer.
Place == [at : Address, left : Nat]
BehindPointer(s) == [at |-> After(s.at), left |-> s.left - 1]
GoTo(s, p) == [s EXCEPT !.at = p.at, !.left = p.left]

PastPointers[s \in Cursor, back \in Seq(Place)] ==
    IF s.left = 0
    THEN IF back = <<>> THEN s.value ELSE PastPointers[GoTo(s, Head(back)), Tail(back)]
    ELSE IF IsIndirection(s.at)
    THEN PastPointers[GoTo(s, [at |-> mem[s.at].to, left |-> 1]), <<BehindPointer(s)>> \o back]
    ELSE PastPointers[ReadCell(s), back]

(***************************************************************************)
(* A reader that uses the random access nodes of a constructor             *)
(* (Passes/AddRAN), the pointers to where its fields start: it keeps the   *)
(* starts of the values that it still has to read.                         *)
(***************************************************************************)
Visit == [todo : Seq(Address), value : Values]

NextPointer(s) ==
    LET a == Head(s.todo)
        rest == Tail(s.todo)
    IN IF a \notin DOMAIN mem THEN [todo |-> rest, value |-> Append(s.value, None)]
       ELSE IF mem[a].tag = "indirection" THEN [s EXCEPT !.todo = <<mem[a].to>> \o rest]
       ELSE [todo |-> IF mem[a].tag = "node" THEN mem[a].fields \o rest ELSE rest,
             value |-> Append(s.value, mem[a].of)]

ByPointer[s \in Visit] == IF s.todo = <<>> THEN s.value ELSE ByPointer[NextPointer(s)]

-----------------------------------------------------------------------------
\* The value at a, as each reader finds it.
Start(a) == [at |-> a, left |-> 1, value |-> <<>>]
ValueAt(a) == InOrder[Start(a)]
ValuePastPointers(a) == PastPointers[Start(a), <<>>]
ValueByPointer(a) == ByPointer[[todo |-> <<a>>, value |-> <<>>]]

\* The calls that f makes, and what a call has returned.
CallsMade(f) == IF Sequential(f) THEN <<>> ELSE [i \in 1 .. Fields |-> Child(f, i)]
ReturnedValue(f) == IF pc[f] = "done" THEN ValueAt(loc[f]) ELSE <<>>

B == INSTANCE TreeBuild
       WITH Call <- Frame, Makes <- [f \in Frame |-> CallsMade(f)],
            result <- [f \in Frame |-> ReturnedValue(f)]

(* The pieces are tied together: for whoever goes on behind the target of each
   pointer the parallel program implements the sequential one.  A call that
   returns has the value that the sequential call has, after the calls it makes,
   and what other workers write later does not change it (the header of
   ParAlloc.hs; SyncE). *)
ImplementsTreeBuild == B!Spec

(* The random access nodes lead to the same value, cell for cell: the pointer
   that a constructor has for a field and the place where the reading of the
   field before it ended may differ, but not in what is found there
   (AddRAN; Cursorize, unpackWithAbsRAN against unpackRegularDataCon). *)
PointersReadBack == \A f \in Frame : pc[f] = "done" => ValueByPointer(loc[f]) = ValueAt(loc[f])

(* The compiled readers, which go on behind an indirection, read it too: a call
   that has returned has tied its pieces together for whoever traverses the
   value in order (ParAlloc.hs:6-7, FollowPtrs.hs, indir_br). *)
IndirectionsReadBack == pc[Root] = "done" => ValuePastPointers(loc[Root]) = ValueAt(loc[Root])

(* The program ends: no call waits for ever at its sync, whatever is stolen. *)
Termination == <>(pc[Root] = "done")
=============================================================================

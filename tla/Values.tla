------------------------------- MODULE Values -------------------------------
(***************************************************************************)
(* What the generational heap promises the compiled program: variables     *)
(* hold values, with no addresses, chunks, indirections or collections.  A *)
(* value is the sequence of its constructors in preorder, each with its    *)
(* scalars as one id; while it is under construction it ends in a hole     *)
(* that names the variable which is writing there.  Variables that share   *)
(* the data under construction all see it grow.                            *)
(***************************************************************************)
EXTENDS Integers, Sequences, FiniteSetsExt, SequencesExt

CONSTANTS Var, Con, Fields,
          Id    \* what the scalars of a constructor may be

VARIABLE val    \* the value of every variable, <<>> for none

Hole(x) == <<"hole", x>>
IsHole(t) == t[1] = "hole"

\* How many values are still to come after the constructors in s.
Missing(s) == FoldLeft(LAMBDA n, t : IF IsHole(t) THEN n ELSE n - 1 + Fields[t[1]], 1, s)
Complete(s) == s # <<>> /\ Missing(s) = 0
IsWriting(x) == val[x] # <<>> /\ Last(val[x]) = Hole(x)

\* The term in s that starts with its i-th constructor, so far as it is there.
Term(s, i) ==
    LET ends == {j \in i .. Len(s) : Missing(SubSeq(s, i, j)) = 0}
    IN SubSeq(s, i, IF ends = {} THEN Len(s) ELSE Min(ends))

\* The value s after x has written the constructors in t where its hole was.
Filled(s, x, t) ==
    IF s = <<>> \/ Last(s) # Hole(x) THEN s
    ELSE LET r == Front(s) \o t
         IN IF Missing(r) = 0 THEN r ELSE Append(r, Hole(x))

-----------------------------------------------------------------------------
Init == val = [x \in Var |-> <<>>]

\* A new region for x.
Open(x) == val[x] = <<>> /\ val' = [val EXCEPT ![x] = <<Hole(x)>>]

Construct(x, con, id) ==
    /\ IsWriting(x)
    /\ val' = [z \in Var |-> Filled(val[z], x, <<<<con, id>>>>)]

\* x takes the value of y as its next field; y may be used up by that.
Include(x, y) ==
    /\ IsWriting(x)
    /\ x # y
    /\ Complete(val[y])
    /\ \E usedUp \in SUBSET {y} :
         val' = [z \in Var |-> IF z \in usedUp THEN <<>> ELSE Filled(val[z], x, val[y])]

\* y becomes a part of x, which may be used up by that.
Take(x, y, i) ==
    /\ val[y] = <<>>
    /\ i \in DOMAIN val[x]
    /\ ~IsHole(val[x][i])
    /\ \E usedUp \in SUBSET {x} :
         val' = [z \in Var |-> IF z \in usedUp THEN <<>>
                               ELSE IF z = y THEN Term(val[x], i) ELSE val[z]]

Drop(x) == ~IsWriting(x) /\ val' = [val EXCEPT ![x] = <<>>]

\* The first conjunct only spares TLC the rest for the steps of a collection,
\* which stutter.
Next ==
    /\ val' # val
    /\ \/ \E x \in Var : Open(x) \/ Drop(x)
       \/ \E x \in Var, con \in Con, id \in Id : Construct(x, con, id)
       \/ \E x, y \in Var : Include(x, y) \/ \E i \in DOMAIN val[x] : Take(x, y, i)

Spec == Init /\ [][Next]_val
=============================================================================

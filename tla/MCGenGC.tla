------------------------------ MODULE MCGenGC -------------------------------
\* Instances of the generational collector for TLC.
EXTENDS GenGC, TLC

\* One type: Leaf with seven words less one of scalars, and Node.
TreeScalars == [c \in Con |-> IF c = "Leaf" THEN 48 ELSE 0]
NoScalars == [c \in Con |-> 0]
TightScalars == [c \in Con |-> IF c = "Leaf" THEN 63 ELSE 0]
TreeFields == [c \in Con |-> IF c = "Node" THEN 2 ELSE 0]
\* Three fields, so that an inner node may hold a pointer, fill its region and go on.
TernaryFields == [c \in Con |-> IF c = "Node" THEN 3 ELSE 0]

\* Nothing tells one variable of the program from another.
VarSymmetry == Permutations(Var)
=============================================================================

----------------------------- MODULE TreeBuild ------------------------------
(***************************************************************************)
(* What parallel calls promise: spawn and sync may be read as an ordinary  *)
(* call and nothing (examples/parallel/BinTree.hs, mkTree_par against      *)
(* mkTree_seq).  Calls return in some order, callers after the calls they  *)
(* make, each with the value of the sequential program, and nothing that   *)
(* happens later changes a value that was returned.  There are no workers, *)
(* no regions and no addresses.                                            *)
(***************************************************************************)
EXTENDS SequencesExt

CONSTANTS Call,   \* the calls of the program
          Makes   \* of each call: the calls it makes, for its fields in order

VARIABLE result   \* of each call: the constructors of its value in preorder

Init == result = [f \in Call |-> <<>>]

Returned(f) == result[f] # <<>>

Return(f) ==
    /\ ~Returned(f)
    /\ \A i \in DOMAIN Makes[f] : Returned(Makes[f][i])
    /\ result' = [result EXCEPT
                    ![f] = <<f>> \o FlattenSeq([i \in DOMAIN Makes[f] |-> result[Makes[f][i]]])]

Next == \E f \in Call : Return(f)

Spec == Init /\ [][Next]_result
=============================================================================

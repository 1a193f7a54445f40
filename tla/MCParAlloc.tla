----------------------------- MODULE MCParAlloc -----------------------------
\* A call tree of two levels for TLC; the last call of the root is sequential
\* when it has more than two.
EXTENDS ParRead

Balanced == {<<>>, <<1>>, <<2>>}
=============================================================================

----------------------------- MODULE MCMeshChat -----------------------------
EXTENDS MeshChat, TLC

CONSTANTS n1, n2, n3, b1, b2

\* A line in which n1 and n3 are out of each other's range: each node hears
\* the next one, away from n1.
RelayLinks == {<<n1, n2>>, <<n2, n3>>}

PairLinks == {<<n1, n2>>, <<n2, n1>>}

NoLinks == {}

\* Every text is as long as any other.
EqualBytes == [b \in Bodies |-> 1]

\* Escaped, b2 is twice as long as b1.
EscapedBytes == [b \in Bodies |-> IF b = b2 THEN 2 ELSE 1]

BodySymmetry == Permutations(Bodies)
=============================================================================

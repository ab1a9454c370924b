----------------------------- MODULE MCDiscovery ----------------------------
EXTENDS Discovery

CONSTANTS a, c, d

\* a is the MeshGate, c follows whatever authority it hears, d none.
GateMode == [n \in Nodes |-> CASE n = a -> "authority" [] n = c -> "client" [] n = d -> "off"]

\* c hears both, a hears c, d hears nobody.
RangeLinks == {<<c, a>>, <<c, d>>, <<a, c>>}

AcceptAny == [n \in Nodes |-> Nodes]

\* The clock of c is three ticks behind the others, right, or three ahead.
Skews == [n \in Nodes |-> IF n = c THEN {0, 3, 6} ELSE {3}]
=============================================================================

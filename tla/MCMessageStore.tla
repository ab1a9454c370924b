--------------------------- MODULE MCMessageStore ---------------------------
EXTENDS MessageStore, TLC

\* Origins are only compared, so they may be permuted.
Symmetry == Permutations(Nodes)
=============================================================================

----------------------------- MODULE MCWebClient ----------------------------
EXTENDS WebClient, TLC

\* Pages and connections are only compared; messages are ordered.
Symmetry == Permutations(Pages) \cup Permutations(Conns)
=============================================================================

----------------------------- MODULE MCLuciChat -----------------------------
EXTENDS LuciChat

\* Two messages, in either order.
TwoRanks == 1..2
=============================================================================

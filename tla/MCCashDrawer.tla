----------------------------- MODULE MCCashDrawer -----------------------------
\* One branch, two cashiers, two days, two requests at the same time.
EXTENDS CashDrawer, TLC

CONSTANTS s1, s2, r1, r2

Symmetry == Permutations({s1, s2}) \cup Permutations({r1, r2})
MCAmounts == {2, -1}
=============================================================================

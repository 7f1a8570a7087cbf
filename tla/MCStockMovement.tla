--------------------------- MODULE MCStockMovement ---------------------------
\* Instances for the stock movement runs: a warehouse with two lots and a
\* branch without any, two requests at the same time.
EXTENDS StockMovement, TLC

CONSTANTS wh, br, d1, r1, r2

MCOpening == <<[at |-> wh, left |-> 1], [at |-> wh, left |-> 2]>>
Symmetry == Permutations({r1, r2})
=============================================================================

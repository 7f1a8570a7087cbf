---------------------------- MODULE MCCounterSale ----------------------------
\* Instances for the counter sale runs: two sales and one unit more than
\* needed for one, two transfers for the first sale.
EXTENDS CounterSale, TLC

CONSTANTS o1, o2, t1, t2, r1, r2, none

MCFor == [t \in {t1, t2} |-> o1]
MCForOne == [t \in {t1} |-> o1]
=============================================================================

------------------------------ MODULE MCNodeAgent ------------------------------
EXTENDS NodeAgent

CONSTANTS h1, h2, l1

\* Every file takes one unit of the quota, but the second takes two.
MCSize == [t \in Tasks |-> IF t = 2 THEN 2 ELSE 1]
=============================================================================

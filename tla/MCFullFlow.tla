----------------------------- MODULE MCFullFlow -----------------------------
\* Full flow executions: two products.
EXTENDS FullFlow

CONSTANTS p1, p2

MCProducts == {p1, p2}
=============================================================================

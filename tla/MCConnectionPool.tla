--------------------------- MODULE MCConnectionPool ---------------------------
(* A small instance of ConnectionPool: three callers, two of them of the     *)
(* same endpoint, so that probes, late answers and evictions overlap.        *)
EXTENDS ConnectionPool

CONSTANTS n1, n2, c1, c2, c3

MCName == {n1, n2}
MCCaller == {c1, c2, c3}
MCTarget == [c \in MCCaller |-> IF c = c3 THEN n2 ELSE n1]
=============================================================================

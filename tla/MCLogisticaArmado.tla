-------------------------- MODULE MCLogisticaArmado --------------------------
(* LogisticaArmado on a pack of two SKUs, one with two positions. *)
EXTENDS LogisticaArmado, TLC

CONSTANTS a1, a2, b
Pack == {a1, a2, b}
BySku == {{a1, a2}, {b}}

\* The positions of a SKU, and the requests, are interchangeable.
Symmetry == Permutations(Requests) \cup Permutations({a1, a2})
=============================================================================

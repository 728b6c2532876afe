------------------------------ MODULE MCMlReview ------------------------------
EXTENDS MlReview, TLC
Busy(f) == Cardinality({x \in DOMAIN f : f[x].at # "idle"})
\* At most two activities overlap; nothing is explored after a mishap.
Calm == mishaps = {} /\ Busy(handler) + Busy(panel) <= 2
Symmetry ==
    Permutations(Messages) \cup Permutations(Handlers) \cup Permutations(Panels)
=============================================================================

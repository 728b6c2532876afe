--------------------------- MODULE MCMlBatchQueue ---------------------------
(* MlBatchQueue on small sets of questions, batches and activations. *)
EXTENDS MlBatchQueue, TLC

\* Sound for the runs that check no liveness property.
Symmetry ==
    Permutations(Questions) \cup Permutations(Batches) \cup Permutations(Pollers)
        \cup Permutations(Webhooks)
=============================================================================

----------------------------- MODULE MCRenders -----------------------------
(* RenderApi for TLC: replicas, tenants, shots and views are interchangeable. *)
EXTENDS RenderApi, TLC

Symmetry ==
    Permutations(Replicas) \cup Permutations(Tenants) \cup Permutations(Shots)
        \cup Permutations(Views)
=============================================================================

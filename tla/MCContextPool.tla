--------------------------- MODULE MCContextPool ---------------------------
(* A small instance of ContextPool for TLC. *)
EXTENDS ContextPool, TLC

Symmetry == Permutations(Ctxs) \cup Permutations(Reqs)
=============================================================================

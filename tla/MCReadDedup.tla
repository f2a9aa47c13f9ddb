----------------------------- MODULE MCReadDedup -----------------------------
(* Instances of ReadDedup for TLC. *)
EXTENDS ReadDedup, TLC

Symmetry == Permutations(Agent) \cup Permutations(Key) \cup Permutations(Content)
==============================================================================

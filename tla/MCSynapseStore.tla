--------------------------- MODULE MCSynapseStore ---------------------------
(* Instances of SynapseStore for TLC. *)
EXTENDS SynapseStore, TLC

\* Rounding down composes.
Halved(w, n) == w \div 2^n

Symmetry == Permutations(Proc) \cup Permutations(Pair)
================================================================================

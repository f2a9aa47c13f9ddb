------------------------------ MODULE MCAuditGap ------------------------------
(* Instances of AuditGap for TLC. *)
EXTENDS AuditGap, TLC

\* Processes are interchangeable.
Symmetry == Permutations(Proc)
===============================================================================

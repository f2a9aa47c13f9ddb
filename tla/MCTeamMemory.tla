---------------------------- MODULE MCTeamMemory ----------------------------
(* Instances of TeamMemory for TLC. *)
EXTENDS TeamMemory, TLC

\* What is still to be asked of a run: whether the bundle changed, or else whether
\* another run overlapped an import or review, or else whether a step failed; at its
\* end only which bundle it was, and whether anything disturbed it.
Matters(j) ==
    IF "bundle" \in j.changed THEN {"bundle"}
    ELSE IF j.op \in {"publish", "retract"} THEN {}
    ELSE IF "run" \in j.changed THEN {"run"} ELSE j.changed

Rest(j) ==
    CASE j = Idle -> j
      [] j # Idle /\ j.at = "mark" -> <<j.op = "import" /\ j.changed = {}, j.bundle, j.unread>>
      [] OTHER -> [j EXCEPT !.changed = Matters(j)]

Distinct ==
    <<bundle, broken, shared, pending, imported, pulls, events, excuse,
      [p \in Proc |-> Rest(job[p])]>>

Symmetry == Permutations(Proc) \cup Permutations(Pair)
================================================================================

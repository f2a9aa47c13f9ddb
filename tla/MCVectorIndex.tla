----------------------------- MODULE MCVectorIndex -----------------------------
(* Instances of VectorIndex for TLC. *)
EXTENDS VectorIndex, TLC

CONSTANTS w, b

\* A long-lived process that builds and follows edits; commands that build and
\* ingest.
MCDoes == {<<w, "build">>, <<w, "update">>, <<w, "search">>, <<b, "build">>, <<b, "ingest">>}

\* Once a row may have lost its vector, how it did makes no difference to what follows.
Distinct ==
    <<source, graph, rows, writer, txn, file, mem, pc, job, edits, trouble, alone,
      excuse = {}, IF excuse = {} THEN behind ELSE {}>>

Symmetry == Permutations(Text)
================================================================================

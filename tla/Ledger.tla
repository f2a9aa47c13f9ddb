-------------------------------- MODULE Ledger --------------------------------
(***************************************************************************)
(* What the audit log promises its callers, without files, locks or        *)
(* processes: a set of records that only grows, by one record at a time,   *)
(* and in which every record that was acknowledged is found.               *)
(***************************************************************************)
EXTENDS Naturals

VARIABLES entries, \* the records, by hash
          told     \* those a caller was told are recorded

ledgerVars == <<entries, told>>

LedgerInit == entries = {} /\ told = {}

\* One record, newer than every other.  Its caller learns of it in the same
\* step or, if the process dies or the disk is full, never.
Enter ==
    \E e \in entries' \ entries :
        /\ \A old \in entries : old < e
        /\ entries' = entries \cup {e}
        /\ told' \in {told, told \cup {e}}

LedgerSpec == LedgerInit /\ [][Enter]_ledgerVars
===============================================================================

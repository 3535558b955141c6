------------------------------ MODULE MCReport ------------------------------
(***************************************************************************)
(* Two readers, one of which may write while the other makes two reports;  *)
(* a report outlives two snapshots.                                        *)
(***************************************************************************)
EXTENDS Report

CONSTANTS r1, r2    \* Model values.

MCReaders == {r1, r2}

=============================================================================

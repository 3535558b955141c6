------------------------------- MODULE MCSync -------------------------------
(***************************************************************************)
(* SyncCalculator on 3-bit words: three calls and two readers make lines   *)
(* of five, and the totals overflow.                                       *)
(***************************************************************************)
EXTENDS SyncCalculator, TLC

CONSTANTS c1, c2, c3, r1, r2    \* Model values.

MCCalls == {c1, c2, c3}
MCReaders == {r1, r2}
MCNum == (c1 :> 3) @@ (c2 :> 2) @@ (c3 :> -3)

=============================================================================

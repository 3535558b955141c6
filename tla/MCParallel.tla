------------------------------ MODULE MCParallel ------------------------------
(***************************************************************************)
(* ParallelCalculator on 3-bit words with three calls: enough for a queue  *)
(* of one to be full while a third call arrives, for the servers to see    *)
(* the numbers in different orders, and for the totals to overflow.        *)
(***************************************************************************)
EXTENDS ParallelCalculator, TLC

CONSTANTS c1, c2, c3, r1    \* Model values.

MCCalls == {c1, c2, c3}
MCReaders == {r1}
MCNum == (c1 :> 3) @@ (c2 :> 2) @@ (c3 :> -3)
MCQueueSizes == {0, 1}

=============================================================================

------------------------------- MODULE MCAsync -------------------------------
(***************************************************************************)
(* AsyncCalculator on 3-bit words: four calls are enough for either total  *)
(* to overflow, for two batches of two samples to fill up or one to be     *)
(* flushed with a single sample, and for queues of one and two to be full. *)
(***************************************************************************)
EXTENDS AsyncCalculator

CONSTANTS c1, c2, r1    \* The goroutines: model values.

MCClients == {c1, c2}
MCReaders == {r1}
MCNums == {1, 3}
MCQueueSizes == {0, 1, 2}

=============================================================================

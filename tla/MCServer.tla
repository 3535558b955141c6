------------------------------ MODULE MCServer ------------------------------
(***************************************************************************)
(* Server in its three modes and under both HTTP servers, with three       *)
(* requests, queues and the aggregator's channel of one, batches of two:   *)
(* the channel is full while a batch waits, the queue is full while a      *)
(* request comes, a batch is flushed full, by its timer, or at the end.    *)
(***************************************************************************)
EXTENDS Server

CONSTANTS c1, c2, c3    \* Model values.

MCCalls == {c1, c2, c3}

=============================================================================

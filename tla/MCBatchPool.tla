----------------------------- MODULE MCBatchPool -----------------------------
(***************************************************************************)
(* Two recorders that share the pool, batches of up to two samples, a      *)
(* channel of one: a recorder fills a buffer that has come back while the  *)
(* aggregator is at another and a third waits.                             *)
(***************************************************************************)
EXTENDS BatchPool

CONSTANTS sum, sub    \* Model values.

MCPoolRecorders == {sum, sub}

=============================================================================

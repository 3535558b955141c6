------------------------------- MODULE MCDedup -------------------------------
(***************************************************************************)
(* Dedup with two callers and two messages, unbuffered and with a queue of *)
(* one; a window of two steps.  Four calls are a message, its count, the   *)
(* same again in the next window, and one to be left behind by Close.      *)
(***************************************************************************)
EXTENDS Dedup

CONSTANTS c1, c2, m1, m2    \* Model values.

MCCallers == {c1, c2}
MCMsgs == {m1, m2}
MCQueueSizes == {0, 1}

=============================================================================

----------------------------- MODULE MCGenerator -----------------------------
(***************************************************************************)
(* Two workers and two requests: one late worker while the other is        *)
(* received, both late, errors that the logger prints, counts, or takes    *)
(* too late.                                                               *)
(***************************************************************************)
EXTENDS Generator

CONSTANTS w1, w2, failed    \* Model values.

MCWorkers == {w1, w2}
MCCallers == {w1, w2, mainThread}
MCQueueSizes == {2}
MCMsgs == {failed}

=============================================================================

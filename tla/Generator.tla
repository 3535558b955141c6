------------------------------ MODULE Generator ------------------------------
(***************************************************************************)
(* cmd/generator: the source of numbers, the workers with their requests   *)
(* and statistics, and main, which stops them, waits for their statistics  *)
(* for a while, closes the logger and reports.  The logger is Dedup, whose *)
(* state and steps are part of the program here: workers and main are its  *)
(* Callers, and a step of theirs that calls it is a step of both.  The     *)
(* process may end any time after main has reported; what late workers do  *)
(* until then is what matters.                                             *)
(***************************************************************************)
EXTENDS Dedup, Functions

CONSTANTS
  Workers,        \* The threads, 1 .. cfg.Threads.
  mainThread      \* The goroutine of main.

(* NewDedup is called with the number of threads.  Numbers are taken, and  *)
(* so requests fail and call Printf, at most MaxCalls times.               *)
ASSUME GeneratorAssumption ==
  /\ IsFiniteSet(Workers) /\ Workers # {} /\ IsFiniteSet(Msgs)
  /\ mainThread \notin Workers
  /\ Callers = Workers \cup {mainThread}
  /\ QueueSizes = {Cardinality(Workers)}

VARIABLES
  pausing,      \* cfg.Interval > 0.
  cancelled,    \* ctx is done: a signal, or cfg.Duration is over.
  source,       \* The generator's goroutine: "select", or "closed" with nums.
  worker,       \* Each worker: in its first pause ("sleep"), at its select,
                \* in DoRequest ("request"), in the pause between requests, at
                \* `done <-` ("send"), or ended; in Printf before it goes on.
  stat,         \* The Stat of each worker.
  finished,     \* The channel `done`: whose statistics are in it.
  main,         \* main: at `<-ctx.Done()` and in waitWorkers ("wait"), in
                \* logger.Close ("close"), at its "report".
  merged,       \* merged of waitWorkers.
  received,     \* History: whose statistics went into it.
  requests      \* How many numbers were taken (bounded by MaxCalls).

ctxVars    == <<pausing, cancelled, source>>
workerVars == <<worker, stat, requests>>
mainVars   == <<main, merged, received>>
genVars    == <<ctxVars, workerVars, finished, mainVars>>

(* vars are the logger's. *)
allVars == <<genVars, vars>>

-----------------------------------------------------------------------------
(***************************************************************************)
(* Statistics.  A request that succeeds counts in the histogram, or, when  *)
(* it took longer than that can hold, in the overflow.                     *)
(***************************************************************************)
NewStat == [Ok |-> 0, Errors |-> 0, Hist |-> 0, Overflow |-> 0]

(* A bug to tell apart: the overflow is left out. *)
MergeTracked(s, other) ==
  [f \in DOMAIN s |-> IF f = "Overflow" THEN s[f] ELSE s[f] + other[f]]

(* The statistics nil of a worker that ended in its first pause has no     *)
(* effect, as those of a worker that has done nothing.                     *)
Merge(s, other) == [f \in DOMAIN s |-> s[f] + other[f]]

(* A bug to tell apart: the channel holds the statistics of one worker. *)
DoneCapOne == 1

DoneCap == Cardinality(Workers)

GenInit ==
  /\ pausing \in BOOLEAN
  /\ cancelled = FALSE
  /\ source = "select"
  /\ worker = [w \in Workers |-> "sleep"]
  /\ stat = [w \in Workers |-> NewStat]
  /\ finished = <<>>
  /\ main = "wait"
  /\ merged = NewStat
  /\ received = {}
  /\ requests = 0
  /\ Init

At(w, where) == worker[w] = where /\ caller[w] = "idle"

Goes(w, to) == worker' = [worker EXCEPT ![w] = to]

-----------------------------------------------------------------------------
(***************************************************************************)
(* The context and the source of numbers.                                  *)
(***************************************************************************)
Cancel ==
  /\ ~cancelled
  /\ cancelled' = TRUE
  /\ UNCHANGED <<pausing, source, workerVars, finished, mainVars, vars>>

SourceStops ==
  /\ source = "select"
  /\ cancelled
  /\ source' = "closed"
  /\ UNCHANGED <<pausing, cancelled, workerVars, finished, mainVars, vars>>

(***************************************************************************)
(* A worker.                                                               *)
(***************************************************************************)
(* Without jitter the first pause ends at once. *)
SleepEnds(w) ==
  /\ At(w, "sleep")
  /\ \/ Goes(w, "select")
     \/ cancelled /\ Goes(w, "send")
  /\ UNCHANGED <<ctxVars, stat, finished, mainVars, requests, vars>>

(* nums is unbuffered: both are at their selects. *)
TakeNum(w) ==
  /\ At(w, "select")
  /\ source = "select"
  /\ requests < MaxCalls
  /\ requests' = requests + 1
  /\ Goes(w, "request")
  /\ UNCHANGED <<ctxVars, stat, finished, mainVars, vars>>

Leave(w) ==
  /\ At(w, "select")
  /\ cancelled \/ source = "closed"
  /\ Goes(w, "send")
  /\ UNCHANGED <<ctxVars, stat, finished, mainVars, requests, vars>>

AfterRequest == IF pausing THEN "pause" ELSE "select"

RequestSucceeds(w) ==
  /\ At(w, "request")
  /\ \E f \in {"Hist", "Overflow"} :
       stat' = [stat EXCEPT ![w].Ok = @ + 1, ![w][f] = @ + 1]
  /\ Goes(w, AfterRequest)
  /\ UNCHANGED <<ctxVars, finished, mainVars, requests, vars>>

(* A timeout, a broken connection or a status that is not OK: the worker   *)
(* goes on when Printf has returned.                                       *)
RequestFails(w) ==
  /\ At(w, "request")
  /\ stat' = [stat EXCEPT ![w].Errors = @ + 1]
  /\ \E m \in Msgs : CallPrintf(w, m)
  /\ Goes(w, AfterRequest)
  /\ UNCHANGED <<ctxVars, finished, mainVars, requests>>

PauseEnds(w) ==
  /\ At(w, "pause")
  /\ \/ Goes(w, "select")
     \/ cancelled /\ Goes(w, "send")
  /\ UNCHANGED <<ctxVars, stat, finished, mainVars, requests, vars>>

(* A bug to tell apart: the `return` behind `done <- nil` is missing, and a *)
(* worker that was cancelled in its first pause goes on to Run.            *)
DeliverAndGo(w) ==
  /\ At(w, "send")
  /\ Len(finished) < DoneCap
  /\ finished' = Append(finished, w)
  /\ Goes(w, IF stat[w] = NewStat THEN "select" ELSE "ended")
  /\ UNCHANGED <<ctxVars, stat, mainVars, requests, vars>>

Deliver(w) ==
  /\ At(w, "send")
  /\ Len(finished) < DoneCap
  /\ finished' = Append(finished, w)
  /\ Goes(w, "ended")
  /\ UNCHANGED <<ctxVars, stat, mainVars, requests, vars>>

-----------------------------------------------------------------------------
(***************************************************************************)
(* main.                                                                   *)
(***************************************************************************)
(* A bug to tell apart: main reports while the logger is closing. *)
ReportEarly ==
  /\ main = "close"
  /\ main' = "report"
  /\ UNCHANGED <<ctxVars, workerVars, finished, merged, received, vars>>

(* The loop of waitWorkers is over, and main calls logger.Close. *)
WaitEnds ==
  /\ main' = "close"
  /\ CallClose(mainThread)

ReceiveStat ==
  /\ main = "wait"
  /\ cancelled
  /\ finished # <<>>
  /\ merged' = Merge(merged, stat[Head(finished)])
  /\ received' = received \cup {Head(finished)}
  /\ finished' = Tail(finished)
  /\ \/ received' # Workers /\ UNCHANGED <<main, vars>>
     \/ received' = Workers /\ WaitEnds
  /\ UNCHANGED <<ctxVars, workerVars>>

(* The timer has fired, be there statistics in the channel or not. *)
TimeOut ==
  /\ main = "wait"
  /\ cancelled
  /\ WaitEnds
  /\ UNCHANGED <<ctxVars, workerVars, finished, merged, received>>

Report ==
  /\ main = "close"
  /\ caller[mainThread] = "idle"
  /\ main' = "report"
  /\ UNCHANGED <<ctxVars, workerVars, finished, merged, received, vars>>

-----------------------------------------------------------------------------
(* The steps of the logger, with a queue for as many commands as workers. *)
LoggerStep ==
  /\ \/ \E c \in Callers :
          Send(c) \/ SendAfterDone(c) \/ CloseReturns(c)
     \/ ReceiveBuffered \/ ReceiveTick \/ CloseDone
     \/ Clock
  /\ UNCHANGED genVars

(* What a worker does when it neither takes a number nor is in a request. *)
Proceed(w) == SleepEnds(w) \/ Leave(w) \/ PauseEnds(w) \/ Deliver(w)

MainStep == ReceiveStat \/ TimeOut \/ Report

GenNext ==
  \/ Cancel \/ SourceStops
  \/ \E w \in Workers :
       TakeNum(w) \/ RequestSucceeds(w) \/ RequestFails(w) \/ Proceed(w)
  \/ MainStep
  \/ LoggerStep

GenSpec == GenInit /\ [][GenNext]_allVars

(***************************************************************************)
(* A runnable goroutine is eventually scheduled, timers fire, and the      *)
(* logger is as fair as Dedup has it.  The source finds ctx done whenever  *)
(* it is at its select.  Nobody need cancel, and no request need come      *)
(* back: its timeout may be longer than main waits.                        *)
(***************************************************************************)
GenFairness ==
  /\ \A w \in Workers : WF_allVars(Proceed(w))
  /\ WF_allVars(SourceStops) /\ WF_allVars(MainStep)
  /\ Fairness

GenFairSpec == GenSpec /\ GenFairness

-----------------------------------------------------------------------------
(***************************************************************************)
(* Properties.                                                             *)
(***************************************************************************)
Stat == [Ok : Nat, Errors : Nat, Hist : Nat, Overflow : Nat]

(* Statistics in the channel are those of workers that have ended, each    *)
(* worker's once and not yet merged.                                       *)
GenTypeOK ==
  /\ pausing \in BOOLEAN /\ cancelled \in BOOLEAN
  /\ source \in {"select", "closed"}
  /\ worker \in [Workers -> {"sleep", "select", "request", "pause", "send",
                             "ended"}]
  /\ stat \in [Workers -> Stat] /\ merged \in Stat
  /\ finished \in Seq(Workers) /\ Len(finished) <= DoneCap
  /\ IsInjective(finished)
  /\ Range(finished) \subseteq {w \in Workers \ received : worker[w] = "ended"}
  /\ main \in {"wait", "close", "report"}
  /\ received \subseteq Workers
  /\ requests \in 0 .. MaxCalls
  /\ TypeOK

(* How many requests of the workers `ws` the field f of their statistics   *)
(* counts.                                                                 *)
Count(f, ws) == FoldFunctionOnSet(+, 0, [w \in Workers |-> stat[w][f]], ws)

(* What main reports is, field by field, the final statistics of the       *)
(* workers it received them from: each merged once and whole, none half    *)
(* done by a worker that is late.  Every request that has come back is     *)
(* counted once, by its worker.                                            *)
ReportComplete ==
  /\ \A f \in DOMAIN merged : merged[f] = Count(f, received)
  /\ \A w \in received : worker[w] = "ended"
  /\ merged.Ok = merged.Hist + merged.Overflow
  /\ requests = Count("Ok", Workers) + Count("Errors", Workers)
                + Cardinality({w \in Workers : worker[w] = "request"})

(* Every error that the report counts has been printed by then, by a line  *)
(* of its own or in the count of one: main closes the logger behind the    *)
(* last Printf of every worker it received, and ahead of the report.       *)
ErrorsPrinted ==
  main = "report" =>
    merged.Errors <= FoldFunctionOnSet(+, 0, reported, Msgs)

(* Once ctx is done main reports, although requests may never come back,   *)
(* and nothing but a request holds up a worker on its way to its end: not  *)
(* its pauses, nor its select, nor a logger that has been closed, nor a    *)
(* channel that main does not read any more.                               *)
ShutdownCompletes ==
  /\ cancelled ~> main = "report"
  /\ \A w \in Workers : cancelled ~> worker[w] \in {"request", "ended"}

=============================================================================

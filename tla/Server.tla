-------------------------------- MODULE Server --------------------------------
(***************************************************************************)
(* servers.Run: the calculator, the periodic printer and the metrics       *)
(* aggregator from the start of the HTTP server to the deferred stops.     *)
(*                                                                         *)
(* The components are seen from outside: a calculator is the numbers it    *)
(* has accepted and applied and the samples it has in its batch (how its   *)
(* goroutine works inside is AsyncCalculator's and ParallelCalculator's    *)
(* business), the aggregator is the channel it reads.  What is modelled in *)
(* full is how they wait for each other.                                   *)
(***************************************************************************)
EXTENDS Integers, Sequences, Functions

CONSTANTS
  Calls,      \* The requests POST /calc, each with its handler.
  QueueSize,  \* cfg.QueueSize (cmd/server refuses one that is not positive).
  BatchSize,  \* samplesBatchSize.
  ChanSize    \* aggregatorQueueSize.

ASSUME ServerAssumption ==
  QueueSize \in Nat \ {0} /\ BatchSize \in Nat \ {0} /\ ChanSize \in Nat \ {0}

(* The totals: those of Sync and Async are one, Parallel has two.          *)
Op == {"all", "sum", "sub"}

VARIABLES
  mode,       \* cfg.CalcMode.
  server,     \* cfg.ServerType.
  orderly,    \* How the HTTP server ends: by a Shutdown that waits for every
              \* handler, or by a failure with handlers in flight.
  run,        \* Run: "serving", the component it stops, or "returned".
  call,       \* Each request: new, at a total, in RecordSample ("record"), ok,
              \* overloaded, or panicked.
  queue,      \* How many numbers each numCh holds.
  closed,     \* Each numCh was closed.
  applied,    \* How many numbers each total includes.
  batch,      \* How many samples each recorder has in its batch.
  serve,      \* Where the goroutine of each total is; "none" without one.
  chan,       \* The aggregator's channel: the size of each batch in it.
  agg,        \* The aggregator's serve: "select" or "ended".
  recorded,   \* History: how many samples the aggregator received.
  printer,    \* The printer: at its select, at the total it asks for, "ended".
  label,      \* The label of the line the printer is making.
  got,        \* Its Values so far, kept for the final line only.
  line        \* The last line printed; of a periodic one just the label.

calcVars  == <<queue, closed, applied, batch, serve>>
aggVars   == <<chan, agg, recorded>>
printVars == <<printer, label, got, line>>
confVars  == <<mode, server, orderly>>

vars == <<confVars, run, call, calcVars, aggVars, printVars>>

-----------------------------------------------------------------------------
(* The totals of the calculator, in the order Calculate, Values and Stop   *)
(* go through them.                                                        *)
Totals == IF mode = "parallel" THEN {"sum", "sub"} ELSE {"all"}

First == IF mode = "parallel" THEN "sum" ELSE "all"

None == [o \in Op |-> 0]

(* A panic in a handler is recovered by net/http, which closes that one    *)
(* connection.  fasthttp and its handlers recover nothing: the process is  *)
(* gone, with every goroutine and what Run had left to do.                 *)
Alive == server = "fasthttp" => \A c \in Calls : call[c] # "panicked"

Init ==
  /\ mode \in {"sync", "async", "parallel"}
  /\ server \in {"stdhttp", "fasthttp"}
  /\ orderly \in BOOLEAN
  /\ run = "serving"
  /\ call = [c \in Calls |-> "new"]
  /\ queue = None /\ applied = None /\ batch = None
  /\ closed = [o \in Op |-> FALSE]
  /\ serve = [o \in Op |-> IF mode # "sync" /\ o \in Totals THEN "select" ELSE "none"]
  /\ chan = <<>>
  /\ agg = "select"
  /\ recorded = 0
  /\ printer = "select" /\ label = "periodic" /\ got = None
  /\ line = [label |-> "none", vals |-> None]

-----------------------------------------------------------------------------
(***************************************************************************)
(* The handlers of POST /calc.                                             *)
(***************************************************************************)
CallCalculate(c) ==
  /\ Alive /\ call[c] = "new"
  /\ orderly => run = "serving"
  /\ call' = [call EXCEPT ![c] = First]
  /\ UNCHANGED <<confVars, run, calcVars, aggVars, printVars>>

(* Sync: the handler calculates under the lock and records its sample.     *)
CalculateSync(c) ==
  /\ Alive /\ mode = "sync"
  /\ call[c] = "all"
  /\ applied' = [applied EXCEPT !["all"] = @ + 1]
  /\ call' = [call EXCEPT ![c] = "record"]
  /\ UNCHANGED <<confVars, run, queue, closed, batch, serve, aggVars, printVars>>

RecordSample(c) ==
  /\ Alive /\ call[c] = "record"
  /\ agg # "ended"
  /\ Len(chan) < ChanSize
  /\ chan' = Append(chan, 1)
  /\ call' = [call EXCEPT ![c] = "ok"]
  /\ UNCHANGED <<confVars, run, calcVars, agg, recorded, printVars>>

RecordSamplePanics(c) ==
  /\ Alive /\ call[c] = "record"
  /\ agg = "ended"
  /\ call' = [call EXCEPT ![c] = "panicked"]
  /\ UNCHANGED <<confVars, run, calcVars, aggVars, printVars>>

(* Async and Parallel: the number goes to the channel of one total after   *)
(* the other; only the first may be refused.                               *)
Enqueue(c, o) ==
  /\ Alive /\ mode # "sync"
  /\ call[c] = o
  /\ ~closed[o]
  /\ queue[o] < QueueSize
  /\ queue' = [queue EXCEPT ![o] = @ + 1]
  /\ call' = [call EXCEPT ![c] = IF o = "sum" THEN "sub" ELSE "ok"]
  /\ UNCHANGED <<confVars, run, closed, applied, batch, serve, aggVars, printVars>>

Overloaded(c, o) ==
  /\ Alive /\ mode # "sync"
  /\ call[c] = o /\ o # "sub"
  /\ ~closed[o]
  /\ queue[o] = QueueSize
  /\ call' = [call EXCEPT ![c] = "overloaded"]
  /\ UNCHANGED <<confVars, run, calcVars, aggVars, printVars>>

EnqueuePanics(c, o) ==
  /\ Alive /\ call[c] = o
  /\ closed[o]
  /\ call' = [call EXCEPT ![c] = "panicked"]
  /\ UNCHANGED <<confVars, run, calcVars, aggVars, printVars>>

-----------------------------------------------------------------------------
(***************************************************************************)
(* The goroutines of the calculator.                                       *)
(***************************************************************************)
Apply(o) ==
  /\ Alive /\ serve[o] = "select"
  /\ queue[o] > 0
  /\ queue' = [queue EXCEPT ![o] = @ - 1]
  /\ applied' = [applied EXCEPT ![o] = @ + 1]
  /\ batch' = [batch EXCEPT ![o] = @ + 1]
  /\ serve' = [serve EXCEPT ![o] = IF batch'[o] >= BatchSize THEN "flush" ELSE @]
  /\ UNCHANGED <<confVars, run, call, closed, aggVars, printVars>>

ReceiveTick(o) ==
  /\ Alive /\ serve[o] = "select"
  /\ batch[o] > 0
  /\ serve' = [serve EXCEPT ![o] = "flush"]
  /\ UNCHANGED <<confVars, run, call, queue, closed, applied, batch, aggVars,
                 printVars>>

(* A bug to tell apart: the batch is not reset. *)
FlushKept(o) ==
  /\ Alive /\ serve[o] = "flush"
  /\ agg # "ended"
  /\ Len(chan) < ChanSize
  /\ chan' = Append(chan, batch[o])
  /\ serve' = [serve EXCEPT ![o] = "select"]
  /\ UNCHANGED <<confVars, run, call, queue, closed, applied, batch, agg, recorded,
                 printVars>>

(* recordFn is a send to the aggregator.  One that has ended would make it *)
(* panic, and the process end, whatever the HTTP server recovers: it never *)
(* meets one (SamplesDelivered).                                           *)
Flush(o) ==
  /\ Alive /\ serve[o] = "flush"
  /\ agg # "ended"
  /\ Len(chan) < ChanSize
  /\ chan' = Append(chan, batch[o])
  /\ batch' = [batch EXCEPT ![o] = 0]
  /\ serve' = [serve EXCEPT ![o] = "select"]
  /\ UNCHANGED <<confVars, run, call, queue, closed, applied, agg, recorded,
                 printVars>>

(* A bug to tell apart: the last batch is not waited for. *)
ExitUnflushed(o) ==
  /\ Alive /\ serve[o] = "select"
  /\ closed[o] /\ queue[o] = 0
  /\ serve' = [serve EXCEPT ![o] = "ended"]
  /\ UNCHANGED <<confVars, run, call, queue, closed, applied, batch, aggVars,
                 printVars>>

(* The queue is drained; a batch is flushed on the way out (the deferred   *)
(* flush does nothing without one).                                        *)
Exit(o) ==
  /\ Alive /\ serve[o] = "select"
  /\ closed[o] /\ queue[o] = 0
  /\ serve' = [serve EXCEPT ![o] = IF batch[o] > 0 THEN "lastFlush" ELSE "ended"]
  /\ UNCHANGED <<confVars, run, call, queue, closed, applied, batch, aggVars,
                 printVars>>

LastFlush(o) ==
  /\ Alive /\ serve[o] = "lastFlush"
  /\ agg # "ended"
  /\ Len(chan) < ChanSize
  /\ chan' = Append(chan, batch[o])
  /\ batch' = [batch EXCEPT ![o] = 0]
  /\ serve' = [serve EXCEPT ![o] = "ended"]
  /\ UNCHANGED <<confVars, run, call, queue, closed, applied, agg, recorded,
                 printVars>>

(***************************************************************************)
(* The aggregator.                                                         *)
(***************************************************************************)
Receive ==
  /\ Alive /\ agg = "select"
  /\ chan # <<>>
  /\ recorded' = recorded + Head(chan)
  /\ chan' = Tail(chan)
  /\ UNCHANGED <<confVars, run, call, calcVars, agg, printVars>>

-----------------------------------------------------------------------------
(***************************************************************************)
(* The periodic printer.                                                   *)
(***************************************************************************)
PrinterTick ==
  /\ Alive /\ printer = "select"
  /\ label' = "periodic"
  /\ printer' = First
  /\ UNCHANGED <<confVars, run, call, calcVars, aggVars, got, line>>

(* stopCh is closed when Run stops the printer. *)
PrinterStop ==
  /\ Alive /\ printer = "select"
  /\ run = "printer"
  /\ label' = "final"
  /\ printer' = First
  /\ UNCHANGED <<confVars, run, call, calcVars, aggVars, got, line>>

Answered(o) == serve[o] \in {"none", "select", "ended"}

(* A bug to tell apart: the printer goes on after its final line. *)
AfterLineAgain == "select"

(* The final line is the printer's last. *)
AfterLine == IF label = "final" THEN "ended" ELSE "select"

(* Values: the total is copied under the lock (Sync), sent by the          *)
(* goroutine from its select, or read once that has ended.                 *)
ReceiveValue(o) ==
  /\ Alive /\ printer = o
  /\ Answered(o)
  /\ got' = IF label = "final" THEN [got EXCEPT ![o] = applied[o]] ELSE None
  /\ \/ o = "sum" /\ printer' = "sub" /\ UNCHANGED line
     \/ /\ o # "sum"
        /\ printer' = AfterLine
        /\ line' = [label |-> label, vals |-> got']
  /\ UNCHANGED <<confVars, run, call, calcVars, aggVars, label>>

-----------------------------------------------------------------------------
(***************************************************************************)
(* Run: the HTTP server ends, then the deferred calls, last deferred first.*)
(***************************************************************************)
InFlight == {c \in Calls : call[c] \in Op \cup {"record"}}

(* A bug to tell apart: the calculator is not stopped. *)
AfterServerPrinter == "printer"

AfterServer == IF mode = "sync" THEN "printer" ELSE "calculator"

(* Stop of the calculator begins with close(numCh) of its first total. *)
ServerEnds ==
  /\ Alive /\ run = "serving"
  /\ orderly => InFlight = {}
  /\ run' = AfterServer
  /\ closed' = [closed EXCEPT ![First] = (run' = "calculator")]
  /\ UNCHANGED <<confVars, call, queue, applied, batch, serve, aggVars, printVars>>

(* Parallel stops Sub after Sum. *)
SumStopped ==
  /\ Alive /\ run = "calculator" /\ mode = "parallel"
  /\ serve["sum"] = "ended" /\ ~closed["sub"]
  /\ closed' = [closed EXCEPT !["sub"] = TRUE]
  /\ UNCHANGED <<confVars, run, call, queue, applied, batch, serve, aggVars,
                 printVars>>

CalculatorStopped ==
  /\ Alive /\ run = "calculator"
  /\ \A o \in Totals : serve[o] = "ended"
  /\ run' = "printer"
  /\ UNCHANGED <<confVars, call, calcVars, aggVars, printVars>>

PrinterStopped ==
  /\ Alive /\ run = "printer"
  /\ printer = "ended"
  /\ run' = "aggregator"
  /\ UNCHANGED <<confVars, call, calcVars, aggVars, printVars>>

(* serve of the aggregator takes its stop case, whatever the channels hold,*)
(* and closes them.                                                        *)
AggregatorEnds ==
  /\ Alive /\ run = "aggregator"
  /\ agg = "select"
  /\ agg' = "ended"
  /\ UNCHANGED <<confVars, run, call, calcVars, chan, recorded, printVars>>

AggregatorStopped ==
  /\ Alive /\ run = "aggregator"
  /\ agg = "ended"
  /\ run' = "returned"
  /\ UNCHANGED <<confVars, call, calcVars, aggVars, printVars>>

-----------------------------------------------------------------------------
Handle(c) ==
  \/ CalculateSync(c) \/ RecordSample(c) \/ RecordSamplePanics(c)
  \/ \E o \in Op : Enqueue(c, o) \/ Overloaded(c, o) \/ EnqueuePanics(c, o)

Serve(o) == Apply(o) \/ ReceiveTick(o) \/ Flush(o) \/ Exit(o) \/ LastFlush(o)

Stops == SumStopped \/ CalculatorStopped \/ PrinterStopped \/ AggregatorStopped

Next ==
  \/ \E c \in Calls : CallCalculate(c) \/ Handle(c)
  \/ \E o \in Op : Serve(o) \/ ReceiveValue(o)
  \/ Receive \/ AggregatorEnds
  \/ PrinterTick \/ PrinterStop
  \/ ServerEnds \/ Stops

Spec == Init /\ [][Next]_vars

(***************************************************************************)
(* A runnable goroutine of a live process is eventually scheduled, and     *)
(* recorders send in order.  Each request is handled once, so that         *)
(* channels and goroutines come to rest and weak fairness is enough for    *)
(* what waits for them; only the printer's select may find a tick whenever *)
(* it finds stopCh closed, and it picks uniformly: SF.  There need be no   *)
(* requests, no ticks, and the HTTP server need not end.                   *)
(***************************************************************************)
Fairness ==
  /\ \A c \in Calls : WF_vars(Handle(c))
  /\ \A o \in Op : WF_vars(Serve(o)) /\ WF_vars(ReceiveValue(o))
  /\ WF_vars(Receive) /\ WF_vars(AggregatorEnds)
  /\ SF_vars(PrinterStop)
  /\ WF_vars(Stops)

FairSpec == Spec /\ Fairness

-----------------------------------------------------------------------------
(***************************************************************************)
(* Properties.                                                             *)
(***************************************************************************)
TypeOK ==
  /\ mode \in {"sync", "async", "parallel"} /\ orderly \in BOOLEAN
  /\ server \in {"stdhttp", "fasthttp"}
  /\ run \in {"serving", "calculator", "printer", "aggregator", "returned"}
  /\ call \in [Calls -> Op \cup {"new", "record", "ok", "overloaded", "panicked"}]
  /\ queue \in [Op -> 0 .. QueueSize] /\ batch \in [Op -> 0 .. BatchSize]
  /\ applied \in [Op -> Nat] /\ got \in [Op -> Nat]
  /\ closed \in [Op -> BOOLEAN]
  /\ serve \in [Op -> {"none", "select", "flush", "lastFlush", "ended"}]
  /\ chan \in Seq(Nat) /\ Len(chan) <= ChanSize
  /\ agg \in {"select", "ended"} /\ recorded \in Nat
  /\ printer \in Op \cup {"select", "ended"}
  /\ label \in {"periodic", "final"}
  /\ line \in [label : {"none", "periodic", "final"}, vals : [Op -> Nat]]

(* No request can change the totals any more: either the server waited for *)
(* the last handler, or the calculator refuses to (Sync cannot).           *)
Settled == orderly \/ mode # "sync"

(* Once the printer has ended, the last line is the final one and shows    *)
(* the totals as they will remain, with every accepted number: the printer *)
(* is stopped after the calculator, and a tick that is ready together with *)
(* stopCh neither replaces the final line nor follows it.                  *)
FinalLine ==
  run \in {"aggregator", "returned"} =>
    /\ printer = "ended"
    /\ line.label = "final"
    /\ Settled => line.vals = applied /\ queue = None

(* The aggregator is stopped after everybody that sends to it: no          *)
(* goroutine of the calculator is left to meet the closed channels, every  *)
(* sample has been delivered, and no handler panics unless the server left *)
(* it in flight ("После Stop паникует").                                   *)
SamplesDelivered ==
  /\ agg = "ended" => \A o \in Op : serve[o] \in {"none", "ended"}
  /\ run \in {"aggregator", "returned"} /\ Settled =>
       recorded + SumFunction(chan) = SumFunction(applied)
  /\ orderly => \A c \in Calls : call[c] # "panicked"

(* Run returns, although its deferred calls wait for goroutines that wait  *)
(* for each other: the calculator's for the aggregator, the printer for    *)
(* the calculator, handlers for both.  Only fasthttp that failed with      *)
(* handlers in flight may end the process before.  Handlers come back as   *)
(* well, unless the process ends: by itself or, main being over, with Run. *)
RunReturns ==
  /\ run # "serving" ~> run = "returned" \/ (~Alive /\ ~orderly)
  /\ \A c \in Calls :
       call[c] \in Op \cup {"record"} ~>
         c \notin InFlight \/ run = "returned" \/ ~Alive

=============================================================================

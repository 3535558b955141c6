--------------------------- MODULE AsyncCalculator ---------------------------
(***************************************************************************)
(* calculators.Async: clients hand numbers to one goroutine (serve) over   *)
(* the channel numCh; that goroutine owns both totals, batches one sample  *)
(* per calculation for the metrics, and serves Values over valCh.          *)
(*                                                                         *)
(* A step is what one goroutine does between two points where another can  *)
(* interfere: a channel operation, a cgo call, a call of recordFn.  The    *)
(* select of serve takes any case that is ready, as Go's does.             *)
(***************************************************************************)
EXTENDS Operators, Sequences, FiniteSets

CONSTANTS
  Clients,      \* Goroutines that call Calculate (HTTP handlers).
  Readers,      \* Goroutines that call Values (the periodic printer).
  Nums,         \* The numbers sent.
  QueueSizes,   \* The queueSize arguments of NewAsync to consider.
  BatchSize,    \* batchPool.BatchSize() or defaultBatchSize.
  MaxCalls      \* Bound of the model: Calculate is called at most so often.

ASSUME AsyncAssumption ==
  /\ Nums \subseteq Int64
  /\ QueueSizes \subseteq Nat
  /\ BatchSize \in Nat \ {0}
  /\ MaxCalls \in Nat

VARIABLES
  queueSize,    \* cap(numCh), fixed by the constructor.
  recording,    \* recordFn # nil, fixed by the constructor.
  numCh,        \* The numbers buffered in numCh.
  closed,       \* close(numCh) was called.
  pc,           \* Where serve is.
  cur,          \* serve's num: the number received last.
  vals,         \* dualState.vals.
  batch,        \* metricRecorder.batch; <<>> stands for nil.
  timer,        \* flushTm: off, armed, or fired with the tick not yet received.
  valClosed,    \* close(valCh) was called.
  done,         \* close(done) was called.
  client,       \* Each client: idle, sending (blocked in numCh <- num), panicked.
  arg,          \* The number a sending client holds.
  reading,      \* Whether a reader is blocked in <-valCh.
  seen,         \* What a reader's last Values returned.
  stop,         \* Stop: "no", "waiting" (in <-done) or "returned".
  calls,        \* How many calls of Calculate were made (bounded by MaxCalls).
  log,          \* History: the accepted numbers, each with the totals after it.
  recorded      \* History: the samples recordFn was given, in order.

chanVars   == <<numCh, closed, valClosed, done>>
serveVars  == <<pc, cur, vals>>
recVars    == <<batch, timer, recorded>>
clientVars == <<client, arg, calls>>
readVars   == <<reading, seen>>
confVars   == <<queueSize, recording>>

vars == <<chanVars, serveVars, recVars, clientVars, readVars, confVars, stop, log>>

-----------------------------------------------------------------------------
(***************************************************************************)
(* A sample is identified by the number whose calculation it timed.        *)
(***************************************************************************)
Entry == [num : Nums, vals : Values]

ValuesAfter(l, i) == IF i = 0 THEN ZeroValues ELSE l[i].vals

Extended(l, num) ==
  Append(l, [num |-> num, vals |-> Calculated(ValuesAfter(l, Len(l)), num)])

(* The number serve has received and not finished applying. *)
InHand == IF pc \in {"add", "sub"} THEN 1 ELSE 0

(* How many accepted numbers both totals include. *)
Applied == Len(log) - Len(numCh) - InHand

(* NewAsync sets ignoreOverload for an unbuffered queue only. *)
ignoreOverload == queueSize = 0

Init ==
  /\ queueSize \in QueueSizes
  /\ recording \in BOOLEAN
  /\ numCh = <<>>
  /\ closed = FALSE
  /\ pc = "select"
  /\ cur = 0
  /\ vals = ZeroValues
  /\ batch = <<>>
  /\ timer = "off"
  /\ valClosed = FALSE
  /\ done = FALSE
  /\ client = [c \in Clients |-> "idle"]
  /\ arg = [c \in Clients |-> 0]
  /\ reading = [r \in Readers |-> FALSE]
  /\ seen = [r \in Readers |-> ZeroValues]
  /\ stop = "no"
  /\ calls = 0
  /\ log = <<>>
  /\ recorded = <<>>

-----------------------------------------------------------------------------
(***************************************************************************)
(* Calculate.  With a buffered queue the send is the ready case of a       *)
(* select or the call returns ErrOverloaded; with an unbuffered one the    *)
(* client blocks until serve takes the number.  A send on the closed       *)
(* channel panics.                                                         *)
(***************************************************************************)
Calling(c) ==
  /\ client[c] = "idle"
  /\ calls < MaxCalls
  /\ calls' = calls + 1

Enqueue(c, num) ==
  /\ Calling(c)
  /\ ~closed /\ ~ignoreOverload
  /\ Len(numCh) < queueSize
  /\ numCh' = Append(numCh, num)
  /\ log' = Extended(log, num)
  /\ UNCHANGED <<closed, valClosed, done, serveVars, recVars, client, arg,
                 readVars, confVars, stop>>

Overloaded(c) ==
  /\ Calling(c)
  /\ ~closed /\ ~ignoreOverload
  /\ Len(numCh) = queueSize
  /\ UNCHANGED <<chanVars, serveVars, recVars, client, arg, readVars, confVars,
                 stop, log>>

BlockInSend(c, num) ==
  /\ Calling(c)
  /\ ~closed /\ ignoreOverload
  /\ client' = [client EXCEPT ![c] = "sending"]
  /\ arg' = [arg EXCEPT ![c] = num]
  /\ UNCHANGED <<chanVars, serveVars, recVars, readVars, confVars, stop, log>>

SendPanics(c) ==
  /\ Calling(c)
  /\ closed
  /\ client' = [client EXCEPT ![c] = "panicked"]
  /\ UNCHANGED <<chanVars, serveVars, recVars, arg, readVars, confVars, stop, log>>

-----------------------------------------------------------------------------
(***************************************************************************)
(* The select of serve.                                                    *)
(***************************************************************************)
ReceiveTick ==
  /\ pc = "select"
  /\ timer = "fired"
  /\ timer' = "off"
  /\ pc' = IF batch = <<>> THEN "select" ELSE "flush"
  /\ UNCHANGED <<chanVars, cur, vals, batch, recorded, clientVars, readVars,
                 confVars, stop, log>>

ReceiveBuffered ==
  /\ pc = "select"
  /\ numCh # <<>>
  /\ cur' = Head(numCh)
  /\ numCh' = Tail(numCh)
  /\ pc' = "add"
  /\ UNCHANGED <<closed, valClosed, done, vals, recVars, clientVars, readVars,
                 confVars, stop, log>>

ReceiveFromSender(c) ==
  /\ pc = "select"
  /\ client[c] = "sending"
  /\ cur' = arg[c]
  /\ log' = Extended(log, arg[c])
  /\ client' = [client EXCEPT ![c] = "idle"]
  /\ pc' = "add"
  /\ UNCHANGED <<chanVars, vals, recVars, arg, calls, readVars, confVars, stop>>

(* A bug to tell apart: serve leaves as soon as the channel is closed. *)
ReceiveClosedUndrained ==
  /\ pc = "select"
  /\ closed
  /\ pc' = "exit"
  /\ UNCHANGED <<chanVars, cur, vals, recVars, clientVars, readVars, confVars,
                 stop, log>>

ReceiveClosed ==
  /\ pc = "select"
  /\ closed /\ numCh = <<>>
  /\ pc' = "exit"
  /\ UNCHANGED <<chanVars, cur, vals, recVars, clientVars, readVars, confVars,
                 stop, log>>

(* A bug to tell apart: the totals are read behind serve's back. *)
SendValuesUnowned(r) ==
  /\ pc # "ended"
  /\ reading[r]
  /\ seen' = [seen EXCEPT ![r] = vals]
  /\ reading' = [reading EXCEPT ![r] = FALSE]
  /\ UNCHANGED <<chanVars, serveVars, recVars, clientVars, confVars, stop, log>>

SendValues(r) ==
  /\ pc = "select"
  /\ reading[r]
  /\ seen' = [seen EXCEPT ![r] = vals]
  /\ reading' = [reading EXCEPT ![r] = FALSE]
  /\ UNCHANGED <<chanVars, serveVars, recVars, clientVars, confVars, stop, log>>

-----------------------------------------------------------------------------
(***************************************************************************)
(* dualState.calculate: add, then sub, then the sample is recorded.        *)
(***************************************************************************)
CallAdd ==
  /\ pc = "add"
  /\ vals' = [vals EXCEPT !.Sum = add(vals.Sum, cur)]
  /\ pc' = "sub"
  /\ UNCHANGED <<chanVars, cur, recVars, clientVars, readVars, confVars, stop, log>>

CallSub ==
  /\ pc = "sub"
  /\ vals' = [vals EXCEPT !.Sub = sub(vals.Sub, cur)]
  /\ pc' = "record"
  /\ UNCHANGED <<chanVars, cur, recVars, clientVars, readVars, confVars, stop, log>>

(* A bug to tell apart: only a batch that is already there gets a timer. *)
RecordUntimed ==
  /\ pc = "record"
  /\ \/ /\ ~recording
        /\ pc' = "select"
        /\ UNCHANGED <<batch, timer>>
     \/ /\ recording
        /\ batch' = Append(batch, cur)
        /\ timer' = IF batch # <<>> THEN "armed" ELSE timer
        /\ pc' = IF Len(batch') >= BatchSize THEN "flush" ELSE "select"
  /\ UNCHANGED <<chanVars, cur, vals, recorded, clientVars, readVars, confVars,
                 stop, log>>

(* A bug to tell apart: the sample that fills the batch does not flush it. *)
RecordOverfull ==
  /\ pc = "record"
  /\ \/ /\ ~recording
        /\ pc' = "select"
        /\ UNCHANGED <<batch, timer>>
     \/ /\ recording
        /\ batch' = Append(batch, cur)
        /\ timer' = IF batch = <<>> THEN "armed" ELSE timer
        /\ pc' = IF Len(batch') > BatchSize THEN "flush" ELSE "select"
  /\ UNCHANGED <<chanVars, cur, vals, recorded, clientVars, readVars, confVars,
                 stop, log>>

(* metricRecorder.record: the first sample of a batch arms the flush timer. *)
Record ==
  /\ pc = "record"
  /\ \/ /\ ~recording
        /\ pc' = "select"
        /\ UNCHANGED <<batch, timer>>
     \/ /\ recording
        /\ batch' = Append(batch, cur)
        /\ timer' = IF batch = <<>> THEN "armed" ELSE timer
        /\ pc' = IF Len(batch') >= BatchSize THEN "flush" ELSE "select"
  /\ UNCHANGED <<chanVars, cur, vals, recorded, clientVars, readVars, confVars,
                 stop, log>>

(* Bugs to tell apart: the batch is not reset, the timer is not stopped. *)
FlushTwice ==
  /\ pc = "flush"
  /\ recorded' = recorded \o batch
  /\ timer' = "off"
  /\ pc' = "select"
  /\ UNCHANGED <<chanVars, cur, vals, batch, clientVars, readVars, confVars,
                 stop, log>>

FlushUnstopped ==
  /\ pc = "flush"
  /\ recorded' = recorded \o batch
  /\ batch' = <<>>
  /\ pc' = "select"
  /\ UNCHANGED <<chanVars, cur, vals, timer, clientVars, readVars, confVars,
                 stop, log>>

(***************************************************************************)
(* metricRecorder.flush.  recordFn may block for as long as the aggregator *)
(* keeps it waiting, so the step may come arbitrarily late.  Timer.Stop    *)
(* also discards a tick that was not received (Go 1.23 timers).            *)
(***************************************************************************)
Flush ==
  /\ pc = "flush"
  /\ recorded' = recorded \o batch
  /\ batch' = <<>>
  /\ timer' = "off"
  /\ pc' = "select"
  /\ UNCHANGED <<chanVars, cur, vals, clientVars, readVars, confVars, stop, log>>

Expire ==
  /\ timer = "armed"
  /\ timer' = "fired"
  /\ UNCHANGED <<chanVars, serveVars, batch, recorded, clientVars, readVars,
                 confVars, stop, log>>

(* Bugs to tell apart: a deferred call is missing. *)
ExitUnflushed ==
  /\ pc = "exit"
  /\ pc' = "closeValCh"
  /\ UNCHANGED <<chanVars, cur, vals, recVars, clientVars, readVars, confVars,
                 stop, log>>

ValChLeftOpen ==
  /\ pc = "closeValCh"
  /\ pc' = "closeDone"
  /\ UNCHANGED <<chanVars, cur, vals, recVars, clientVars, readVars, confVars,
                 stop, log>>

(* The deferred calls of serve, last deferred first. *)
ExitFlush ==
  /\ pc = "exit"
  /\ recorded' = recorded \o batch
  /\ batch' = <<>>
  /\ timer' = "off"
  /\ pc' = "closeValCh"
  /\ UNCHANGED <<chanVars, cur, vals, clientVars, readVars, confVars, stop, log>>

CloseValCh ==
  /\ pc = "closeValCh"
  /\ valClosed' = TRUE
  /\ pc' = "closeDone"
  /\ UNCHANGED <<numCh, closed, done, cur, vals, recVars, clientVars, readVars,
                 confVars, stop, log>>

CloseDone ==
  /\ pc = "closeDone"
  /\ done' = TRUE
  /\ pc' = "ended"
  /\ UNCHANGED <<numCh, closed, valClosed, cur, vals, recVars, clientVars,
                 readVars, confVars, stop, log>>

-----------------------------------------------------------------------------
(***************************************************************************)
(* Values and Stop.                                                        *)
(***************************************************************************)
CallValues(r) ==
  /\ ~reading[r]
  /\ reading' = [reading EXCEPT ![r] = TRUE]
  /\ UNCHANGED <<chanVars, serveVars, recVars, clientVars, seen, confVars, stop, log>>

(* valCh is closed: the receive fails, and Values reads c.vals itself. *)
ReadFinalValues(r) ==
  /\ reading[r]
  /\ valClosed
  /\ seen' = [seen EXCEPT ![r] = vals]
  /\ reading' = [reading EXCEPT ![r] = FALSE]
  /\ UNCHANGED <<chanVars, serveVars, recVars, clientVars, confVars, stop, log>>

(* close(numCh) makes every blocked send panic. *)
CallStop ==
  /\ stop = "no"
  /\ closed' = TRUE
  /\ stop' = "waiting"
  /\ client' = [c \in Clients |-> IF client[c] = "sending" THEN "panicked"
                                                           ELSE client[c]]
  /\ UNCHANGED <<numCh, valClosed, done, serveVars, recVars, arg, calls,
                 readVars, confVars, log>>

StopReturns ==
  /\ stop = "waiting"
  /\ done
  /\ stop' = "returned"
  /\ UNCHANGED <<chanVars, serveVars, recVars, clientVars, readVars, confVars, log>>

-----------------------------------------------------------------------------
Calculate(c) ==
  \/ \E num \in Nums : Enqueue(c, num) \/ BlockInSend(c, num)
  \/ Overloaded(c)
  \/ SendPanics(c)

Receive == \E c \in Clients : ReceiveFromSender(c)

(* Everything serve does but answering a reader. *)
Serve ==
  \/ ReceiveTick \/ ReceiveBuffered \/ Receive \/ ReceiveClosed
  \/ CallAdd \/ CallSub \/ Record \/ Flush
  \/ ExitFlush \/ CloseValCh \/ CloseDone

Next ==
  \/ \E c \in Clients : Calculate(c)
  \/ Serve
  \/ \E r \in Readers : SendValues(r) \/ CallValues(r) \/ ReadFinalValues(r)
  \/ Expire
  \/ CallStop
  \/ StopReturns

Spec == Init /\ [][Next]_vars

(***************************************************************************)
(* A runnable goroutine is eventually scheduled, an armed timer expires,   *)
(* and recordFn returns.  serve's select picks among the ready cases       *)
(* uniformly and the readers of valCh queue up in order, so a reader that  *)
(* finds serve at its select again and again is answered: SF.  Nobody is   *)
(* obliged to call Calculate, Values or Stop.                              *)
(***************************************************************************)
Fairness ==
  /\ WF_vars(Serve)
  /\ WF_vars(Expire)
  /\ WF_vars(StopReturns)
  /\ \A r \in Readers : SF_vars(SendValues(r)) /\ WF_vars(ReadFinalValues(r))

FairSpec == Spec /\ Fairness

-----------------------------------------------------------------------------
(***************************************************************************)
(* Properties.                                                             *)
(***************************************************************************)
TypeOK ==
  /\ queueSize \in QueueSizes
  /\ recording \in BOOLEAN
  /\ numCh \in Seq(Nums) /\ Len(numCh) <= queueSize
  /\ closed \in BOOLEAN /\ valClosed \in BOOLEAN /\ done \in BOOLEAN
  /\ pc \in {"select", "add", "sub", "record", "flush",
             "exit", "closeValCh", "closeDone", "ended"}
  /\ cur \in Nums \cup {0}
  /\ vals \in Values
  /\ batch \in Seq(Nums) /\ Len(batch) <= BatchSize
  /\ timer \in {"off", "armed", "fired"}
  /\ client \in [Clients -> {"idle", "sending", "panicked"}]
  /\ arg \in [Clients -> Nums \cup {0}]
  /\ reading \in [Readers -> BOOLEAN]
  /\ seen \in [Readers -> Values]
  /\ stop \in {"no", "waiting", "returned"}
  /\ calls \in 0 .. MaxCalls
  /\ log \in Seq(Entry)
  /\ recorded \in Seq(Nums)

(* The samples taken and not yet given to recordFn. *)
Pending == IF pc = "record" THEN Append(batch, cur) ELSE batch

(* Every calculation is timed exactly once and its sample is neither lost, *)
(* doubled nor moved: what recordFn was given, the batch and the sample in *)
(* hand are, in order, the calculations done.  This is what the flushes of *)
(* record, of the timer and of the deferred call must share among them.    *)
SamplesComplete ==
  recording => /\ Len(recorded) + Len(Pending) = Applied
               /\ \A i \in 1 .. Len(recorded) : recorded[i] = log[i].num
               /\ \A i \in 1 .. Len(Pending) :
                    Pending[i] = log[Len(recorded) + i].num

(* Whenever serve waits, a batch that holds samples is below its size and  *)
(* has a timer running or fired for it (it cannot be forgotten), and no    *)
(* timer runs without a batch (no stale tick cuts the next batch short).   *)
BatchIsTimed ==
  pc = "select" => /\ batch = <<>> <=> timer = "off"
                   /\ Len(batch) < BatchSize

(* Values never shows a number that one total includes and the other does  *)
(* not: the promise of the comment on Async, "Sum и Sub согласованы".      *)
ReadsAgree == \A r \in Readers : Agree(seen[r])

(* When Stop returns, everything accepted has been applied to both totals, *)
(* every sample has been recorded, and Values answers without serve.       *)
FinalAfterStop ==
  stop = "returned" =>
    /\ vals = ValuesAfter(log, Len(log))
    /\ recording => Len(recorded) = Len(log)
    /\ valClosed /\ pc = "ended"

(* The goroutine, the channels and the deferred calls implement the        *)
(* abstract calculator: acceptance order, atomic application, prefix reads *)
(* that never go back, and nothing left or added after Stop.               *)
Promise == INSTANCE Calculator
             WITH applied <- Applied, stopped <- (stop = "returned")

ImplementsCalculator == Promise!Spec

(* Nobody hangs: Stop comes back once the queue is drained, the last batch *)
(* flushed and the channels closed, whatever clients and readers do, and   *)
(* Values is answered even when serve exits between the call and the       *)
(* answer.                                                                 *)
CallsReturn ==
  /\ stop = "waiting" ~> stop = "returned"
  /\ \A r \in Readers : reading[r] ~> ~reading[r]

(* A sample does not wait for ever in a batch that never fills up.         *)
SamplesEventuallyRecorded ==
  \A i \in 1 .. MaxCalls :
    recording /\ Len(log) >= i ~> Len(recorded) >= i

=============================================================================

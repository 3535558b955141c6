-------------------------- MODULE ParallelCalculator --------------------------
(***************************************************************************)
(* calculators.Parallel: two asyncSingle servers, one per operator, each   *)
(* with its own channel, recorder and lifetime.  A call of Calculate hands *)
(* its number to Sum, which may reject it, and then to Sub, which may not; *)
(* Values asks one server after the other; Stop stops Sum, then Sub.       *)
(*                                                                         *)
(* Every call of Calculate runs in a goroutine of its own (an HTTP         *)
(* handler), so a number is identified by its call.  The calculation, the  *)
(* recording of its sample and the receive before them are one step: serve *)
(* shows nothing of its state to others before it is back at its select or *)
(* in recordFn.                                                            *)
(***************************************************************************)
EXTENDS Operators, Sequences, FiniteSets, Functions

CONSTANTS
  Calls,        \* The calls of Calculate.
  Readers,      \* Goroutines that call Values.
  num,          \* The number of each call.
  QueueSizes,   \* The queueSize arguments of NewParallel to consider.
  BatchSize     \* pool.BatchSize() or defaultBatchSize.

ASSUME ParallelAssumption ==
  /\ num \in [Calls -> Int64]
  /\ QueueSizes \subseteq Nat
  /\ BatchSize \in Nat \ {0}

Op == {"sum", "sub"}

VARIABLES
  queueSize,    \* cap(numCh) of both servers, fixed by the constructor.
  recording,    \* recordFn # nil, fixed by the constructor.
  graceful,     \* How the server ends: Stop is called when every handler has
                \* returned (server.Shutdown did), or at any time.
  call,         \* Each call: new, at an operator, ok, overloaded or panicked.
  numCh,        \* Each server's channel: the calls whose numbers it holds.
  closed,       \* close(numCh) was called.
  pc,           \* Where each serve is.
  val,          \* asyncSingle.val.
  batch,        \* The number of samples in the recorder's batch; 0: nil.
  valClosed,    \* close(valCh) was called.
  done,         \* close(done) was called.
  reading,      \* The server a reader asks, or "no".
  got,          \* Values in progress: the Sum received; 0 otherwise.
  stop,         \* Stop: "no", the server it waits for, or "returned".
  applied       \* History: the calls whose numbers each total includes.

serveVars == <<pc, val, applied, batch>>
chanVars  == <<numCh, closed, valClosed, done>>
readVars  == <<reading, got>>
confVars  == <<queueSize, recording, graceful>>

vars == <<call, serveVars, chanVars, readVars, confVars, stop>>

-----------------------------------------------------------------------------
(* A bug to tell apart: the operands of `sub` are swapped. *)
ApplySwapped(o, v, n) == IF o = "sum" THEN add(v, n) ELSE sub(n, v)

Apply(o, v, n) == IF o = "sum" THEN add(v, n) ELSE sub(v, n)

(* NewParallel lets only Sum report an overload. *)
ignoreOverload(o) == o = "sub" \/ queueSize = 0

(* A bug to tell apart: Calculate forgets Sub. *)
AfterSumOnly(o) == "ok"

(* What a call does once o has its number. *)
After(o) == IF o = "sum" THEN "sub" ELSE "ok"

InFlight == {c \in Calls : call[c] \in Op}

Init ==
  /\ queueSize \in QueueSizes
  /\ recording \in BOOLEAN
  /\ graceful \in BOOLEAN
  /\ call = [c \in Calls |-> "new"]
  /\ numCh = [o \in Op |-> <<>>]
  /\ closed = [o \in Op |-> FALSE]
  /\ pc = [o \in Op |-> "select"]
  /\ val = [o \in Op |-> 0]
  /\ batch = [o \in Op |-> 0]
  /\ valClosed = [o \in Op |-> FALSE]
  /\ done = [o \in Op |-> FALSE]
  /\ reading = [r \in Readers |-> "no"]
  /\ got = [r \in Readers |-> 0]
  /\ stop = "no"
  /\ applied = [o \in Op |-> {}]

-----------------------------------------------------------------------------
(***************************************************************************)
(* Calculate.  A handler that is about to send and one that is blocked in  *)
(* the send differ in nothing another goroutine can tell: both go on when  *)
(* there is room and panic when the channel is closed before.              *)
(***************************************************************************)
CallCalculate(c) ==
  /\ call[c] = "new"
  /\ graceful => stop = "no"
  /\ call' = [call EXCEPT ![c] = "sum"]
  /\ UNCHANGED <<serveVars, chanVars, readVars, confVars, stop>>

Send(o, c) ==
  /\ call[c] = o
  /\ ~closed[o]
  /\ Len(numCh[o]) < queueSize
  /\ numCh' = [numCh EXCEPT ![o] = Append(@, c)]
  /\ call' = [call EXCEPT ![c] = After(o)]
  /\ UNCHANGED <<serveVars, closed, valClosed, done, readVars, confVars, stop>>

(* A bug to tell apart: Sub reports an overload as Sum does. *)
OverloadedBySub(o, c) ==
  /\ call[c] = o
  /\ ~closed[o]
  /\ queueSize > 0 /\ Len(numCh[o]) = queueSize
  /\ call' = [call EXCEPT ![c] = "overloaded"]
  /\ UNCHANGED <<serveVars, chanVars, readVars, confVars, stop>>

Overloaded(o, c) ==
  /\ call[c] = o
  /\ ~closed[o]
  /\ ~ignoreOverload(o)
  /\ Len(numCh[o]) = queueSize
  /\ call' = [call EXCEPT ![c] = "overloaded"]
  /\ UNCHANGED <<serveVars, chanVars, readVars, confVars, stop>>

SendPanics(o, c) ==
  /\ call[c] = o
  /\ closed[o]
  /\ call' = [call EXCEPT ![c] = "panicked"]
  /\ UNCHANGED <<serveVars, chanVars, readVars, confVars, stop>>

-----------------------------------------------------------------------------
(***************************************************************************)
(* asyncSingle.serve.                                                      *)
(***************************************************************************)
(* A bug to tell apart: the batch is looked at before the sample is in it. *)
CalculateAndRecordLate(o, c) ==
  /\ val' = [val EXCEPT ![o] = Apply(o, @, num[c])]
  /\ applied' = [applied EXCEPT ![o] = @ \cup {c}]
  /\ IF recording
     THEN /\ batch' = [batch EXCEPT ![o] = @ + 1]
          /\ pc' = [pc EXCEPT ![o] = IF batch[o] >= BatchSize THEN "flush"
                                                              ELSE "select"]
     ELSE UNCHANGED <<batch, pc>>

(* calculate and metricRecorder.record: the sample that fills the batch is *)
(* followed by a flush.  The recorder's timer runs exactly while serve     *)
(* waits with a batch (BatchIsTimed of AsyncCalculator, which has the same *)
(* recorder), so the batch stands for it.                                  *)
CalculateAndRecord(o, c) ==
  /\ val' = [val EXCEPT ![o] = Apply(o, @, num[c])]
  /\ applied' = [applied EXCEPT ![o] = @ \cup {c}]
  /\ IF recording
     THEN /\ batch' = [batch EXCEPT ![o] = @ + 1]
          /\ pc' = [pc EXCEPT ![o] = IF batch[o] + 1 >= BatchSize THEN "flush"
                                                                  ELSE "select"]
     ELSE UNCHANGED <<batch, pc>>

ReceiveBuffered(o) ==
  /\ pc[o] = "select"
  /\ numCh[o] # <<>>
  /\ numCh' = [numCh EXCEPT ![o] = Tail(@)]
  /\ CalculateAndRecord(o, Head(numCh[o]))
  /\ UNCHANGED <<call, closed, valClosed, done, readVars, confVars, stop>>

ReceiveFromSender(o, c) ==
  /\ pc[o] = "select"
  /\ queueSize = 0
  /\ call[c] = o
  /\ ~closed[o]
  /\ call' = [call EXCEPT ![c] = After(o)]
  /\ CalculateAndRecord(o, c)
  /\ UNCHANGED <<chanVars, readVars, confVars, stop>>

ReceiveTick(o) ==
  /\ pc[o] = "select"
  /\ batch[o] > 0
  /\ pc' = [pc EXCEPT ![o] = "flush"]
  /\ UNCHANGED <<val, applied, batch, call, chanVars, readVars, confVars, stop>>

ReceiveClosed(o) ==
  /\ pc[o] = "select"
  /\ closed[o] /\ numCh[o] = <<>>
  /\ pc' = [pc EXCEPT ![o] = "exit"]
  /\ UNCHANGED <<val, applied, batch, call, chanVars, readVars,
                 confVars, stop>>

(* metricRecorder.flush, from serve's loop and from its deferred call. *)
Flush(o) ==
  /\ pc[o] \in {"flush", "exit"}
  /\ batch' = [batch EXCEPT ![o] = 0]
  /\ pc' = [pc EXCEPT ![o] = IF @ = "flush" THEN "select" ELSE "closeValCh"]
  /\ UNCHANGED <<val, applied, call, chanVars, readVars, confVars, stop>>

(* A bug to tell apart: done is left open. *)
DoneLeftOpen(o) ==
  /\ pc[o] = "closeDone"
  /\ pc' = [pc EXCEPT ![o] = "ended"]
  /\ UNCHANGED <<val, applied, batch, call, chanVars, readVars, confVars, stop>>

CloseValCh(o) ==
  /\ pc[o] = "closeValCh"
  /\ valClosed' = [valClosed EXCEPT ![o] = TRUE]
  /\ pc' = [pc EXCEPT ![o] = "closeDone"]
  /\ UNCHANGED <<val, applied, batch, call, numCh, closed, done,
                 readVars, confVars, stop>>

CloseDone(o) ==
  /\ pc[o] = "closeDone"
  /\ done' = [done EXCEPT ![o] = TRUE]
  /\ pc' = [pc EXCEPT ![o] = "ended"]
  /\ UNCHANGED <<val, applied, batch, call, numCh, closed, valClosed,
                 readVars, confVars, stop>>

-----------------------------------------------------------------------------
(***************************************************************************)
(* Values and Stop.                                                        *)
(***************************************************************************)
CallValues(r) ==
  /\ reading[r] = "no"
  /\ reading' = [reading EXCEPT ![r] = "sum"]
  /\ UNCHANGED <<call, serveVars, chanVars, got, confVars, stop>>

(* asyncSingle.Value: serve answers from its select, or valCh is closed    *)
(* and the caller reads val itself.  With Sub's answer Values returns.     *)
Value(r, o) ==
  /\ reading[r] = o
  /\ pc[o] = "select" \/ valClosed[o]
  /\ got' = [got EXCEPT ![r] = IF o = "sum" THEN val[o] ELSE 0]
  /\ reading' = [reading EXCEPT ![r] = IF o = "sum" THEN "sub" ELSE "no"]
  /\ UNCHANGED <<call, serveVars, chanVars, confVars, stop>>

CallStop ==
  /\ stop = "no"
  /\ graceful => InFlight = {}
  /\ closed' = [closed EXCEPT !["sum"] = TRUE]
  /\ stop' = "sum"
  /\ UNCHANGED <<call, serveVars, numCh, valClosed, done, readVars, confVars>>

SumStopped ==
  /\ stop = "sum"
  /\ done["sum"]
  /\ closed' = [closed EXCEPT !["sub"] = TRUE]
  /\ stop' = "sub"
  /\ UNCHANGED <<call, serveVars, numCh, valClosed, done, readVars, confVars>>

SubStopped ==
  /\ stop = "sub"
  /\ done["sub"]
  /\ stop' = "returned"
  /\ UNCHANGED <<call, serveVars, chanVars, readVars, confVars>>

-----------------------------------------------------------------------------
(* A goroutine that is in Calculate. *)
Calculate(c) ==
  \E o \in Op : Send(o, c) \/ Overloaded(o, c) \/ SendPanics(o, c)

Serve(o) ==
  \/ ReceiveTick(o) \/ ReceiveBuffered(o) \/ ReceiveClosed(o)
  \/ \E c \in Calls : ReceiveFromSender(o, c)
  \/ Flush(o) \/ CloseValCh(o) \/ CloseDone(o)

Next ==
  \/ \E c \in Calls : Calculate(c) \/ CallCalculate(c)
  \/ \E o \in Op : Serve(o)
  \/ \E r \in Readers : CallValues(r) \/ \E o \in Op : Value(r, o)
  \/ CallStop \/ SumStopped \/ SubStopped

Spec == Init /\ [][Next]_vars

(***************************************************************************)
(* A runnable goroutine is eventually scheduled and recordFn returns.      *)
(* Each call is made once, so that a server comes to rest at its select    *)
(* and weak fairness is enough for those it serves.                        *)
(***************************************************************************)
Fairness ==
  /\ \A c \in Calls : WF_vars(Calculate(c))
  /\ \A o \in Op : WF_vars(Serve(o))
  /\ \A r \in Readers, o \in Op : WF_vars(Value(r, o))
  /\ WF_vars(SumStopped) /\ WF_vars(SubStopped)

FairSpec == Spec /\ Fairness

-----------------------------------------------------------------------------
(***************************************************************************)
(* Properties.                                                             *)
(***************************************************************************)
TypeOK ==
  /\ queueSize \in QueueSizes /\ recording \in BOOLEAN /\ graceful \in BOOLEAN
  /\ call \in [Calls -> Op \cup {"new", "ok", "overloaded", "panicked"}]
  /\ \A o \in Op : numCh[o] \in Seq(Calls) /\ Len(numCh[o]) <= queueSize
  /\ pc \in [Op -> {"select", "flush", "exit", "closeValCh", "closeDone", "ended"}]
  /\ val \in [Op -> Int64]
  /\ batch \in [Op -> 0 .. BatchSize]
  /\ closed \in [Op -> BOOLEAN] /\ valClosed \in [Op -> BOOLEAN]
  /\ done \in [Op -> BOOLEAN]
  /\ reading \in [Readers -> Op \cup {"no"}]
  /\ got \in [Readers -> Int64]
  /\ stop \in Op \cup {"no", "returned"}
  /\ applied \in [Op -> SUBSET Calls]

(* The calls a server holds in its channel, and all it ever accepted. *)
Queued(o) == Range(numCh[o])
Accepted(o) == Queued(o) \cup applied[o]

(* Both servers take a number, each exactly once, or neither does; the     *)
(* only numbers Sum has and Sub has not are those of calls on their way    *)
(* between the two, or that panicked there because Stop did not wait.      *)
(* This is the constructor's "вычисления должны быть выполнены ОБЕИМИ      *)
(* калькуляторами", call by call.                                          *)
BothOrNeither ==
  /\ Accepted("sub") = {c \in Calls : call[c] = "ok"}
  /\ LET onTheWay == Accepted("sum") \ Accepted("sub")
     IN  /\ Accepted("sub") \subseteq Accepted("sum")
         /\ {c \in Calls : call[c] = "sub"} \subseteq onTheWay
         /\ \A c \in onTheWay : call[c] \in {"sub", "panicked"}
         /\ graceful => onTheWay = {c \in Calls : call[c] = "sub"}
  /\ \A o \in Op : /\ Queued(o) \cap applied[o] = {}
                   /\ Cardinality(Queued(o)) = Len(numCh[o])

(* Whatever order the two servers saw the numbers in, and however often    *)
(* either total wrapped around, each is the sum (negated for Sub) of the   *)
(* numbers applied, modulo the width of int64.                             *)
TotalsOfApplied ==
  LET total(o) == FoldFunctionOnSet(+, 0, num, applied[o])
      same(x, y) == (x - y) % (2 * MaxInt + 2) = 0
  IN  same(val["sum"], total("sum")) /\ same(val["sub"], -total("sub"))

Totals == [Sum |-> val["sum"], Sub |-> val["sub"]]

(* Sum and Sub may differ only for a moment: with nothing on its way       *)
(* between the handlers and the servers they agree.  So do the final       *)
(* values, which include every accepted number, when the server stopped    *)
(* the calculator after its last handler.                                  *)
AgreeAtRest ==
  graceful =>
    /\ InFlight = {} /\ (\A o \in Op : numCh[o] = <<>>) => Agree(Totals)
    /\ stop = "returned" =>
         /\ Agree(Totals)
         /\ \A o \in Op : applied[o] = {c \in Calls : call[c] = "ok"}

(* The same without that condition, as the comment in NewParallel has it:  *)
(* a number counts for both totals or for neither, since the only failure  *)
(* is ErrOverloaded, from Sum.                                             *)
FinalAgreeAlways == stop = "returned" => applied["sum"] = applied["sub"]

(* Nobody hangs: no handler on a full Sub queue, no reader between the two *)
(* servers, and Stop stops both servers with handlers and readers about.   *)
CallsReturn ==
  /\ \A c \in Calls : call[c] \in Op ~> call[c] \notin Op
  /\ \A r \in Readers : reading[r] # "no" ~> reading[r] = "no"
  /\ stop = "sum" ~> stop = "returned"

=============================================================================

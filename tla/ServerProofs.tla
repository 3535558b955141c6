---------------------------- MODULE ServerProofs ----------------------------
(***************************************************************************)
(* Theorems about servers.Run for any requests, queue sizes and batch size,*)
(* in every mode of the calculator, for both HTTP servers and both ends.   *)
(***************************************************************************)
EXTENDS Server, FiniteSums

Running == {"serving", "calculator", "printer", "aggregator", "returned"}

AfterCalculator == {"printer", "aggregator", "returned"}

AfterPrinter == {"aggregator", "returned"}

(* The goroutines of the calculator: there is one for each total that has  *)
(* a queue, and it ends with an empty queue and an empty batch.            *)
ServeInv ==
  /\ \A o \in Op : serve[o] = "none" <=> mode = "sync" \/ o \notin Totals
  /\ \A o \in Op : serve[o] = "none" => queue[o] = 0 /\ batch[o] = 0 /\ ~closed[o]
  /\ \A o \in Op : o \notin Totals => applied[o] = 0
  /\ \A o \in Op : serve[o] = "select" => batch[o] < BatchSize
  /\ \A o \in Op : serve[o] \in {"lastFlush", "ended"} => closed[o] /\ queue[o] = 0
  /\ \A o \in Op : serve[o] = "ended" => batch[o] = 0

(* The handlers: where they may be in which mode, and that an orderly end  *)
(* leaves none of them behind.                                             *)
HandlerInv ==
  /\ \A c \in Calls : call[c] \in Op => call[c] \in Totals
  /\ \A c \in Calls : call[c] = "record" => mode = "sync"
  /\ orderly => \A c \in Calls : call[c] # "panicked"
  /\ orderly /\ run # "serving" => InFlight = {}

(* What has ended when Run is past it. *)
RunInv ==
  /\ run = "calculator" => mode # "sync"
  /\ \A o \in Op : closed[o] => run # "serving"
  /\ run \in AfterCalculator => \A o \in Op : serve[o] \in {"none", "ended"}
  /\ run \in AfterPrinter => printer = "ended"
  /\ agg = "ended" => run \in AfterPrinter

(* The printer: the final line is begun when nothing changes any more, and *)
(* gets total after total the numbers that remain.                         *)
PrinterInv ==
  /\ printer \in Op => printer \in Totals
  /\ label = "periodic" => got = None
  /\ printer = "select" => label = "periodic"
  /\ printer = "ended" => label = "final" /\ line.label = "final" /\ run \in AfterCalculator
  /\ label = "final" /\ printer \in Op => run = "printer"
  /\ label = "final" /\ Settled =>
       /\ printer = First => got = None
       /\ printer = "sub" => got = [None EXCEPT !["sum"] = applied["sum"]]
       /\ printer = "ended" => line.vals = applied

(* The handlers of Sync that have calculated and not recorded. *)
Recording == {c \in Calls : call[c] = "record"}

(* Where the samples are. *)
SamplesInv ==
  /\ IsFiniteSet(Recording)
  /\ Settled => recorded + SumFunction(chan) + SumFunction(batch) + Cardinality(Recording)
                  = SumFunction(applied)

ControlInv == TypeOK /\ ServeInv /\ HandlerInv /\ RunInv

-----------------------------------------------------------------------------
LEMMA FirstTotal == First \in Totals /\ Totals \subseteq Op
BY DEF First, Totals, Op

LEMMA ControlInit == Init => ControlInv
<1> SUFFICES ASSUME Init PROVE ControlInv
  OBVIOUS
<1>1. TypeOK
  BY ServerAssumption DEF Init, TypeOK, None, Op, Totals
<1>2. ServeInv
  BY ServerAssumption DEF Init, ServeInv, None
<1>3. HandlerInv
  BY DEF Init, HandlerInv, Op
<1>4. RunInv
  BY DEF Init, RunInv, AfterCalculator, AfterPrinter
<1>5. QED
  BY <1>1, <1>2, <1>3, <1>4 DEF ControlInv

LEMMA TypeNext == ControlInv /\ [Next]_vars => TypeOK'
<1> SUFFICES ASSUME ControlInv, [Next]_vars PROVE TypeOK'
  OBVIOUS
<1> USE DEF calcVars, aggVars, printVars, confVars
<1>0. /\ TypeOK /\ ServeInv
      /\ QueueSize \in Nat \ {0} /\ BatchSize \in Nat \ {0} /\ ChanSize \in Nat \ {0}
  BY ServerAssumption DEF ControlInv
<1>1. ASSUME NEW c \in Calls, CallCalculate(c) PROVE TypeOK'
  BY <1>0, <1>1, FirstTotal DEF CallCalculate, TypeOK
<1>2. ASSUME NEW c \in Calls, CalculateSync(c) PROVE TypeOK'
  BY <1>0, <1>2 DEF CalculateSync, TypeOK, Op
<1>3. ASSUME NEW c \in Calls, RecordSample(c) PROVE TypeOK'
  <2>1. chan' \in Seq(Nat) /\ Len(chan') <= ChanSize
    BY <1>0, <1>3 DEF RecordSample, TypeOK
  <2>2. QED
    BY <1>0, <1>3, <2>1 DEF RecordSample, TypeOK
<1>4. ASSUME NEW c \in Calls, RecordSamplePanics(c) PROVE TypeOK'
  BY <1>0, <1>4 DEF RecordSamplePanics, TypeOK
<1>5. ASSUME NEW c \in Calls, NEW o \in Op, Enqueue(c, o) PROVE TypeOK'
  <2>1. queue' \in [Op -> 0 .. QueueSize]
    BY <1>0, <1>5 DEF Enqueue, TypeOK
  <2>2. call' \in [Calls -> Op \cup {"new", "record", "ok", "overloaded", "panicked"}]
    BY <1>0, <1>5 DEF Enqueue, TypeOK, Op
  <2>3. QED
    BY <1>0, <1>5, <2>1, <2>2 DEF Enqueue, TypeOK
<1>6. ASSUME NEW c \in Calls, NEW o \in Op, Overloaded(c, o) \/ EnqueuePanics(c, o)
      PROVE  TypeOK'
  BY <1>0, <1>6 DEF Overloaded, EnqueuePanics, TypeOK
<1>7. ASSUME NEW o \in Op, Apply(o) PROVE TypeOK'
  <2>1. queue' \in [Op -> 0 .. QueueSize]
    BY <1>0, <1>7 DEF Apply, TypeOK
  <2>2. batch' \in [Op -> 0 .. BatchSize]
    BY <1>0, <1>7 DEF Apply, TypeOK, ServeInv
  <2>3. applied' \in [Op -> Nat]
    BY <1>0, <1>7 DEF Apply, TypeOK
  <2>4. serve' \in [Op -> {"none", "select", "flush", "lastFlush", "ended"}]
    <3>1. \E s \in {"flush", "select"} : serve' = [serve EXCEPT ![o] = s]
      BY <1>7 DEF Apply
    <3>2. QED
      BY <1>0, <3>1 DEF TypeOK
  <2>5. QED
    BY <1>0, <1>7, <2>1, <2>2, <2>3, <2>4 DEF Apply, TypeOK
<1>8. ASSUME NEW o \in Op, ReceiveTick(o) \/ Exit(o) PROVE TypeOK'
  BY <1>0, <1>8 DEF ReceiveTick, Exit, TypeOK
<1>9. ASSUME NEW o \in Op, Flush(o) \/ LastFlush(o) PROVE TypeOK'
  <2>1. /\ Len(chan) < ChanSize /\ chan' = Append(chan, batch[o])
        /\ batch' = [batch EXCEPT ![o] = 0]
        /\ \E s \in {"select", "ended"} : serve' = [serve EXCEPT ![o] = s]
        /\ UNCHANGED <<confVars, run, call, queue, closed, applied, agg, recorded, printVars>>
    BY <1>9 DEF Flush, LastFlush
  <2>2. chan' \in Seq(Nat) /\ Len(chan') <= ChanSize
    <3>1. batch[o] \in Nat /\ chan \in Seq(Nat)
      BY <1>0 DEF TypeOK
    <3>2. QED
      BY <1>0, <2>1, <3>1
  <2>3. batch' \in [Op -> 0 .. BatchSize]
    BY <1>0, <2>1 DEF TypeOK
  <2>4. serve' \in [Op -> {"none", "select", "flush", "lastFlush", "ended"}]
    BY <1>0, <2>1 DEF TypeOK
  <2>5. QED
    BY <1>0, <2>1, <2>2, <2>3, <2>4 DEF TypeOK
<1>10. CASE Receive
  <2>1. chan' \in Seq(Nat) /\ Len(chan') <= ChanSize /\ recorded' \in Nat
    <3>1. chan \in Seq(Nat) /\ chan # <<>> /\ Len(chan) <= ChanSize /\ recorded \in Nat
          /\ chan' = Tail(chan) /\ recorded' = recorded + Head(chan)
      BY <1>0, <1>10 DEF Receive, TypeOK
    <3>2. Head(chan) \in Nat
      BY <3>1
    <3>3. QED
      BY <1>0, <3>1, <3>2
  <2>2. QED
    BY <1>0, <1>10, <2>1 DEF Receive, TypeOK
<1>11. CASE PrinterTick \/ PrinterStop
  BY <1>0, <1>11, FirstTotal DEF PrinterTick, PrinterStop, TypeOK
<1>12. ASSUME NEW o \in Op, ReceiveValue(o) PROVE TypeOK'
  <2>1. got' \in [Op -> Nat]
    BY <1>0, <1>12 DEF ReceiveValue, TypeOK, None
  <2>2. printer' \in Op \cup {"select", "ended"}
    BY <1>12 DEF ReceiveValue, AfterLine, Op
  <2>3. line' \in [label : {"none", "periodic", "final"}, vals : [Op -> Nat]]
    BY <1>0, <1>12, <2>1 DEF ReceiveValue, TypeOK
  <2>4. QED
    BY <1>0, <1>12, <2>1, <2>2, <2>3 DEF ReceiveValue, TypeOK
<1>13. CASE ServerEnds
  BY <1>0, <1>13 DEF ServerEnds, AfterServer, TypeOK
<1>14. CASE Stops
  BY <1>0, <1>14 DEF Stops, SumStopped, CalculatorStopped, PrinterStopped, AggregatorStopped, TypeOK
<1>15. CASE AggregatorEnds
  BY <1>0, <1>15 DEF AggregatorEnds, TypeOK
<1>16. CASE UNCHANGED vars
  BY <1>0, <1>16 DEF vars, TypeOK
<1>17. QED
  BY <1>1, <1>2, <1>3, <1>4, <1>5, <1>6, <1>7, <1>8, <1>9, <1>10, <1>11,
     <1>12, <1>13, <1>14, <1>15, <1>16
  DEF Next, Handle, Serve

LEMMA ServeNext == ControlInv /\ [Next]_vars => ServeInv'
<1> SUFFICES ASSUME ControlInv, [Next]_vars PROVE ServeInv'
  OBVIOUS
<1> USE DEF calcVars, aggVars, printVars, confVars
<1>0. TypeOK /\ ServeInv /\ HandlerInv /\ BatchSize \in Nat \ {0}
  BY ServerAssumption DEF ControlInv
<1>1. ASSUME UNCHANGED <<mode, calcVars>> PROVE ServeInv'
  BY <1>0, <1>1 DEF ServeInv, Totals
<1>2. ASSUME NEW c \in Calls, CalculateSync(c) PROVE ServeInv'
  <2>1. /\ mode = "sync" /\ UNCHANGED <<mode, queue, closed, batch, serve>>
        /\ \A o \in Op : o # "all" => applied'[o] = applied[o]
    BY <1>0, <1>2 DEF CalculateSync, TypeOK
  <2>2. Totals = {"all"} /\ Totals' = {"all"}
    BY <2>1 DEF Totals
  <2>3. QED
    BY <1>0, <2>1, <2>2 DEF ServeInv
<1>3. ASSUME NEW c \in Calls, NEW o \in Op, Enqueue(c, o) PROVE ServeInv'
  <2>1. /\ mode # "sync" /\ o \in Totals /\ ~closed[o]
        /\ UNCHANGED <<mode, applied, closed, batch, serve>>
        /\ \A p \in Op : p # o => queue'[p] = queue[p]
    BY <1>0, <1>3 DEF Enqueue, TypeOK, HandlerInv
  <2>2. serve[o] \notin {"none", "lastFlush", "ended"} /\ Totals' = Totals
    BY <1>0, <2>1 DEF ServeInv, Totals
  <2>3. QED
    BY <1>0, <2>1, <2>2 DEF ServeInv
<1>4. ASSUME NEW o \in Op, Apply(o) PROVE ServeInv'
  <2>1. /\ serve[o] = "select" /\ UNCHANGED <<mode, closed>>
        /\ \A p \in Op : p # o => /\ queue'[p] = queue[p] /\ applied'[p] = applied[p]
                                  /\ batch'[p] = batch[p] /\ serve'[p] = serve[p]
        /\ serve'[o] = IF batch'[o] >= BatchSize THEN "flush" ELSE "select"
        /\ batch'[o] \in Int
    BY <1>0, <1>4 DEF Apply, TypeOK
  <2>2. /\ Totals' = Totals /\ o \in Totals /\ mode # "sync"
        /\ serve'[o] = "select" => batch'[o] < BatchSize
    BY <1>0, <2>1 DEF ServeInv, Totals
  <2>3. serve'[o] \in {"select", "flush"}
    BY <2>1
  <2>4. QED
    BY <1>0, <2>1, <2>2, <2>3 DEF ServeInv
<1>5. ASSUME NEW o \in Op, ReceiveTick(o) PROVE ServeInv'
  <2>1. /\ serve[o] = "select" /\ serve'[o] = "flush"
        /\ UNCHANGED <<mode, queue, closed, applied, batch>>
        /\ \A p \in Op : p # o => serve'[p] = serve[p]
    BY <1>0, <1>5 DEF ReceiveTick, TypeOK
  <2>2. QED
    BY <1>0, <2>1 DEF ServeInv, Totals
<1>6. ASSUME NEW o \in Op, Exit(o) PROVE ServeInv'
  <2>1. /\ serve[o] = "select" /\ closed[o] /\ queue[o] = 0
        /\ serve'[o] = IF batch[o] > 0 THEN "lastFlush" ELSE "ended"
        /\ UNCHANGED <<mode, queue, closed, applied, batch>>
        /\ batch[o] \in Nat
        /\ \A p \in Op : p # o => serve'[p] = serve[p]
    BY <1>0, <1>6 DEF Exit, TypeOK
  <2>2. serve'[o] \in {"lastFlush", "ended"} /\ (serve'[o] = "ended" => batch[o] = 0)
    BY <2>1
  <2>3. Totals' = Totals
    BY <2>1 DEF Totals
  <2>4. QED
    BY <1>0, <2>1, <2>2, <2>3 DEF ServeInv
<1>7. ASSUME NEW o \in Op, Flush(o) \/ LastFlush(o) PROVE ServeInv'
  <2>1. /\ UNCHANGED <<mode, queue, closed, applied>> /\ batch'[o] = 0
        /\ \/ serve[o] = "flush" /\ serve'[o] = "select"
           \/ serve[o] = "lastFlush" /\ serve'[o] = "ended"
        /\ \A p \in Op : p # o => serve'[p] = serve[p] /\ batch'[p] = batch[p]
    BY <1>0, <1>7 DEF Flush, LastFlush, TypeOK
  <2>2. Totals' = Totals
    BY <2>1 DEF Totals
  <2>3. QED
    BY <1>0, <2>1, <2>2 DEF ServeInv
<1>8. ASSUME UNCHANGED <<mode, queue, applied, batch, serve>>,
             NEW o \in Totals, mode # "sync",
             \A p \in Op : p # o => closed'[p] = closed[p],
             closed'[o] \/ closed'[o] = closed[o]
      PROVE  ServeInv'
  <2>1. Totals' = Totals
    BY <1>8 DEF Totals
  <2>2. QED
    BY <1>0, <1>8, <2>1 DEF ServeInv
<1>9. CASE ServerEnds
  <2>1. /\ UNCHANGED <<mode, queue, applied, batch, serve>> /\ First \in Totals
        /\ \A p \in Op : p # First => closed'[p] = closed[p]
        /\ closed'[First] = (AfterServer = "calculator")
    BY <1>0, <1>9, FirstTotal DEF ServerEnds, TypeOK
  <2>2. CASE mode = "sync"
    <3>1. First = "all" /\ serve["all"] = "none" /\ ~closed'[First]
      BY <1>0, <2>1, <2>2 DEF First, AfterServer, ServeInv, Op
    <3>2. closed' = closed
      BY <1>0, <1>9, <2>1, <3>1 DEF ServerEnds, ServeInv, TypeOK, Op
    <3>3. QED
      BY <1>1, <2>1, <3>2
  <2>3. CASE mode # "sync"
    BY <1>8, <2>1, <2>3 DEF AfterServer
  <2>4. QED
    BY <2>2, <2>3
<1>10. CASE SumStopped
  <2>1. /\ UNCHANGED <<mode, queue, applied, batch, serve>> /\ "sub" \in Totals /\ mode # "sync"
        /\ \A p \in Op : p # "sub" => closed'[p] = closed[p]
        /\ closed'["sub"]
    BY <1>0, <1>10 DEF SumStopped, TypeOK, Totals, Op
  <2>2. QED
    BY <1>8, <2>1
<1>11. ASSUME NEW c \in Calls,
              CallCalculate(c) \/ RecordSample(c) \/ RecordSamplePanics(c)
       PROVE  ServeInv'
  BY <1>1, <1>11 DEF CallCalculate, RecordSample, RecordSamplePanics
<1>12. ASSUME NEW c \in Calls, NEW o \in Op, Overloaded(c, o) \/ EnqueuePanics(c, o)
       PROVE  ServeInv'
  BY <1>1, <1>12 DEF Overloaded, EnqueuePanics
<1>13. ASSUME NEW o \in Op, ReceiveValue(o) PROVE ServeInv'
  BY <1>1, <1>13 DEF ReceiveValue
<1>14. CASE Receive \/ AggregatorEnds \/ PrinterTick \/ PrinterStop
  BY <1>1, <1>14 DEF Receive, AggregatorEnds, PrinterTick, PrinterStop
<1>15. CASE CalculatorStopped \/ PrinterStopped \/ AggregatorStopped
  BY <1>1, <1>15 DEF CalculatorStopped, PrinterStopped, AggregatorStopped
<1>16. CASE UNCHANGED vars
  BY <1>1, <1>16 DEF vars
<1>17. QED
  BY <1>2, <1>3, <1>4, <1>5, <1>6, <1>7, <1>9, <1>10, <1>11,
     <1>12, <1>13, <1>14, <1>15, <1>16
  DEF Next, Handle, Serve, Stops

(* The mode and the end of the HTTP server are chosen at the start.        *)
LEMMA ConfNext ==
  [Next]_vars => UNCHANGED confVars /\ First' = First /\ Totals' = Totals
<1> SUFFICES ASSUME [Next]_vars PROVE UNCHANGED confVars /\ First' = First /\ Totals' = Totals
  OBVIOUS
<1>1. UNCHANGED confVars
  BY DEF Next, Handle, Serve, Stops, CallCalculate, CalculateSync, RecordSample,
         RecordSamplePanics, Enqueue, Overloaded, EnqueuePanics, Apply, ReceiveTick,
         Flush, Exit, LastFlush, ReceiveValue, Receive, AggregatorEnds, PrinterTick,
         PrinterStop, ServerEnds, SumStopped, CalculatorStopped, PrinterStopped,
         AggregatorStopped, vars
<1>2. QED
  BY <1>1 DEF confVars, First, Totals

LEMMA HandlerNext == ControlInv /\ [Next]_vars => HandlerInv'
<1> SUFFICES ASSUME ControlInv, [Next]_vars PROVE HandlerInv'
  OBVIOUS
<1> USE DEF calcVars, aggVars, printVars, confVars
<1>0. TypeOK /\ HandlerInv /\ RunInv
  BY DEF ControlInv
<1>a. UNCHANGED confVars /\ First' = First /\ Totals' = Totals
  BY ConfNext
<1>b. orderly => /\ run # "serving" => \A c \in Calls : call[c] \notin Op \cup {"record"}
                 /\ \A c \in Calls : call[c] # "panicked"
  BY <1>0 DEF HandlerInv, InFlight
<1>1. ASSUME NEW c \in Calls,
             \A d \in Calls : d # c => call'[d] = call[d],
             call'[c] \in Op => call'[c] \in Totals,
             call'[c] = "record" => mode = "sync",
             orderly => call'[c] # "panicked",
             run' = run,
             orderly => run = "serving" \/ call'[c] \notin Op \cup {"record"}
      PROVE  HandlerInv'
  <2>1. \A d \in Calls : /\ call'[d] \in Op => call'[d] \in Totals'
                         /\ call'[d] = "record" => mode' = "sync"
                         /\ orderly' => call'[d] # "panicked"
    BY <1>0, <1>1, <1>a DEF HandlerInv
  <2>2. orderly' /\ run' # "serving" => \A d \in Calls : call'[d] \notin Op \cup {"record"}
    BY <1>1, <1>a, <1>b
  <2>3. QED
    BY <2>1, <2>2 DEF HandlerInv, InFlight
<1>2. ASSUME UNCHANGED call,
             run' = run \/ run # "serving" \/ (orderly => InFlight = {})
      PROVE  HandlerInv'
  <2>1. InFlight' = InFlight
    BY <1>2 DEF InFlight
  <2>2. QED
    BY <1>0, <1>2, <1>a, <2>1 DEF HandlerInv
<1>3. ASSUME NEW c \in Calls, CallCalculate(c) PROVE HandlerInv'
  <2>1. /\ call'[c] = First /\ run' = run /\ First \in Totals /\ First \in Op
        /\ orderly => run = "serving"
        /\ \A d \in Calls : d # c => call'[d] = call[d]
    BY <1>0, <1>3, FirstTotal DEF CallCalculate, TypeOK
  <2>2. First \notin {"record", "panicked"}
    BY DEF First
  <2>3. QED
    BY <1>1, <2>1, <2>2
<1>4. ASSUME NEW c \in Calls,
             CalculateSync(c) \/ RecordSample(c) \/ RecordSamplePanics(c)
      PROVE  HandlerInv'
  <2>1. /\ call[c] \in Op \cup {"record"} /\ run' = run
        /\ \A d \in Calls : d # c => call'[d] = call[d]
        /\ \/ call'[c] = "record" /\ mode = "sync"
           \/ call'[c] = "ok"
           \/ call'[c] = "panicked" /\ agg = "ended"
    BY <1>0, <1>4 DEF CalculateSync, RecordSample, RecordSamplePanics, TypeOK, Op
  <2>2. orderly => run = "serving" /\ agg # "ended"
    BY <1>0, <1>b, <2>1 DEF RunInv, AfterPrinter
  <2>3. call'[c] \notin Op
    BY <2>1 DEF Op
  <2>4. QED
    BY <1>1, <2>1, <2>2, <2>3
<1>5. ASSUME NEW c \in Calls, NEW o \in Op,
             Enqueue(c, o) \/ Overloaded(c, o) \/ EnqueuePanics(c, o)
      PROVE  HandlerInv'
  <2>1. /\ call[c] = o /\ run' = run
        /\ \A d \in Calls : d # c => call'[d] = call[d]
        /\ \/ call'[c] = "sub" /\ o = "sum"
           \/ call'[c] \in {"ok", "overloaded"}
           \/ call'[c] = "panicked" /\ closed[o]
    BY <1>0, <1>5 DEF Enqueue, Overloaded, EnqueuePanics, TypeOK
  <2>2. orderly => run = "serving" /\ ~closed[o]
    BY <1>0, <1>b, <2>1 DEF RunInv
  <2>3. call'[c] \in Op => call'[c] \in Totals
    BY <1>0, <2>1 DEF HandlerInv, Totals, Op
  <2>4. call'[c] # "record"
    BY <2>1
  <2>5. QED
    BY <1>1, <2>1, <2>2, <2>3, <2>4
<1>6. CASE ServerEnds
  BY <1>2, <1>6 DEF ServerEnds
<1>7. CASE Stops
  BY <1>2, <1>7 DEF Stops, SumStopped, CalculatorStopped, PrinterStopped, AggregatorStopped
<1>8. ASSUME NEW o \in Op, Serve(o) \/ ReceiveValue(o) PROVE HandlerInv'
  BY <1>2, <1>8 DEF Serve, ReceiveValue, Apply, ReceiveTick, Flush, Exit, LastFlush
<1>9. CASE Receive \/ AggregatorEnds \/ PrinterTick \/ PrinterStop
  BY <1>2, <1>9 DEF Receive, AggregatorEnds, PrinterTick, PrinterStop
<1>10. CASE UNCHANGED vars
  BY <1>2, <1>10 DEF vars
<1>11. QED
  BY <1>3, <1>4, <1>5, <1>6, <1>7, <1>8, <1>9, <1>10 DEF Next, Handle

LEMMA RunNext == ControlInv /\ [Next]_vars => RunInv'
<1> SUFFICES ASSUME ControlInv, [Next]_vars PROVE RunInv'
  OBVIOUS
<1> USE DEF calcVars, aggVars, printVars, confVars
<1>0. TypeOK /\ ServeInv /\ RunInv /\ mode' = mode
  BY ConfNext DEF ControlInv
<1>1. ASSUME UNCHANGED <<run, closed, serve, printer, agg>> PROVE RunInv'
  BY <1>0, <1>1 DEF RunInv
<1>2. ASSUME NEW o \in Op, Serve(o) PROVE RunInv'
  <2>1. serve[o] \in {"select", "flush", "lastFlush"} /\ UNCHANGED <<run, closed, printer, agg>>
    BY <1>2 DEF Serve, Apply, ReceiveTick, Flush, Exit, LastFlush
  <2>2. run \notin AfterCalculator
    BY <1>0, <2>1 DEF RunInv
  <2>3. QED
    BY <1>0, <2>1, <2>2 DEF RunInv
<1>3. ASSUME NEW o \in Op, ReceiveValue(o) PROVE RunInv'
  <2>1. printer # "ended" /\ UNCHANGED <<run, closed, serve, agg>>
    BY <1>3 DEF ReceiveValue, Op
  <2>2. QED
    BY <1>0, <2>1 DEF RunInv
<1>4. CASE PrinterTick \/ PrinterStop
  <2>1. printer # "ended" /\ UNCHANGED <<run, closed, serve, agg>>
    BY <1>4 DEF PrinterTick, PrinterStop
  <2>2. QED
    BY <1>0, <2>1 DEF RunInv
<1>5. CASE ServerEnds
  <2>1. run = "serving" /\ run' = AfterServer /\ UNCHANGED <<serve, printer, agg>>
    BY <1>5 DEF ServerEnds
  <2>2. CASE mode = "sync"
    <3>1. run' = "printer" /\ \A o \in Op : serve[o] = "none"
      BY <1>0, <2>1, <2>2 DEF AfterServer, ServeInv
    <3>2. QED
      BY <1>0, <2>1, <3>1 DEF RunInv, AfterCalculator, AfterPrinter
  <2>3. CASE mode # "sync"
    <3>1. run' = "calculator"
      BY <2>1, <2>3 DEF AfterServer
    <3>2. QED
      BY <1>0, <2>1, <2>3, <3>1 DEF RunInv, AfterCalculator, AfterPrinter
  <2>4. QED
    BY <2>2, <2>3
<1>6. CASE SumStopped
  BY <1>0, <1>6 DEF SumStopped, RunInv
<1>7. CASE CalculatorStopped
  <2>1. run = "calculator" /\ run' = "printer" /\ UNCHANGED <<closed, serve, printer, agg>>
    BY <1>7 DEF CalculatorStopped
  <2>2. \A o \in Op : serve[o] \in {"none", "ended"}
    BY <1>0, <1>7 DEF CalculatorStopped, ServeInv
  <2>3. QED
    BY <1>0, <2>1, <2>2 DEF RunInv, AfterCalculator, AfterPrinter
<1>8. CASE PrinterStopped \/ AggregatorStopped
  BY <1>0, <1>8 DEF PrinterStopped, AggregatorStopped, RunInv, AfterCalculator, AfterPrinter
<1>9. CASE AggregatorEnds
  BY <1>0, <1>9 DEF AggregatorEnds, RunInv, AfterPrinter
<1>10. CASE Receive \/ UNCHANGED vars
  BY <1>1, <1>10 DEF Receive, vars
<1>11. ASSUME NEW c \in Calls, CallCalculate(c) \/ Handle(c) PROVE RunInv'
  BY <1>1, <1>11 DEF CallCalculate, Handle, CalculateSync, RecordSample,
     RecordSamplePanics, Enqueue, Overloaded, EnqueuePanics
<1>12. QED
  BY <1>2, <1>3, <1>4, <1>5, <1>6, <1>7, <1>8, <1>9, <1>10, <1>11 DEF Next, Stops

LEMMA ControlAlways == Spec => []ControlInv
<1>1. ControlInv /\ [Next]_vars => ControlInv'
  BY TypeNext, ServeNext, HandlerNext, RunNext DEF ControlInv
<1>2. QED
  BY <1>1, ControlInit, PTL DEF Spec

(* The server keeps its types: queues, batches and the aggregator's        *)
(* channel are within their capacities.                                    *)
THEOREM Typing == Spec => []TypeOK
<1>1. ControlInv => TypeOK
  BY DEF ControlInv
<1>2. QED
  BY <1>1, ControlAlways, PTL

-----------------------------------------------------------------------------
(***************************************************************************)
(* The final line.                                                         *)
(***************************************************************************)
(* Once Run is past the calculator the totals are settled: its goroutines  *)
(* have ended, and an orderly end has left no handler to calculate.        *)
LEMMA TotalsRemain ==
  ControlInv /\ [Next]_vars /\ run \in AfterCalculator /\ Settled => applied' = applied
<1> SUFFICES ASSUME ControlInv, [Next]_vars, run \in AfterCalculator, Settled
             PROVE  applied' = applied
  OBVIOUS
<1> USE DEF calcVars, aggVars, printVars, confVars
<1>1. \A o \in Op : ~Serve(o)
  BY DEF ControlInv, RunInv, Serve, Apply, ReceiveTick, Flush, Exit, LastFlush
<1>2. \A c \in Calls : ~CalculateSync(c)
  BY DEF ControlInv, HandlerInv, InFlight, CalculateSync, Settled, AfterCalculator, Op
<1>3. QED
  BY <1>1, <1>2 DEF Next, Handle, CallCalculate, RecordSample, RecordSamplePanics,
     Enqueue, Overloaded, EnqueuePanics, ReceiveValue, Receive, AggregatorEnds,
     PrinterTick, PrinterStop, ServerEnds, Stops, SumStopped, CalculatorStopped,
     PrinterStopped, AggregatorStopped, vars

LEMMA PrinterNext == ControlInv /\ PrinterInv /\ [Next]_vars => PrinterInv'
<1> SUFFICES ASSUME ControlInv, PrinterInv, [Next]_vars PROVE PrinterInv'
  OBVIOUS
<1> USE DEF calcVars, aggVars, confVars, printVars
<1>0. /\ TypeOK /\ ServeInv /\ RunInv /\ Totals' = Totals /\ First' = First
      /\ Settled' = Settled /\ None' = None
  BY ConfNext DEF ControlInv, Settled, None
<1>1. run \in AfterCalculator /\ Settled => applied' = applied
  BY TotalsRemain
<1>2. ASSUME UNCHANGED <<printer, label, got, line>>,
             \/ run' = run
             \/ run \notin AfterCalculator
             \/ run' \in AfterCalculator /\ printer \notin Op
      PROVE  PrinterInv'
  <2>1. UNCHANGED <<printer, label, got, line>>
    BY <1>2
  <2>2. label = "final" /\ printer \in Op => run = "printer" /\ run' = "printer"
    BY <1>2 DEF PrinterInv, AfterCalculator
  <2>3. printer = "ended" => run \in AfterCalculator /\ run' \in AfterCalculator
    BY <1>2 DEF PrinterInv
  <2>4. label = "final" => (printer \in Op \/ printer = "ended")
    BY <1>0 DEF PrinterInv, TypeOK
  <2>5. label = "final" /\ Settled => applied' = applied
    BY <1>1, <2>2, <2>3, <2>4 DEF AfterCalculator
  <2>6. QED
    BY <1>0, <2>1, <2>2, <2>3, <2>5 DEF PrinterInv
<1>3. CASE PrinterTick
  <2>1. /\ printer = "select" /\ label' = "periodic" /\ printer' = First
        /\ UNCHANGED <<got, line, run>>
    BY <1>3 DEF PrinterTick
  <2>2. First \in Totals /\ First \notin {"select", "ended"} /\ got = None
    BY <2>1, FirstTotal DEF PrinterInv, First
  <2>3. QED
    BY <1>0, <2>1, <2>2 DEF PrinterInv
<1>4. CASE PrinterStop
  <2>1. /\ printer = "select" /\ label' = "final" /\ printer' = First
        /\ UNCHANGED <<got, line, run>> /\ run = "printer"
    BY <1>4 DEF PrinterStop
  <2>2. First \in Totals /\ First \notin {"select", "ended", "sub"} /\ got = None
    BY <2>1, FirstTotal DEF PrinterInv, First
  <2>3. QED
    BY <1>0, <2>1, <2>2 DEF PrinterInv
<1>5. ASSUME NEW o \in Op, ReceiveValue(o) PROVE PrinterInv'
  <2>1. /\ printer = o /\ o \in Totals /\ UNCHANGED <<label, run, applied>>
        /\ label = "periodic" => got' = None
        /\ label = "final" => got' = [got EXCEPT ![o] = applied[o]]
        /\ label \in {"periodic", "final"}
    BY <1>0, <1>5 DEF ReceiveValue, PrinterInv, TypeOK
  <2>2. CASE label = "periodic"
    <3>1. got' = None /\ ((printer' = "sub" /\ o = "sum") \/ printer' = "select")
      BY <1>5, <2>1, <2>2 DEF ReceiveValue, AfterLine
    <3>2. printer' \in Op => printer' \in Totals
      BY <2>1, <3>1 DEF Totals, Op
    <3>3. QED
      BY <1>0, <2>1, <2>2, <3>1, <3>2 DEF PrinterInv
  <2>3. CASE label = "final" /\ o = "sum"
    <3>1. run = "printer" /\ printer' = "sub" /\ First = "sum" /\ "sub" \in Totals
      BY <1>5, <2>1, <2>3 DEF ReceiveValue, PrinterInv, First, Totals
    <3>2. Settled => got' = [None EXCEPT !["sum"] = applied["sum"]]
      BY <2>1, <2>3, <3>1 DEF PrinterInv
    <3>3. QED
      BY <1>0, <2>1, <2>3, <3>1, <3>2 DEF PrinterInv
  <2>4. CASE label = "final" /\ o # "sum"
    <3>1. /\ run = "printer" /\ printer' = "ended" /\ line'.label = "final" /\ line'.vals = got'
          /\ got' = [got EXCEPT ![o] = applied[o]]
      <4>1. printer' = "ended" /\ line' = [label |-> "final", vals |-> got']
        BY <1>5, <2>4 DEF ReceiveValue, AfterLine
      <4>2. run = "printer"
        BY <2>1, <2>4 DEF PrinterInv
      <4>3. line'.label = "final" /\ line'.vals = got'
        BY <4>1
      <4>4. QED
        BY <2>1, <2>4, <4>1, <4>2, <4>3
    <3>2. ASSUME Settled PROVE got' = applied
      <4>1. applied \in [Op -> Nat] /\ \A p \in Op : p \notin Totals => applied[p] = 0
        BY <1>0 DEF TypeOK, ServeInv
      <4>2. CASE o = "sub"
        <5>1. got = [None EXCEPT !["sum"] = applied["sum"]]
          BY <2>1, <2>4, <3>2, <4>2 DEF PrinterInv
        <5>2. applied["all"] = 0
          BY <2>1, <4>1, <4>2 DEF Totals, Op
        <5>3. QED
          BY <3>1, <4>1, <4>2, <5>1, <5>2 DEF None, Op
      <4>3. CASE o = "all"
        <5>1. First = "all"
          BY <2>1, <4>3 DEF Totals, First
        <5>2. got = None
          BY <2>1, <2>4, <3>2, <4>3, <5>1 DEF PrinterInv
        <5>3. applied["sum"] = 0 /\ applied["sub"] = 0
          BY <2>1, <4>1, <4>3 DEF Totals, Op
        <5>4. QED
          BY <3>1, <4>1, <4>3, <5>2, <5>3 DEF None, Op
      <4>4. QED
        BY <2>4, <4>2, <4>3 DEF Op
    <3>3. printer' \notin Op /\ printer' # First
      BY <3>1 DEF Op, First
    <3>4. run \in AfterCalculator
      BY <3>1 DEF AfterCalculator
    <3>5. QED
      BY <1>0, <2>1, <2>4, <3>1, <3>2, <3>3, <3>4 DEF PrinterInv
  <2>5. QED
    BY <2>1, <2>2, <2>3, <2>4
<1>6. CASE ServerEnds \/ CalculatorStopped
  <2>1. UNCHANGED <<printer, label, got, line>> /\ run \notin AfterCalculator
    BY <1>6 DEF ServerEnds, CalculatorStopped, AfterCalculator
  <2>2. QED
    BY <1>2, <2>1
<1>7. CASE PrinterStopped \/ AggregatorStopped
  <2>1. UNCHANGED <<printer, label, got, line>> /\ run' \in AfterCalculator /\ printer = "ended"
    BY <1>0, <1>7 DEF PrinterStopped, AggregatorStopped, AfterCalculator, RunInv, AfterPrinter
  <2>2. QED
    BY <1>2, <2>1 DEF Op
<1>8. CASE SumStopped \/ Receive \/ AggregatorEnds
  BY <1>2, <1>8 DEF SumStopped, Receive, AggregatorEnds
<1>9. ASSUME NEW o \in Op, Serve(o) PROVE PrinterInv'
  BY <1>2, <1>9 DEF Serve, Apply, ReceiveTick, Flush, Exit, LastFlush
<1>10. ASSUME NEW c \in Calls, CallCalculate(c) \/ Handle(c) PROVE PrinterInv'
  BY <1>2, <1>10 DEF CallCalculate, Handle, CalculateSync, RecordSample,
     RecordSamplePanics, Enqueue, Overloaded, EnqueuePanics
<1>11. CASE UNCHANGED vars
  BY <1>2, <1>11 DEF vars
<1>12. QED
  BY <1>3, <1>4, <1>5, <1>6, <1>7, <1>8, <1>9, <1>10, <1>11 DEF Next, Stops

(* The last line printed is the final one and shows the totals as they     *)
(* remain.                                                                 *)
THEOREM FinalLineShown == Spec => []FinalLine
<1>1. Init => PrinterInv
  BY DEF Init, PrinterInv, Op
<1>2. ControlInv /\ PrinterInv => FinalLine
  <2> SUFFICES ASSUME ControlInv, PrinterInv, run \in {"aggregator", "returned"}
               PROVE  /\ printer = "ended" /\ line.label = "final"
                      /\ Settled => line.vals = applied /\ queue = None
    BY DEF FinalLine
  <2>1. printer = "ended" /\ \A o \in Op : serve[o] \in {"none", "ended"}
    BY DEF ControlInv, RunInv, AfterPrinter, AfterCalculator
  <2>2. \A o \in Op : queue[o] = 0
    BY <2>1 DEF ControlInv, ServeInv
  <2>3. queue = None
    BY <2>2 DEF ControlInv, TypeOK, None
  <2>4. QED
    BY <2>1, <2>3 DEF PrinterInv
<1>3. QED
  BY <1>1, <1>2, ControlAlways, PrinterNext, PTL DEF Spec

-----------------------------------------------------------------------------
(***************************************************************************)
(* The samples.                                                            *)
(***************************************************************************)
LEMMA OpFinite == IsFiniteSet(Op)
<1>1. IsFiniteSet({"all"}) /\ IsFiniteSet({"sum"}) /\ IsFiniteSet({"sub"})
  BY FS_Singleton
<1>2. Op = ({"all"} \cup {"sum"}) \cup {"sub"}
  BY DEF Op
<1>3. IsFiniteSet({"all"} \cup {"sum"})
  BY <1>1, FS_Union
<1>4. QED
  BY <1>1, <1>2, <1>3, FS_Union

LEMMA SumOverOp ==
  ASSUME NEW f \in [Op -> Nat]
  PROVE  SumFunction(f) \in Nat
BY OpFinite, SumNat DEF SumFunction

LEMMA SumChanges ==
  ASSUME NEW f \in [Op -> Nat], NEW g \in [Op -> Nat], NEW o \in Op,
         \A p \in Op : p # o => g[p] = f[p]
  PROVE  SumFunction(g) = SumFunction(f) + (g[o] - f[o])
<1>1. SumFunctionOnSet(g, Op) = SumFunctionOnSet(f, Op) + (g[o] - f[o])
  BY OpFinite, SumUpdate
<1>2. QED
  BY <1>1 DEF SumFunction

LEMMA ChanChanges ==
  ASSUME NEW q \in Seq(Nat)
  PROVE  /\ SumFunction(q) \in Nat
         /\ \A n \in Nat : SumFunction(Append(q, n)) = SumFunction(q) + n
         /\ q # <<>> => /\ Head(q) \in Nat /\ SumFunction(Tail(q)) \in Nat
                        /\ SumFunction(q) = Head(q) + SumFunction(Tail(q))
<1>1. q \in Seq(Int)
  OBVIOUS
<1>2. SumFunction(q) \in Nat
  BY SumSeqNat
<1>3. \A n \in Nat : SumFunction(Append(q, n)) = SumFunction(q) + n
  BY <1>1, SumSeqAppend
<1>4. ASSUME q # <<>>
      PROVE  /\ Head(q) \in Nat /\ SumFunction(Tail(q)) \in Nat
             /\ SumFunction(q) = Head(q) + SumFunction(Tail(q))
  <2>1. Head(q) \in Nat /\ Tail(q) \in Seq(Nat)
    BY <1>4
  <2>2. QED
    BY <1>1, <1>4, <2>1, SumSeqNat, SumSeqTail
<1>5. QED
  BY <1>2, <1>3, <1>4

LEMMA SamplesInit == Init => SamplesInv
<1> SUFFICES ASSUME Init PROVE SamplesInv
  OBVIOUS
<1>1. Recording = {}
  BY DEF Init, Recording
<1>2. SumFunctionOnSet(None, Op) = 0
  BY OpFinite, SumZero DEF None
<1>3. SumFunction(None) = 0
  BY <1>2 DEF SumFunction, None
<1>4. SumFunction(chan) = 0
  <2>1. chan = <<>> /\ DOMAIN chan = {}
    BY DEF Init
  <2>2. QED
    BY <2>1, SumEmpty DEF SumFunction
<1>5. recorded = 0 /\ batch = None /\ applied = None
  BY DEF Init
<1>6. QED
  BY <1>1, <1>3, <1>4, <1>5, FS_EmptySet DEF SamplesInv

LEMMA SamplesNext == ControlInv /\ SamplesInv /\ [Next]_vars => SamplesInv'
<1> SUFFICES ASSUME ControlInv, SamplesInv, [Next]_vars PROVE SamplesInv'
  OBVIOUS
<1> USE DEF calcVars, aggVars, printVars, confVars
<1>0. /\ chan \in Seq(Nat) /\ recorded \in Nat
      /\ batch \in [Op -> Nat] /\ applied \in [Op -> Nat]
      /\ IsFiniteSet(Recording) /\ Cardinality(Recording) \in Nat
      /\ SumFunction(chan) \in Nat /\ SumFunction(batch) \in Nat /\ SumFunction(applied) \in Nat
      /\ Settled' = Settled
  <2>1. /\ chan \in Seq(Nat) /\ recorded \in Nat
        /\ batch \in [Op -> 0 .. BatchSize] /\ applied \in [Op -> Nat]
    BY DEF ControlInv, TypeOK
  <2>2. batch \in [Op -> Nat]
    BY <2>1, ServerAssumption
  <2>3. Settled' = Settled
    BY ConfNext DEF Settled, confVars
  <2>4. QED
    BY <2>1, <2>2, <2>3, ChanChanges, SumOverOp, FS_CardinalityType DEF SamplesInv
<1>T. TypeOK
  BY DEF ControlInv
<1>1. ASSUME Recording' = Recording,
             Settled =>
               recorded' + SumFunction(chan') + SumFunction(batch') + SumFunction(applied)
                 = recorded + SumFunction(chan) + SumFunction(batch) + SumFunction(applied'),
             recorded' \in Nat, SumFunction(chan') \in Nat,
             SumFunction(batch') \in Nat, SumFunction(applied') \in Nat
      PROVE  SamplesInv'
  <2>1. IsFiniteSet(Recording') /\ Cardinality(Recording') = Cardinality(Recording)
    BY <1>0, <1>1
  <2>2. ASSUME Settled
        PROVE  recorded' + SumFunction(chan') + SumFunction(batch') + Cardinality(Recording')
                 = SumFunction(applied')
    <3>1. recorded + SumFunction(chan) + SumFunction(batch) + Cardinality(Recording)
            = SumFunction(applied)
      BY <2>2 DEF SamplesInv
    <3>2. recorded' + SumFunction(chan') + SumFunction(batch') + SumFunction(applied)
            = recorded + SumFunction(chan) + SumFunction(batch) + SumFunction(applied')
      BY <1>1, <2>2
    <3> DEFINE before == recorded + SumFunction(chan) + SumFunction(batch)
               after  == recorded' + SumFunction(chan') + SumFunction(batch')
               a == SumFunction(applied)
               A == SumFunction(applied')
               k == Cardinality(Recording)
    <3>3. before \in Nat /\ after \in Nat /\ a \in Nat /\ A \in Nat /\ k \in Nat
      BY <1>0, <1>1
    <3>4. before + k = a /\ after + a = before + A
      BY <3>1, <3>2
    <3>5. Cardinality(Recording') = k
      BY <2>1
    <3> HIDE DEF before, after, a, A, k
    <3>6. after + k = A
      BY <3>3, <3>4
    <3>7. QED
      BY <3>5, <3>6 DEF after, A
  <2>3. QED
    BY <1>0, <2>1, <2>2 DEF SamplesInv
<1>2. ASSUME UNCHANGED <<call, recorded, chan, batch, applied>> PROVE SamplesInv'
  <2>1. Recording' = Recording
    BY <1>2 DEF Recording
  <2>2. QED
    BY <1>0, <1>1, <1>2, <2>1
<1>3. ASSUME NEW c \in Calls, call[c] # "record", call'[c] # "record",
             \A d \in Calls : d # c => call'[d] = call[d],
             UNCHANGED <<recorded, chan, batch, applied>>
      PROVE  SamplesInv'
  <2>1. Recording' = Recording
    BY <1>3 DEF Recording
  <2>2. QED
    BY <1>0, <1>1, <1>3, <2>1
<1>4. ASSUME NEW c \in Calls, CallCalculate(c) PROVE SamplesInv'
  <2>1. call[c] = "new" /\ call'[c] = First /\ First # "record"
    BY <1>T, <1>4 DEF CallCalculate, TypeOK, First
  <2>2. /\ \A d \in Calls : d # c => call'[d] = call[d]
        /\ UNCHANGED <<recorded, chan, batch, applied>>
    BY <1>T, <1>4 DEF CallCalculate, TypeOK
  <2>3. QED
    BY <1>3, <2>1, <2>2
<1>5. ASSUME NEW c \in Calls, NEW o \in Op,
             Enqueue(c, o) \/ Overloaded(c, o) \/ EnqueuePanics(c, o)
      PROVE  SamplesInv'
  <2>1. /\ call[c] = o /\ call'[c] \in {"sub", "ok", "overloaded", "panicked"}
        /\ \A d \in Calls : d # c => call'[d] = call[d]
        /\ UNCHANGED <<recorded, chan, batch, applied>>
    BY <1>T, <1>5 DEF Enqueue, Overloaded, EnqueuePanics, TypeOK
  <2>2. call[c] # "record" /\ call'[c] # "record"
    BY <2>1 DEF Op
  <2>3. QED
    BY <1>3, <2>1, <2>2
<1>6. ASSUME NEW c \in Calls, CalculateSync(c) PROVE SamplesInv'
  <2>1. /\ call[c] = "all" /\ call'[c] = "record" /\ UNCHANGED <<recorded, chan, batch>>
        /\ \A d \in Calls : d # c => call'[d] = call[d]
        /\ applied' \in [Op -> Nat] /\ "all" \in Op /\ applied'["all"] = applied["all"] + 1
        /\ \A p \in Op : p # "all" => applied'[p] = applied[p]
    BY <1>0, <1>T, <1>6 DEF CalculateSync, TypeOK, Op
  <2>2. Recording' = Recording \cup {c} /\ c \notin Recording
    BY <2>1 DEF Recording
  <2>3. IsFiniteSet(Recording') /\ Cardinality(Recording') = Cardinality(Recording) + 1
    BY <1>0, <2>2, FS_AddElement
  <2>4. SumFunction(applied') = SumFunction(applied) + (applied'["all"] - applied["all"])
    BY <1>0, <2>1, SumChanges
  <2>5. SumFunction(applied') = SumFunction(applied) + 1
    BY <1>0, <2>1, <2>4
  <2>6. SumFunction(chan') = SumFunction(chan) /\ SumFunction(batch') = SumFunction(batch)
    BY <2>1
  <2>7. ASSUME Settled
        PROVE  recorded' + SumFunction(chan') + SumFunction(batch') + Cardinality(Recording')
                 = SumFunction(applied')
    <3>1. recorded + SumFunction(chan) + SumFunction(batch) + Cardinality(Recording)
            = SumFunction(applied)
      BY <2>7 DEF SamplesInv
    <3>2. QED
      BY <1>0, <2>1, <2>3, <2>5, <2>6, <3>1
  <2>8. QED
    BY <1>0, <2>3, <2>7 DEF SamplesInv
<1>7. ASSUME NEW c \in Calls, RecordSample(c) PROVE SamplesInv'
  <2>1. /\ call[c] = "record" /\ call'[c] = "ok" /\ UNCHANGED <<recorded, batch, applied>>
        /\ \A d \in Calls : d # c => call'[d] = call[d]
        /\ chan' = Append(chan, 1)
    BY <1>T, <1>7 DEF RecordSample, TypeOK
  <2>2. Recording' = Recording \ {c} /\ c \in Recording
    BY <2>1 DEF Recording
  <2>3. IsFiniteSet(Recording') /\ Cardinality(Recording') = Cardinality(Recording) - 1
    BY <1>0, <2>2, FS_RemoveElement
  <2>4. SumFunction(chan') = SumFunction(chan) + 1
    BY <1>0, <2>1, ChanChanges
  <2>5. SumFunction(applied') = SumFunction(applied) /\ SumFunction(batch') = SumFunction(batch)
    BY <2>1
  <2>6. ASSUME Settled
        PROVE  recorded' + SumFunction(chan') + SumFunction(batch') + Cardinality(Recording')
                 = SumFunction(applied')
    <3>1. recorded + SumFunction(chan) + SumFunction(batch) + Cardinality(Recording)
            = SumFunction(applied)
      BY <2>6 DEF SamplesInv
    <3>2. QED
      BY <1>0, <2>1, <2>3, <2>4, <2>5, <3>1
  <2>7. QED
    BY <1>0, <2>3, <2>6 DEF SamplesInv
<1>8. ASSUME NEW c \in Calls, RecordSamplePanics(c) PROVE SamplesInv'
  <2>1. /\ call[c] = "record" /\ call'[c] = "panicked"
        /\ \A d \in Calls : d # c => call'[d] = call[d]
    BY <1>T, <1>8 DEF RecordSamplePanics, TypeOK
  <2>2. Recording' = Recording \ {c} /\ c \in Recording
    BY <2>1 DEF Recording
  <2>3. IsFiniteSet(Recording')
    BY <1>0, <2>2, FS_RemoveElement
  <2>4. ~Settled'
    <3>1. mode = "sync" /\ ~orderly'
      BY <2>1, HandlerNext DEF ControlInv, HandlerInv
    <3>2. QED
      BY <3>1, ConfNext DEF Settled, confVars
  <2>5. QED
    BY <2>3, <2>4 DEF SamplesInv
<1>9. ASSUME NEW o \in Op, Apply(o) PROVE SamplesInv'
  <2>1. /\ UNCHANGED <<call, recorded, chan>>
        /\ batch' = [batch EXCEPT ![o] = @ + 1] /\ applied' = [applied EXCEPT ![o] = @ + 1]
    BY <1>9 DEF Apply
  <2>2. /\ batch' \in [Op -> Nat] /\ applied' \in [Op -> Nat]
        /\ batch'[o] = batch[o] + 1 /\ applied'[o] = applied[o] + 1
        /\ batch[o] \in Nat /\ applied[o] \in Nat
        /\ \A p \in Op : p # o => batch'[p] = batch[p] /\ applied'[p] = applied[p]
    BY <1>0, <2>1
  <2>3. SumFunction(batch') = SumFunction(batch) + 1 /\ SumFunction(batch') \in Nat
    <3>1. SumFunction(batch') = SumFunction(batch) + (batch'[o] - batch[o])
      BY <1>0, <2>2, SumChanges
    <3>2. QED
      BY <1>0, <2>2, <3>1
  <2>4. SumFunction(applied') = SumFunction(applied) + 1 /\ SumFunction(applied') \in Nat
    <3>1. SumFunction(applied') = SumFunction(applied) + (applied'[o] - applied[o])
      BY <1>0, <2>2, SumChanges
    <3>2. QED
      BY <1>0, <2>2, <3>1
  <2>5. Recording' = Recording /\ recorded' = recorded /\ SumFunction(chan') = SumFunction(chan)
    BY <2>1 DEF Recording
  <2>6. QED
    BY <1>0, <1>1, <2>3, <2>4, <2>5
<1>10. ASSUME NEW o \in Op, Flush(o) \/ LastFlush(o) PROVE SamplesInv'
  <2>1. /\ UNCHANGED <<call, recorded, applied>>
        /\ batch' = [batch EXCEPT ![o] = 0] /\ chan' = Append(chan, batch[o])
    BY <1>10 DEF Flush, LastFlush
  <2>2. /\ batch' \in [Op -> Nat] /\ batch'[o] = 0 /\ batch[o] \in Nat
        /\ \A p \in Op : p # o => batch'[p] = batch[p]
    BY <1>0, <2>1
  <2>3. SumFunction(batch') = SumFunction(batch) - batch[o] /\ SumFunction(batch') \in Nat
    <3>1. SumFunction(batch') = SumFunction(batch) + (batch'[o] - batch[o])
      BY <1>0, <2>2, SumChanges
    <3>2. SumFunction(batch') \in Nat
      BY <2>2, SumOverOp
    <3>3. QED
      BY <1>0, <2>2, <3>1, <3>2
  <2>4. SumFunction(chan') = SumFunction(chan) + batch[o]
    BY <1>0, <2>1, <2>2, ChanChanges
  <2>5. /\ Recording' = Recording /\ recorded' = recorded
        /\ SumFunction(applied') = SumFunction(applied)
    BY <2>1 DEF Recording
  <2>6. QED
    BY <1>0, <1>1, <2>2, <2>3, <2>4, <2>5
<1>11. CASE Receive
  <2>1. /\ UNCHANGED <<call, batch, applied>> /\ chan # <<>>
        /\ recorded' = recorded + Head(chan) /\ chan' = Tail(chan)
    BY <1>11 DEF Receive
  <2>2. /\ Head(chan) \in Nat /\ SumFunction(chan') \in Nat
        /\ SumFunction(chan) = Head(chan) + SumFunction(chan')
    BY <1>0, <2>1, ChanChanges
  <2>3. /\ Recording' = Recording /\ SumFunction(applied') = SumFunction(applied)
        /\ SumFunction(batch') = SumFunction(batch)
    BY <2>1 DEF Recording
  <2> DEFINE h == Head(chan)
             S == SumFunction(chan)
             T == SumFunction(chan')
             n == SumFunction(batch)
             a == SumFunction(applied)
  <2>4. /\ recorded' = recorded + h /\ S = h + T
        /\ h \in Nat /\ T \in Nat /\ recorded \in Nat /\ n \in Nat /\ a \in Nat
    BY <1>0, <2>1, <2>2
  <2> HIDE DEF h, S, T, n, a
  <2>5. recorded' \in Nat /\ recorded' + T + n + a = recorded + S + n + a
    BY <2>4
  <2>6. QED
    BY <1>0, <1>1, <2>2, <2>3, <2>5 DEF S, T, n, a
<1>12. ASSUME NEW o \in Op, ReceiveTick(o) \/ Exit(o) \/ ReceiveValue(o) PROVE SamplesInv'
  BY <1>2, <1>12 DEF ReceiveTick, Exit, ReceiveValue
<1>13. CASE AggregatorEnds \/ PrinterTick \/ PrinterStop \/ ServerEnds
  BY <1>2, <1>13 DEF AggregatorEnds, PrinterTick, PrinterStop, ServerEnds
<1>14. CASE Stops
  BY <1>2, <1>14 DEF Stops, SumStopped, CalculatorStopped, PrinterStopped, AggregatorStopped
<1>15. CASE UNCHANGED vars
  BY <1>2, <1>15 DEF vars
<1>16. QED
  BY <1>4, <1>5, <1>6, <1>7, <1>8, <1>9, <1>10, <1>11, <1>12, <1>13, <1>14, <1>15
  DEF Next, Handle, Serve

(* Every sample has been delivered when the aggregator is stopped, nobody  *)
(* is left to send to it, and an orderly end lets no handler panic.        *)
THEOREM AllSamplesDelivered == Spec => []SamplesDelivered
<1>1. ControlInv /\ SamplesInv => SamplesDelivered
  <2> SUFFICES ASSUME ControlInv, SamplesInv PROVE SamplesDelivered
    OBVIOUS
  <2>1. agg = "ended" => \A o \in Op : serve[o] \in {"none", "ended"}
    BY DEF ControlInv, RunInv, AfterPrinter, AfterCalculator
  <2>2. ASSUME run \in {"aggregator", "returned"}, Settled
        PROVE  recorded + SumFunction(chan) = SumFunction(applied)
    <3>1. \A o \in Op : serve[o] \in {"none", "ended"}
      BY <2>2 DEF ControlInv, RunInv, AfterCalculator
    <3>2. \A o \in Op : batch[o] = 0
      BY <3>1 DEF ControlInv, ServeInv
    <3>3. SumFunctionOnSet(batch, Op) = 0
      BY <3>2, OpFinite, SumZero
    <3>4. SumFunction(batch) = 0
      BY <3>3 DEF SumFunction, ControlInv, TypeOK
    <3>5. Recording = {}
      BY <2>2 DEF Recording, Settled, ControlInv, HandlerInv, InFlight
    <3>6. recorded + SumFunction(chan) + SumFunction(batch) + Cardinality(Recording)
            = SumFunction(applied)
      BY <2>2 DEF SamplesInv
    <3>7. recorded \in Nat /\ SumFunction(chan) \in Nat
      BY ChanChanges DEF ControlInv, TypeOK
    <3>8. QED
      BY <3>4, <3>5, <3>6, <3>7, FS_EmptySet
  <2>3. orderly => \A c \in Calls : call[c] # "panicked"
    BY DEF ControlInv, HandlerInv
  <2>4. QED
    BY <2>1, <2>2, <2>3 DEF SamplesDelivered
<1>2. QED
  BY <1>1, ControlAlways, SamplesInit, SamplesNext, PTL DEF Spec

=============================================================================

# A TLA+ model of the calculation server

The repository is a small HTTP service written in Go. `POST /calc` hands a
number to two native operators (`add` of a C library, `sub` of a Rust library)
that keep two running totals; `GET /metrics` reports how long the operators took
and how many requests there were. A load generator is the second program. This
directory holds TLA+ modules that model its concurrent parts and its data
structures, TLC configurations that check them on small instances, and proofs of
the most important results for instances of every size.

`PROJECT.json` maps every definition to the source lines it models, lists the
runs, a mutant for every property (a plausible bug in a mapped definition that
the property catches), the theorems, and the hazards of the code with the
properties that watch over them.

## 1. The system

```
 api handlers ──Calculate──▶ calculators.{Sync,Async,Parallel} ──cgo──▶ add, sub
      │                          │  numCh, valCh, done            (c_lib, rust_lib)
      │                          │ RecordSample / RecordSamples / RecordDurations
      │ CountRequests            ▼           (buffers: pools.BatchPool)
      └───────────────▶ metrics.Aggregator ──snapshot──▶ metrics.Printer ──▶ GET /metrics
                              └── queue.Deque (histories, histogram windows)
 servers.Run: listener, pprof, aggregator, periodic printer (Values), calculator, HTTP server
 cmd/generator: number source ─▶ workers ─▶ clients;  loggers.Dedup;  waitWorkers, Merge
```

| Component | State | Operations | What makes it correct |
|---|---|---|---|
| operators (`internal/operators`, `c_lib`, `rust_lib`) | the loaded symbols, a sticky error | `add`, `sub`, `LoadLibraries` | both totals wrap at 64 bits the same way |
| `calculators.Sync` | both totals, a FIFO lock made of a channel | `Calculate`, `Values` | atomic application, no `Calculate` starves |
| `calculators.Async` | totals owned by `serve`, `numCh`, `valCh`, `done`, a batch of samples and its flush timer | `Calculate`, `Values`, `Stop` | acceptance order, consistent reads, a sample per calculation, nothing lost at `Stop` |
| `calculators.Parallel` | two `asyncSingle` servers | `Calculate`, `Values`, `Stop` | a number reaches both totals or neither, although two goroutines apply it |
| `metrics.Aggregator` | histograms by window, request history, atomic counters, a cached snapshot with mutex and handshake | `Record*`, `CountRequests`, `getSnapshot`, rotation, `Stop` | requests in their second, durations conserved, snapshots stable and fresh |
| `metrics.Printer` | text of the last report, its version and deadline | `Print` | the report is never older than its TTL and the snapshot's together, and stays as it is while it is written out |
| `queue.Deque` | ring buffer | push, pop, look, `Set`, `Grow`, `ToSlice`, `Reset` | behaves as a sequence; vacated slots are cleared |
| `pools.BatchPool` | free buffers | `Get`, `Put` | a buffer has one owner from recorder to aggregator and back |
| `servers` | listener, printer goroutine, order of the deferred stops | `Run` | the final line shows the final values; stops in the right order |
| `api` | none | handlers | one `CountRequests` per request |
| generator | number source, workers, statistics, Dedup's table and queue | `Run`, `waitWorkers`, `Merge`, `Printf`, `Close` | statistics merged once or skipped, no message lost or doubled, everyone ends |

**How they interact.** Handlers call `Calculate` from one goroutine each. `Async`
and `Parallel` own goroutines that take numbers from a bounded channel; a full one
gives `ErrOverloaded` (or blocks the handler: unbuffered queues, and `Sub` of
`Parallel`). Each of these goroutines gives its samples, in batches, to a
recording function, which is a blocking send to the aggregator. The aggregator's
goroutine hands out snapshots through an unbuffered channel that carries the
question and then the answer. `servers.Run` stops things in the reverse order of
their start: calculator, printer, aggregator.

**What is hard here.** Selects with several ready cases; the order of deferred
calls at shutdown; a channel closed while goroutines send to it; a timer that
races the event it guards; a counter read and reset while others increment it; a
cached snapshot that is reused by age or by validity on three paths; ring
positions that wrap; 64-bit overflow; buffers and texts shared by reference; workers
that are later than the wait for them; an operation split over two servers of
which only one may refuse.

## 2. Modules

| Module | Models | EXTENDS / INSTANCE |
|---|---|---|
| `Operators` | `add`, `sub`, the pair of totals, int64 of width `MaxInt` | |
| `Calculator` | *abstract*: what a consistent calculator promises | `Operators` |
| `AsyncCalculator` | `calculators.Async`, `metricRecorder` | implements `Calculator` |
| `SyncCalculator` | `calculators.Sync` | implements `Calculator` |
| `ParallelCalculator` | `calculators.Parallel`, `asyncSingle` | `Operators` |
| `AbstractDeque` | *abstract*: a sequence and what each call returns | |
| `Deque` | `queue.Deque` | implements `AbstractDeque` |
| `Aggregator` | `metrics.Aggregator` | |
| `Server` | `servers.Run` with the printer: calculator, printer, handlers and aggregator seen from outside, composed | |
| `Dedup` | `loggers.Dedup` of the generator | |
| `Generator` | `cmd/generator`: number source, workers, cancellation, `waitWorkers`, report | extends `Dedup` |
| `Report` | `metrics.Printer` on the aggregator's cached snapshot | |
| `BatchPool` | `pools.BatchPool` and the way of a batch: recorder, channel, aggregator | |
| `AsyncCalculatorProofs`, `SyncCalculatorProofs`, `ParallelCalculatorProofs`, `DequeProofs`, `ServerProofs` | theorems | extend their component |
| `MetricsProofs` | theorems about `Aggregator`, `Report`, `BatchPool` | extends the three |
| `GeneratorProofs` | theorems about `Dedup` and `Generator` | extends `Generator` |
| `FiniteSums` | lemmas: sums over finite sets and over sequences | used by the proofs of `ParallelCalculator`, `Server`, and by `MetricsProofs`, `GeneratorProofs` |
| `MCxxx` | instances for TLC | extend their component |

In every module an action is what one goroutine does between two points where
another can interfere: a channel operation, a mutex, an atomic operation, a call
out. Modules about which one proof module speaks share no names, so that it can extend
them all: `GenInit`, `GenNext`, `PrinterNext`, `PoolSpec` are the `Init`, `Next`, `Spec` of
`Generator`, `Report` and `BatchPool`; `snapValid` and `newSnapshot` are Report's view of
`snap.valid` and `makeSnapshot`, `GetBuffer` is the pool's `Get`.
Names are the source's names where they exist (`numCh`, `valClosed`,
`ignoreOverload`, `makeSnapshot`). Definitions introduced by "A bug to tell
apart" are the mutants; nothing else uses them.

### Operators
`Wrap` keeps results in `-MaxInt-1 .. MaxInt`. Rust's `a - b` wraps in the release
profile; C's signed overflow is undefined, but the one instruction that
`gcc -O2` emits for `return a + b` wraps too. The delay loops in front of the
results change nothing. `Agree(v)` says that the totals belong to the same
numbers: one is the other negated (modulo the width).

### Calculator (abstract)
`log` is what was accepted, each entry with the totals after it; `applied` counts
the entries the totals include. A read returns the totals of exactly `applied`
numbers, so reads never go back and never show half a number; `Return` (Stop)
needs `applied = Len(log)`.

### AsyncCalculator
`pc` is the position of `serve`: at its `select`, in the two cgo calls, recording,
in `recordFn` (`flush`), and in its three deferred calls (`exit`, `closeValCh`,
`closeDone`). `Enqueue`, `Overloaded`, `BlockInSend`, `SendPanics` are the
outcomes of `Calculate`. A send on the closed channel panics in its caller; what that
does to the process is the business of the HTTP server, and of `Server`. `timer` keeps
apart an armed timer and one whose tick waits; since Go 1.23 `Timer.Stop` discards such a tick, which `Flush` models.
`queueSize` and `recording` (whether there is a `recordFn`) are chosen in `Init`,
so one run covers all configurations. `log` and `recorded` are history.

### SyncCalculator
The lock is a channel of capacity 1. A goroutine that reaches it joins the line
`lock`; its head holds the lock. `TypeOK` includes what the line is: those between lock and
unlock (`Waiting`), each once. Go's runtime serves blocked senders in order.
`Sync` has no `Stop`.

### ParallelCalculator
Variables of `asyncSingle` are functions on `{"sum", "sub"}`. A call walks
`new → sum → sub → ok`, or ends `overloaded` or `panicked`. Receiving a number,
applying it and adding its sample to the batch are one step: nobody can look in
between. The recorder is the one `AsyncCalculator` models in detail (there
`BatchIsTimed` shows that the timer runs exactly while a batch waits), so here the
batch stands for the timer. `graceful`, chosen in `Init`, is how the server ends:
`Stop` after the last handler has returned, or at any time (`Serve` failed or
`Shutdown` gave up after 30 s, and `Run` goes on to its deferred calls). A call that panics
is over by itself, as under net/http; what fasthttp makes of it is in `Server`.

### Deque
One action per method, `grow` and the wrap-around as in the code, the buffer as
a function on `0 .. cap-1`. The refinement mapping reads the elements from
`front`. `Front`, `Back`, `PopFront`, `PopBack`, `At`, `Set` and `Grow` panic
where the code does.

### Aggregator
`pc` is the position of `serve`; `rotate` is one step per request kind (each
`Swap(0)` is atomic by itself; handlers count between two of them) and one for the
histograms. A duration is abstracted to whether the histogram can hold it
(`short`) or not (`long`, counted in `over`). `snapCh`'s question and answer are
`ReceiveRequest` and `Answer`; `getter` says who holds `snapMu`. `due` is
`!now.Before(deadline)`. `intervals`, `sent`, `gone` are history: what was counted
between two swaps, and where durations went.

### Server
The composition. Each component is reduced to what the others can wait for: a
calculator to the numbers queued, applied and batched and to where its goroutine
is; the aggregator to the channel it reads. (What is inside is shown by the
components' own modules; a composition of those would be out of TLC's reach.)
`mode` is the calculation mode, `server` the type of the HTTP server, `orderly` how that
ends; all are chosen in `Init`. `run` walks through the deferred stops. The queue is
buffered; rendezvous are in the calculators' modules.

A handler left in flight by an abnormal end (`Serve` failed, or net/http's `Shutdown` gave
up) may meet a closed channel: it panics. net/http recovers that and goes on with the rest;
fasthttp and its handlers recover nothing, so the process ends on the spot, with the
remaining stops and the final line not done. `Alive` says that this has not happened, and
is a guard of every action.

### Dedup
Callers are inside `send` (`caller = "send"`) or in `Close`'s `<-lg.done`. The table
`lastMsgs` is a function on the messages that have an entry; time is the
steps left until `flushAt`, so that the clock is unbounded and the states are
finite. `since`, `reported`, `early` are history.

### Generator
The module extends `Dedup`, whose state and steps are those of the logger, with the
workers and main as its callers and a queue for as many commands as there are
workers; a worker that is in `Printf` goes on when it has returned. `worker`
walks through the first pause, the select, the request, the pause between
requests and `done <-`; where two cases of a select can be ready either is taken.
`pausing` (`Interval > 0`) is chosen in `Init`. A request ends in success, tracked
by the histogram or beyond it, or in an error, or never: its timeout is a flag and
may be longer than the two seconds that main waits. The process may end once
main has reported; what late workers do until then stays in the model.

### Report
A reader holds the mutex from its question for a snapshot to the text; then it
writes the text with the mutex released. `text` is shared memory: what each
buffer holds, by version; the code takes a new `bytes.Buffer` for every report,
so that `NewBuffer` is one that nobody holds. TTLs count down with `Clock`. `lag` is
history: for each version, how long ago the first change happened that it lacks.
Of the aggregator only the cached snapshot is here; that its answers are of one
moment, and when it makes a new one, is `Aggregator`'s.

### BatchPool
A slice is the address of a buffer and a length; the pool keeps addresses, as the
code does through `unsafe.SliceData`, and may come up empty or drop some
(`sync.Pool`). `mem` is what the buffers hold. `Receive`, `RecordOne` and `PutBack`
are the aggregator's steps with a batch, so that a recorder can get and fill
buffers between two of them.

## 3. Runs

| Run | Question | States |
|---|---|---|
| `async` | Is Async a consistent calculator, and does its recorder keep every sample? | 173 k |
| `parallel` | Is every accepted number applied once to each total, do totals agree when settled, does nobody hang? | 145 k |
| `parallel_abort` | Does that survive a `Stop` with handlers in flight? (No: see 6.) | |
| `sync` | Is Sync a consistent calculator with a fair lock? | 13 k |
| `deque` | Does the ring buffer do what a sequence does? | 7 k |
| `aggregator` | Are requests and durations conserved, snapshots stable and fresh? | 1.7 M |
| `aggregator_live` | Do all calls on the aggregator come back? | 6 k |
| `server` | Do the deferred stops leave the final totals as last line and every sample delivered, and do Run and the handlers come back, unless fasthttp loses the process? | 260 k |
| `dedup` | Is every message reported once, a window apart, and does nobody hang? | 38 k |
| `generator` | Is the report made of whole statistics, are its errors printed, and does everything end on cancellation, however late workers are? | 56 k |
| `report` | Is a report ever older than both TTLs together, or changed under its reader? | 16 k |
| `batch_pool` | Does a buffer ever have two owners, or a sample get lost in one? | 182 k |

### Properties worth knowing
* `SamplesComplete` – in order, what `recordFn` was given, the batch and the sample in
  hand are the calculations done: three flushes (full batch, timer, deferred) share
  them without loss or overlap.
* `BatchIsTimed` – whenever `serve` waits, a batch is below its size and has a timer,
  and there is no timer without a batch.
* `FinalAfterStop` – when `Stop` returns everything accepted is in both totals and
  recorded, and `Values` answers without `serve`.
* `ImplementsCalculator` – of Async and Sync.
* `BothOrNeither`, `AgreeAtRest`, `TotalsOfApplied` – Parallel, call by call, when nothing
  is under way, and after a `Stop` that follows the last handler.
* `RequestsInIntervals` – a request is in exactly the second in which it was counted.
* `DurationsConserved` – a delivered duration is in one place: a channel, a window,
  the overflow count, or rotated out.
* `SnapshotStable`, `SnapshotsFresh` – nobody changes a snapshot under its reader; what
  is handed out is complete or younger than the TTL, and after `serve` ended
  complete whatever its age.
* `FinalLine` – the last line is the only final one and shows the totals as they remain;
  `SamplesDelivered` – the aggregator is stopped after everybody that sends to it, and no
  handler panics on an orderly end.
* `RunReturns` – under net/http, and under fasthttp after an orderly end, `Run` returns once
  the HTTP server has ended; under fasthttp that failed with handlers in flight it does so
  unless a handler's panic ends the process (TLC finds that it can). Handlers come back as
  long as the process lives; when `Run` has returned `main` is over, and it need not.
* `MessagesAccounted`, `OneLinePerWindow`, `EntriesForgotten` – Dedup loses, doubles and
  hoards nothing, and keeps its promise of a line per window.
* `ReportComplete` – what main reports is, field by field, the statistics of workers that
  have ended, each once; a worker that is late is skipped, not half merged.
* `ErrorsPrinted` – main closes the logger behind the last `Printf` of every worker it
  received, so each error in the report has been printed, or counted in a line.
* `ShutdownCompletes` – after cancellation main reports, and nothing but a request holds
  a worker: not its pauses, a closed logger, or a channel nobody reads any more. A worker in
  a request is exempt: that it comes back is up to the client's timeout.
* `ReportsCurrent` – ages of the two caches add up to their TTLs and no more; a text
  does not change while it is written out.
* `SamplesIntact` – one owner per buffer; each recorder's samples are recorded once, in
  order, and as written.
* `VacatedCleared`, `ImplementsSequence` – the deque.
* Liveness: `CallsReturn` (of Async: readers and `Stop`, not the clients blocked in an
  unbuffered send; of Parallel: handlers, readers and `Stop`; of Sync: the calls, not the
  readers; of the aggregator: recorders, getters and `Stop`; of Dedup: `Printf` and `Close`),
  `SamplesEventuallyRecorded`, `RunReturns`, `ShutdownCompletes`, `EntriesForgotten`.

### Bounds, and why they are enough
* **Width.** `MaxInt = 3`: three-bit words. Two or three numbers take either total
  past its range, so every wrap happens.
* **async.** Two clients, one reader, four calls, queues of 0, 1 and 2, batches of 2:
  a full queue with a client on top, a rendezvous with a rival, a full batch and
  a lone sample, a timer that fires before, during and after a flush, `Stop` at
  every point. `MaxCalls` bounds `Calculate`.
* **parallel.** Three calls with different numbers (one negative), queues of 0 and 1:
  one being applied, one queued, one refused or blocked, and different orders at
  the two servers.
* **sync.** Three calls, two readers that come back for ever: lines of five.
* **deque.** First capacity 2 (16 in the code), `MaxSize` 4: buffers grow twice and more,
  with the elements at every rotation; arguments from -1 to 3 cover every panic.
* **aggregator.** A window of two seconds and two ticks move the first durations out;
  two getters compete for the mutex; `MaxSends`, `MaxCounts` 2, one channel of one
  message (the channels differ only in the type of their batches).
* **aggregator_live.** Two recorders compete for the full channel, two getters for the
  mutex; nothing is counted and no second passes, for neither blocks anybody.
* **server.** Three requests in three modes under two HTTP servers that end either way, queue
  and channel of one, batches of two: a
  batch is flushed full, by its timer and at the end, waits for a full channel, and
  a handler for a full queue.
* **dedup.** Two callers, two messages, four calls of `Printf` (a line, its count, the
  same in the next window, one left behind by `Close`) and any number of `Close`;
  queues of 0 and 1; a window of two steps of the clock.
* **generator.** Two workers, two requests, one text: none, one or both workers are late, one
  may be in a request or in `Printf` while the other's statistics are merged, the same
  line is printed, counted, or left behind by `Close`. The logger's queue holds two.
  More requests repeat a worker's cycle.
* **report.** Two readers, one of which may write while the other makes two reports; a
  report's TTL of two steps and a snapshot's of one, so that a report spans two
  snapshots; three changes, and `serve` ending. The clock stands still while a report
  is made (its time is not bounded by the code); lags beyond both TTLs are one value.
* **batch_pool.** Two recorders (Parallel's; Async's is one of them alone), batches of up to
  two, a channel of one, five samples: a buffer comes back and is filled again while
  a second is being read and a third waits.

`CHECK_DEADLOCK FALSE` is set where a system nobody calls any more rests.

## 4. Fairness

Nobody is obliged to call anything. What is assumed is what Go's scheduler and
runtime give: a runnable goroutine runs (`WF`), an armed timer of the recorder
expires, and `recordFn` returns (the aggregator outlives the calculator; its own
liveness is `aggregator_live`).

* **Async**: `WF` for `Serve`, `Expire`, `StopReturns`, `ReadFinalValues`; `SF` for
  `SendValues(r)`: a `select` picks uniformly among its ready cases, so the reader's
  case, ready at every visit, is taken with probability one, and readers are served
  in order.
* **Parallel**: `WF` only. Each call is made once, so servers come to rest.
* **Sync**: `WF` per goroutine; the line is FIFO by construction of Go's channels.
* **Aggregator**: `WF` for what `serve` does outside its select, for returns and the
  final snapshot; `SF` for the cases of its select, for the mutex (FIFO after 1 ms)
  and for blocked senders (FIFO). Neither ticks nor the TTL need come.

* **Server**: `WF` (every request is handled once, so all come to rest); `SF` for the
  printer's `<-stopCh`, which may compete with a tick every time. Both only while the process
  is alive: the fair actions have `Alive` as a guard, so that fairness excludes no crash.
* **Dedup**: `WF` for `serve`, its ticker and the clock; `SF` for senders, which a
  channel serves in order.
* **Generator**: `WF` for every wait of a worker but the request, for the source and for
  main; the logger's steps as in Dedup. Nobody need cancel, and no request need come
  back. Once `ctx` is done its case is ready at every select for good.
* **Report**, **BatchPool**: no liveness is claimed, no fairness assumed.

## 5. Proofs

TLAPS proves the following for all values of the constants, under the assumptions
named in the modules: `MaxIntAssumption` (a natural number), `AsyncAssumption`,
`SyncAssumption`, `ParallelAssumption` (numbers are int64, a batch holds one sample
at least), `DequeAssumption`, `AggregatorAssumption`, `DedupAssumption`,
`ServerAssumption`, `ReportAssumption`, `BatchPoolAssumption`, `GeneratorAssumption`. Calls, readers, messages and elements may be any sets, infinite ones
included; the aggregator's kinds and channels are finite sets (the code names two
and three), since sums are taken over them. The bounds of the model
(`MaxCalls`, `MaxSends`, ...) are constants too: a theorem holds for every bound.

Of the assumptions about the last modules: `ReportAssumption` wants finitely many readers and
TTLs that are natural numbers and not both 0 (the code has 10 ms and 500 ms);
`BatchPoolAssumption` finitely many recorders, room for one sample in a batch and for one
batch in the channel; `GeneratorAssumption` finitely many workers, at least one, other than
main, finitely many messages, and that Dedup's callers and queue are those that the
generator gives it. `GeneratorProofs` and `MetricsProofs` extend several modules; each theorem
cites the assumption of its own module only, the generator's also Dedup's.

TLC finds each inductive invariant to hold on the run's instance as well.
None of the properties is inductive by itself; what has to be added is said below.

**AsyncCalculatorProofs.** `Typing`, `SamplesAreComplete`, `BatchesAreTimed`,
`ReadsAlwaysAgree`, `StopIsFinal`, and `Implementation` (`Spec => Calculator!Spec`).

    IInv == TypeInv /\ ControlInv /\ HistoryInv /\ SamplesComplete

`TypeInv` adds to `TypeOK` that a
number in hand is a number and that there is room in the batch before it grows.
`ControlInv` ties `pc` to the channels that are closed, to the timer and to Stop.
`HistoryInv` says that the accepted numbers that are not applied are those in
`numCh` and in hand, that each log entry continues the one before, that `vals`
are the totals of the applied prefix (with one of them ahead between the two
cgo calls), and that reads agree. The proof has one step per action and part.
Agreement under overflow is the arithmetic lemma `CalculatedAgrees`. The refinement
maps each action to `Accept`, `Apply`, `Read`, `Close`, `Return` or a stutter
(`PromiseStep`); what is needed of history is that `ValuesAfter` of an old index
survives an append (`ExtendedGrows`).

**SyncCalculatorProofs.** `Typing`, `LockExcludes` (mutual exclusion from a channel of
capacity 1) and `Implementation` (`Spec => Calculator!Spec`).

    IInv == TypeInv /\ OrderInv /\ LogInv /\ TotalsInv

`LineInv`, in `TypeInv`, is what makes the channel a lock: the line holds exactly the
goroutines between lock and unlock, each once, and those that have begun to work
are its head. `OrderInv` says that the calls in line stand in the order of the log
entries that are not applied yet: the abstract calculator accepts a number when its
caller joins the line, and has to apply the numbers in that order. `TotalsInv` describes
the totals between the two cgo calls, when only one of them is ahead.

**ParallelCalculatorProofs.** `Typing`, `CountedTwiceOrNever`, `ExactTotals`, `AgreementAtRest`.
`ControlInv` ties `pc`, the channels closed and `stop` together and says that a
graceful `Stop` finds no handler at either server. `AcceptInv` says that the calls
in a server's channel and those it has applied are disjoint, each once, and follows
every call from one server to the other. `TotalsInv` is `ExactTotals`: a total is the sum
of the numbers applied, up to a multiple of the width (`WrapSame`, `SameStep`: one
more number, wrapped, stays congruent; `SameInt64`: two int64 that are congruent are
equal). Agreement at rest follows: both servers have then applied the same *set* of
calls, and a sum does not depend on the order.

**MetricsProofs.** Of the aggregator: `Typing`, `RequestsCountedOnce`, `NoDurationLost`, `SnapshotsStable`,
`SnapshotsAreFresh`. `MutexInv` says that one getter at most is past the mutex and
that `serve` is at a question or an answer only while such a getter waits for it; so
nobody makes a snapshot while another reads one. `CacheInv` says that a valid
snapshot shows the data whenever `serve` is not in the middle of a rotation.
`DurationsInv` accounts for every duration sent, as sums over the windows and over the
messages in the channels.

Of the printer: `ReportsAreCurrent`.

    PrinterInv == PrinterTypes /\ VersionInv /\ HolderInv /\ TextInv

The argument is about ages. `VersionInv`: a valid snapshot lacks nothing, and one that is
still used by its TTL lacks nothing older than the part of the TTL that is over.
`HolderInv`: one reader at most has the mutex, and what it fills in is younger than the
snapshot's TTL (a snapshot at its TTL is made anew). `TextInv`: the cached text is that of
`cacheVersion` and is as old as its snapshot was, plus the part of the report's TTL that
is over. The two TTLs add up to `Bound`; with both of them 0 the property would be false,
hence the assumption. A buffer being written is not the one being filled, whatever
happens to the cache meanwhile.

Of the pool: `SamplesStayIntact`.

    PoolInv == PoolTypes /\ OwnerInv /\ SpaceInv /\ FlowInv /\ OrderInv

`OwnerInv`: pool, recorders, channel and aggregator hold different buffers. `SpaceInv`: no more
buffers are in use than samples were taken, so that `CHOOSE` finds a new one.
`FlowInv` is the heart: `Chain(m, q, f, g)` says that the slices of the channel `q` hold, one
after the other and in memory `m`, the samples after `f[r]` and up to `g[r]` of every recorder
`r`. The channel is a chain from what the aggregator will have recorded, when it is done
with its slice, to what the recorders have sent; a recorder's batch holds the rest.
`ChainAppend`, `ChainTail` and `ChainSame` say what a send, a receive and a write to a buffer
that is not in the channel do to a chain.

**GeneratorProofs.** Of the logger: `Typing`, `WindowBetweenLines`, `NoMessageLost`.

    Inv == TypeInv /\ ControlInv /\ ElapsedInv

`ControlInv` says that a close command is in the channel, or has ended the loop,
exactly when the channel has accepted one. `ElapsedInv` is the reason for the
window: while the loop runs, an entry's `left` and the time since the last line
with its message add up to the window, and a message without an entry had its last
line a window ago. `AccountInv` adds the messages that wait in the channel
(`Ahead(q, m)`: not behind a close command); the lemmas `AheadAppend`, `AheadTail` and
`AheadOfHead` say how a send and a receive change their number.

Of the generator: `LoggerAsSpecified` (`GenSpec => Spec`: its behaviours are Dedup's, with
the workers and main as callers; so the three theorems above hold of its logger),
`GeneratorTyping`, `ReportIsComplete`, `ReportedErrorsPrinted`.

    GenInv == GenTypes /\ TravelInv /\ CallInv /\ CountInv /\ HandedInv

`TravelInv`: a worker whose statistics are in the channel or were received has ended, and
is there once; so nothing changes what was merged. `CallInv`: a worker in `Printf` prints an
error it has counted, one that has ended is out of `Printf`; main does not close the logger
before its wait is over, and is past `Close` only when the logger has ended. `CountInv` is the
counting itself. `HandedInv`: until the logger is told to close, the messages its channel has
accepted are, in number, the errors the workers have counted less those whose `Printf` is under
way. So when main merges the statistics of a worker, all its errors have been accepted
(`SumWithin`: a part of the errors is not more than all of them), and when main is past
`Close` all that was accepted has been printed (`AllPrinted`, from `AccountInv`).

**ServerProofs.** `Typing`, `FinalLineShown`, `AllSamplesDelivered`, in the three modes, for
both HTTP servers and both ends of them.

    ControlInv == TypeOK /\ ServeInv /\ HandlerInv /\ RunInv

`ServeInv` is what a goroutine of the calculator leaves when it ends (an empty queue, an
empty batch, a closed channel); `HandlerInv` where handlers may be in which mode, and that
an orderly end leaves none; `RunInv` what has ended when `Run` is past it. From these:
past the calculator the totals stay as they are (`TotalsRemain`), unless handlers of Sync
are left. `PrinterInv` carries that to the final line, which asks for the totals one
after the other: the one it has is still the right one when it gets the next.
`SamplesInv` counts samples through handlers, batches and the channel.

**DequeProofs.** `Invariance`, `Typing`, `VacatedSlotsAreCleared`, and `Implementation`
(`Spec => AbstractDeque!Spec`), for every element type, first capacity and sequence of
calls. The invariant `DInv` is `Ring(cap, buf, front, size)`: positions in range,
elements in the window, the zero value outside it (without which `Reset` and the pops
could not be shown to clear). Each operation has a lemma on rings with opaque old
and new buffers (`PushBackRing`, `GrownRing`, ...) and one that lifts it to the
action and to the abstract call.

**FiniteSums.** The library sums a function over a set by recursion, in an order that
`CHOOSE` fixes. The module proves that the recursion has a solution (`Solvable`), and only
one (`OneSolution`), that any element may be taken first (`SumRemove`), and from these how
a sum changes with the set and the function (`SumAdd`, `SumUpdate`, `SumPlus`) and with a
sequence (`SumSeqAppend`, `SumSeqTail`). The induction theorems of the library take an
operator as a parameter, which the installed provers cannot instantiate. Induction is
done over *sets* instead: a set of naturals that contains 0 and every successor is `Nat`
(`SetInduction`, from the well-foundedness of `<`), and a family of subsets
of a finite set that contains the empty one and is closed under adding an element
contains the set itself (`SubsetInduction`).

**Only model-checked.** Every invariant and every action property that a run checks, and the
three refinements of abstract specifications, are proved. What is left to TLC is liveness, and
everything that needs fairness or `ENABLED`, which the prover does not support: `CallsReturn` in
its five runs, `SamplesEventuallyRecorded`, `EntriesForgotten`, `RunReturns`,
`ShutdownCompletes`, and the absence of deadlock.

## 6. Finding

`parallel_abort` checks what the comment in `NewParallel` says: a number is applied by
both calculators or by neither, since "У нас возможно только ErrOverload"
(`calculators.go:389-391`). TLC shows a run in which `Stop` meets a handler between
`Sum` and `Sub`: the send to the stopped `Sub` panics and the number stays in `Sum`
alone. It needs an abnormal end of the HTTP server (`graceful = FALSE`); after an
orderly `Shutdown` the run `parallel` shows that the totals agree.

## 7. What is left out, and why

* What else may end the process: a `panic` anywhere but in a handler, signals, `os.Exit`.
* Texts, formats, HTTP, flags, logging: no state of their own.
* The CPU delay loops of the operators, `startPprof`, generated enumers.
* A second `Stop` (it panics in `close` and changes nothing).
* Unbuffered aggregator channels: `servers.Run` always passes 100.
* Real time: timers, tickers and TTLs expire at any time after they were set, which
  covers every interval; in `Dedup`, `Generator` and `Report`, whose properties are about
  time, it is counted in steps. The age at which histogram windows turn is one tick.
* `Parallel.Values` reads the two servers one after the other; the code documents that
  the pair need not belong to one moment, and no property says otherwise.
* Library loading: `LoadLibraries` runs once, in `main`, before any other goroutine; its
  steps are sequential and nothing interleaves with them.
* What a request does on the wire: `clients` appears as its outcomes. The process that ends
  after the report, with late workers still in a request, loses nothing that is reported.
* The Python originals (`calculator_server.py`, `generator.py`), which take no part in the
  build, and the stateless rest: command lines, probe, health check, the printing of reports.
* Messages that reach Dedup's channel behind a `Close` are never printed: `send` may
  choose the channel although `done` is closed. Nothing promises otherwise.

## 8. Plan

Done: every component that has state of its own is modelled, and every safety property of
the runs is proved for all values of the constants. Liveness stays with TLC. What could
be added is a model of `LoadLibraries` (sequential, see section 7), and, when a prover with
`ENABLED` and fairness is at hand, proofs of `CallsReturn` and `RunReturns`, for which the
inductive invariants here are the ground.

----------------------------- MODULE Aggregator -----------------------------
(***************************************************************************)
(* metrics.Aggregator: one goroutine (serve) owns the histograms and the   *)
(* per-second request history.  Recorders hand it durations over buffered  *)
(* channels, request handlers count in atomic counters that it swaps to    *)
(* zero once a second, and getSnapshot asks it for a snapshot over snapCh, *)
(* an unbuffered channel that carries the question and then the answer.    *)
(*                                                                         *)
(* A step is what one goroutine does between two points where another can  *)
(* interfere: a channel operation, the mutex, an atomic operation.         *)
(***************************************************************************)
EXTENDS Integers, Sequences, FiniteSets, Functions

CONSTANTS
  RequestKinds,   \* Ok, Overload, BadRequest, Failed.
  DurationKinds,  \* Add, Sub.
  Buckets,        \* histBuckets: the seconds of the window.
  Channels,       \* sampleCh, samplesCh, durationsCh.
  QueueSize,      \* Their capacity.
  Messages,       \* What is sent: see MessageType.
  Recorders,      \* Goroutines that call RecordSample(s) or RecordDurations.
  Getters,        \* Goroutines that call getSnapshot.
  MaxSends,       \* Bound of the model: messages sent.
  MaxCounts,      \* Bound of the model: requests counted.
  MaxTicks        \* Bound of the model: ticks of rotateTk.

(* A batch is the numbers, by kind, of its durations that the histograms   *)
(* can hold (short) and that they cannot (long, above histMaxValue).       *)
MessageType ==
  [ch : Channels, vals : [DurationKinds -> [short : Nat, long : Nat]]]

ASSUME AggregatorAssumption ==
  /\ Buckets \in Nat \ {0}
  /\ QueueSize \in Nat \ {0}
  /\ IsFiniteSet(DurationKinds) /\ IsFiniteSet(Channels)
  /\ Messages \subseteq MessageType
  /\ MaxSends \in Nat /\ MaxCounts \in Nat /\ MaxTicks \in Nat

VARIABLES
  hists,        \* a.hists: the recorded durations per window, current one last.
  over,         \* a.over.count.
  reqs,         \* a.reqs: the requests of the last seconds, latest last.
  cnts,         \* a.cnts.
  chan,         \* The messages buffered in each channel.
  closed,       \* The three channels are closed.
  snap,         \* a.snap without deadline and valid.
  valid,        \* a.snap.valid.
  due,          \* !now.Before(a.snap.deadline).
  pc,           \* Where serve is.
  todo,         \* The kinds that rotate has left to rotate.
  getter,       \* Where each getSnapshot is; all but idle and waiting hold snapMu.
  recorder,     \* Each recorder: idle, sending, panicked.
  msg,          \* The message of a sending recorder.
  stop,         \* Stop: "no", "called" (stop is closed) or "returned".
  done,         \* close(done) was called.
  counts, ticks, sends,   \* How many of each there were (bounded).
  intervals,    \* History: the requests counted between two rotations, the
                \* interval that is still open last.
  sent, gone    \* History: durations accepted by a channel; durations that left
                \* the window or, too long for it, were logged.

ownVars  == <<hists, over, reqs>>
chanVars == <<chan, closed, done>>
snapVars == <<snap, valid, due>>
serveVars == <<pc, todo>>
recVars  == <<recorder, msg, sends, sent>>
cntVars  == <<cnts, intervals, counts>>

vars == <<ownVars, chanVars, snapVars, serveVars, recVars, cntVars, getter,
          stop, ticks, gone>>

-----------------------------------------------------------------------------
Zeros(n) == [i \in 1 .. n |-> 0]

Init ==
  /\ hists = [k \in DurationKinds |-> Zeros(Buckets)]
  /\ over = 0
  /\ reqs = [k \in RequestKinds |-> Zeros(Buckets)]
  /\ cnts = [k \in RequestKinds |-> 0]
  /\ chan = [c \in Channels |-> <<>>]
  /\ closed = FALSE
  /\ snap = [Version    |-> 0,
             Histograms |-> [k \in DurationKinds |-> 0],
             Requests   |-> [k \in RequestKinds |-> Zeros(Buckets)]]
  /\ valid = FALSE
  /\ due = TRUE
  /\ pc = "select"
  /\ todo = {}
  /\ getter = [g \in Getters |-> "idle"]
  /\ recorder = [r \in Recorders |-> "idle"]
  /\ msg \in [Recorders -> Messages]
  /\ stop = "no"
  /\ done = FALSE
  /\ counts = 0 /\ ticks = 0 /\ sends = 0
  /\ intervals = [k \in RequestKinds |-> Zeros(Buckets + 1)]
  /\ sent = 0
  /\ gone = 0

-----------------------------------------------------------------------------
(***************************************************************************)
(* CountRequests, RecordSample, RecordSamples, RecordDurations.            *)
(***************************************************************************)
CountRequests(kind) ==
  /\ counts < MaxCounts
  /\ counts' = counts + 1
  /\ cnts' = [cnts EXCEPT ![kind] = @ + 1]
  /\ intervals' = [intervals EXCEPT ![kind][Len(intervals[kind])] = @ + 1]
  /\ UNCHANGED <<ownVars, chanVars, snapVars, serveVars, recVars, getter, stop,
                 ticks, gone>>

(* How many durations a batch holds, and how many of them are too long. *)
Long(m) == SumFunction([k \in DurationKinds |-> m.vals[k].long])

Size(m) == SumFunction([k \in DurationKinds |-> m.vals[k].short]) + Long(m)

CallRecord(r, m) ==
  /\ recorder[r] = "idle"
  /\ sends < MaxSends
  /\ sends' = sends + 1
  /\ recorder' = [recorder EXCEPT ![r] = "sending"]
  /\ msg' = [msg EXCEPT ![r] = m]
  /\ UNCHANGED <<ownVars, chanVars, snapVars, serveVars, cntVars, sent, getter,
                 stop, ticks, gone>>

Send(r) ==
  /\ recorder[r] = "sending"
  /\ ~closed
  /\ LET m == msg[r]
     IN  /\ Len(chan[m.ch]) < QueueSize
         /\ chan' = [chan EXCEPT ![m.ch] = Append(@, m)]
         /\ sent' = sent + Size(m)
  /\ recorder' = [recorder EXCEPT ![r] = "idle"]
  /\ UNCHANGED <<ownVars, closed, done, snapVars, serveVars, cntVars, msg, sends,
                 getter, stop, ticks, gone>>

SendPanics(r) ==
  /\ recorder[r] = "sending"
  /\ closed
  /\ recorder' = [recorder EXCEPT ![r] = "panicked"]
  /\ UNCHANGED <<ownVars, chanVars, snapVars, serveVars, cntVars, msg, sends,
                 sent, getter, stop, ticks, gone>>

-----------------------------------------------------------------------------
(***************************************************************************)
(* The cases of serve's select that receive data.                          *)
(***************************************************************************)
(* A bug to tell apart: only the first kind of a sample is recorded. *)
AddedAddOnly(m) ==
  LET kind == CHOOSE k \in DurationKinds : TRUE
  IN  [k \in DurationKinds |->
         [hists[k] EXCEPT ![Buckets] = @ + IF k = kind THEN m.vals[k].short ELSE 0]]

(* The current windows, the last ones, with the durations of a batch. *)
Added(m) ==
  [k \in DurationKinds |-> [hists[k] EXCEPT ![Buckets] = @ + m.vals[k].short]]

ReceiveMessage(c) ==
  /\ pc = "select"
  /\ chan[c] # <<>>
  /\ LET m == Head(chan[c])
     IN  /\ hists' = Added(m)
         /\ over' = over + Long(m)
  /\ chan' = [chan EXCEPT ![c] = Tail(@)]
  /\ valid' = FALSE
  /\ UNCHANGED <<reqs, closed, done, snap, due, serveVars, recVars, cntVars,
                 getter, stop, ticks, gone>>

(***************************************************************************)
(* rotate: the long durations are logged and forgotten; each history drops *)
(* its oldest second and takes what its counter held, with handlers still  *)
(* counting; then the histograms turn to their next windows.               *)
(***************************************************************************)
ReceiveTick ==
  /\ pc = "select"
  /\ ticks < MaxTicks
  /\ ticks' = ticks + 1
  /\ over' = 0
  /\ gone' = gone + over
  /\ todo' = RequestKinds
  /\ pc' = "rotate"
  /\ UNCHANGED <<hists, reqs, chanVars, snapVars, recVars, cntVars, getter, stop>>

Opened(kind) == [intervals EXCEPT ![kind] = Append(@, 0)]

(* Bugs to tell apart: Load for Swap(0), PopFront forgotten. *)
RotateByLoad(kind) ==
  /\ pc = "rotate" /\ kind \in todo
  /\ todo' = todo \ {kind}
  /\ reqs' = [reqs EXCEPT ![kind] = Append(Tail(@), cnts[kind])]
  /\ intervals' = Opened(kind)
  /\ UNCHANGED <<hists, over, chanVars, snapVars, pc, recVars, cnts, counts,
                 getter, stop, ticks, gone>>

RotateUnpopped(kind) ==
  /\ pc = "rotate" /\ kind \in todo
  /\ todo' = todo \ {kind}
  /\ reqs' = [reqs EXCEPT ![kind] = Append(@, cnts[kind])]
  /\ cnts' = [cnts EXCEPT ![kind] = 0]
  /\ intervals' = Opened(kind)
  /\ UNCHANGED <<hists, over, chanVars, snapVars, pc, recVars, counts, getter,
                 stop, ticks, gone>>

RotateRequests(kind) ==
  /\ pc = "rotate" /\ kind \in todo
  /\ todo' = todo \ {kind}
  /\ reqs' = [reqs EXCEPT ![kind] = Append(Tail(@), cnts[kind])]
  /\ cnts' = [cnts EXCEPT ![kind] = 0]
  /\ intervals' = Opened(kind)
  /\ UNCHANGED <<hists, over, chanVars, snapVars, pc, recVars, counts, getter,
                 stop, ticks, gone>>

RotateHists ==
  /\ pc = "rotate" /\ todo = {}
  /\ hists' = [k \in DurationKinds |-> Append(Tail(hists[k]), 0)]
  /\ gone' = gone + SumFunction([k \in DurationKinds |-> Head(hists[k])])
  /\ valid' = FALSE
  /\ pc' = "select"
  /\ UNCHANGED <<over, reqs, chanVars, snap, due, todo, recVars, cntVars, getter,
                 stop, ticks>>

-----------------------------------------------------------------------------
(***************************************************************************)
(* getSnapshot.                                                            *)
(***************************************************************************)
(* What a snapshot shows of the data it is made from. *)
Shown == [Histograms |-> [k \in DurationKinds |-> SumFunction(hists[k])],
          Requests   |-> reqs]

ShownBy(s) == [Histograms |-> s.Histograms, Requests |-> s.Requests]

makeSnapshot ==
  /\ snap' = [Version    |-> snap.Version + 1,
              Histograms |-> Shown.Histograms,
              Requests   |-> Shown.Requests]
  /\ due' = FALSE
  /\ valid' = TRUE

KeepSnapshot == UNCHANGED snapVars

Holding == {"locked", "asked", "reading"}

CallGet(g) ==
  /\ getter[g] = "idle"
  /\ getter' = [getter EXCEPT ![g] = "waiting"]
  /\ UNCHANGED <<ownVars, chanVars, snapVars, serveVars, recVars, cntVars, stop,
                 ticks, gone>>

(* A bug to tell apart: no mutex. *)
LockUnguarded(g) ==
  /\ getter[g] = "waiting"
  /\ getter' = [getter EXCEPT ![g] = "locked"]
  /\ UNCHANGED <<ownVars, chanVars, snapVars, serveVars, recVars, cntVars, stop,
                 ticks, gone>>

Lock(g) ==
  /\ getter[g] = "waiting"
  /\ \A h \in Getters : getter[h] \notin Holding
  /\ getter' = [getter EXCEPT ![g] = "locked"]
  /\ UNCHANGED <<ownVars, chanVars, snapVars, serveVars, recVars, cntVars, stop,
                 ticks, gone>>

ReceiveRequest(g) ==
  /\ pc = "select"
  /\ getter[g] = "locked"
  /\ getter' = [getter EXCEPT ![g] = "asked"]
  /\ pc' = "asked"
  /\ UNCHANGED <<ownVars, chanVars, snapVars, todo, recVars, cntVars, stop, ticks,
                 gone>>

(* A snapshot is made anew only when the last one is invalid and has been  *)
(* shown for snapshotTTL.                                                  *)
Refresh ==
  /\ pc = "asked"
  /\ \/ ~valid /\ due /\ makeSnapshot
     \/ ~(~valid /\ due) /\ KeepSnapshot
  /\ pc' = "answer"
  /\ UNCHANGED <<ownVars, chanVars, todo, recVars, cntVars, getter, stop, ticks,
                 gone>>

Answer(g) ==
  /\ pc = "answer"
  /\ getter[g] = "asked"
  /\ getter' = [getter EXCEPT ![g] = "reading"]
  /\ pc' = "select"
  /\ UNCHANGED <<ownVars, chanVars, snapVars, todo, recVars, cntVars, stop, ticks,
                 gone>>

(* A bug to tell apart: the final snapshot is subject to the TTL, too. *)
FinalSnapshotCached(g) ==
  /\ getter[g] = "locked"
  /\ done
  /\ \/ ~valid /\ due /\ makeSnapshot
     \/ ~(~valid /\ due) /\ KeepSnapshot
  /\ getter' = [getter EXCEPT ![g] = "reading"]
  /\ UNCHANGED <<ownVars, chanVars, serveVars, recVars, cntVars, stop, ticks, gone>>

(* serve has ended: the caller makes the snapshot itself. *)
FinalSnapshot(g) ==
  /\ getter[g] = "locked"
  /\ done
  /\ \/ ~valid /\ makeSnapshot
     \/ valid /\ KeepSnapshot
  /\ getter' = [getter EXCEPT ![g] = "reading"]
  /\ UNCHANGED <<ownVars, chanVars, serveVars, recVars, cntVars, stop, ticks, gone>>

(* fn returns, and the mutex is unlocked. *)
ReturnGet(g) ==
  /\ getter[g] = "reading"
  /\ getter' = [getter EXCEPT ![g] = "idle"]
  /\ UNCHANGED <<ownVars, chanVars, snapVars, serveVars, recVars, cntVars, stop,
                 ticks, gone>>

(* snapshotTTL passes. *)
Expire ==
  /\ ~due
  /\ due' = TRUE
  /\ UNCHANGED <<ownVars, chanVars, snap, valid, serveVars, recVars, cntVars,
                 getter, stop, ticks, gone>>

-----------------------------------------------------------------------------
(***************************************************************************)
(* Stop.  serve may leave messages in the channels: its select takes the   *)
(* stop case although others are ready.                                    *)
(***************************************************************************)
CallStop ==
  /\ stop = "no"
  /\ stop' = "called"
  /\ UNCHANGED <<ownVars, chanVars, snapVars, serveVars, recVars, cntVars, getter,
                 ticks, gone>>

ReceiveStop ==
  /\ pc = "select"
  /\ stop # "no"
  /\ pc' = "closeChannels"
  /\ UNCHANGED <<ownVars, chanVars, snapVars, todo, recVars, cntVars, getter,
                 stop, ticks, gone>>

closeChannels ==
  /\ pc = "closeChannels"
  /\ closed' = TRUE
  /\ pc' = "closeDone"
  /\ UNCHANGED <<ownVars, chan, done, snapVars, todo, recVars, cntVars, getter,
                 stop, ticks, gone>>

(* A bug to tell apart: done is not closed. *)
DoneLeftOpen ==
  /\ pc = "closeDone"
  /\ pc' = "ended"
  /\ UNCHANGED <<ownVars, chanVars, snapVars, todo, recVars, cntVars, getter,
                 stop, ticks, gone>>

CloseDone ==
  /\ pc = "closeDone"
  /\ done' = TRUE
  /\ pc' = "ended"
  /\ UNCHANGED <<ownVars, chan, closed, snapVars, todo, recVars, cntVars, getter,
                 stop, ticks, gone>>

StopReturns ==
  /\ stop = "called"
  /\ done
  /\ stop' = "returned"
  /\ UNCHANGED <<ownVars, chanVars, snapVars, serveVars, recVars, cntVars, getter,
                 ticks, gone>>

-----------------------------------------------------------------------------
Rotate ==
  \/ \E kind \in RequestKinds : RotateRequests(kind)
  \/ RotateHists

(* What serve does outside its select. *)
ServeGoesOn == Rotate \/ Refresh \/ (\E g \in Getters : Answer(g)) \/ closeChannels \/ CloseDone

Get(g) ==
  \/ CallGet(g) \/ Lock(g) \/ ReceiveRequest(g) \/ FinalSnapshot(g) \/ ReturnGet(g)

Record(r) == (\E m \in Messages : CallRecord(r, m)) \/ Send(r) \/ SendPanics(r)

Next ==
  \/ \E kind \in RequestKinds : CountRequests(kind)
  \/ \E r \in Recorders : Record(r)
  \/ \E c \in Channels : ReceiveMessage(c)
  \/ ReceiveTick
  \/ ServeGoesOn
  \/ \E g \in Getters : Get(g)
  \/ Expire
  \/ CallStop \/ ReceiveStop \/ StopReturns

Spec == Init /\ [][Next]_vars

(***************************************************************************)
(* A runnable goroutine is eventually scheduled and fn returns.  serve's   *)
(* select picks uniformly among the ready cases, so each case that is      *)
(* ready again and again is taken; a mutex and a channel serve those that  *)
(* wait in order (a sync.Mutex turns FIFO after 1 ms): SF.  Nobody is      *)
(* obliged to call anything, and neither tick nor TTL need come.           *)
(***************************************************************************)
Fairness ==
  /\ WF_vars(ServeGoesOn) /\ WF_vars(StopReturns)
  /\ SF_vars(ReceiveStop)
  /\ \A c \in Channels : SF_vars(ReceiveMessage(c))
  /\ \A r \in Recorders : SF_vars(Send(r)) /\ WF_vars(SendPanics(r))
  /\ \A g \in Getters : /\ SF_vars(Lock(g)) /\ SF_vars(ReceiveRequest(g))
                        /\ WF_vars(FinalSnapshot(g)) /\ WF_vars(ReturnGet(g))

FairSpec == Spec /\ Fairness

-----------------------------------------------------------------------------
(***************************************************************************)
(* Properties.                                                             *)
(***************************************************************************)
Window == [1 .. Buckets -> Nat]

Snapshot == [Version    : Nat,
             Histograms : [DurationKinds -> Nat],
             Requests   : [RequestKinds -> Window]]

TypeOK ==
  /\ hists \in [DurationKinds -> Window]
  /\ over \in Nat
  /\ reqs \in [RequestKinds -> Window]
  /\ cnts \in [RequestKinds -> Nat]
  /\ chan \in [Channels -> Seq(Messages)]
  /\ \A c \in Channels : Len(chan[c]) <= QueueSize
  /\ snap \in Snapshot
  /\ closed \in BOOLEAN /\ valid \in BOOLEAN /\ due \in BOOLEAN /\ done \in BOOLEAN
  /\ pc \in {"select", "rotate", "asked", "answer", "closeChannels", "closeDone",
             "ended"}
  /\ todo \in SUBSET RequestKinds
  /\ getter \in [Getters -> {"idle", "waiting"} \cup Holding]
  /\ recorder \in [Recorders -> {"idle", "sending", "panicked"}]
  /\ msg \in [Recorders -> Messages]
  /\ stop \in {"no", "called", "returned"}
  /\ counts \in Nat /\ ticks \in Nat /\ sends \in Nat /\ sent \in Nat /\ gone \in Nat
  /\ intervals \in [RequestKinds -> Seq(Nat)]

(* Every request is counted in exactly one second of the history, the one  *)
(* in which its handler called CountRequests: none is lost between reading *)
(* and resetting a counter and none is counted in two seconds, although    *)
(* handlers count while rotate goes from kind to kind.                     *)
RequestsInIntervals ==
  \A k \in RequestKinds :
    LET n == Len(intervals[k])
    IN  /\ n > Buckets
        /\ cnts[k] = intervals[k][n]
        /\ \A i \in 1 .. Buckets : reqs[k][i] = intervals[k][n - Buckets + i - 1]

(* A duration that a Record call has delivered is, from then on, in        *)
(* exactly one place: a channel, the window of its kind, the overflow      *)
(* count, or among those rotated out.  Only messages that Stop leaves in   *)
(* the channels are never recorded.                                        *)
DurationsConserved ==
  sent = gone + over
         + SumFunction([k \in DurationKinds |-> SumFunction(hists[k])])
         + SumFunction([c \in Channels |->
                          SumFunction([i \in DOMAIN chan[c] |-> Size(chan[c][i])])])

(* While fn reads a snapshot nothing changes it: "Снимок действителен      *)
(* только во время обратного вызова".  makeSnapshot reuses the memory of   *)
(* the snapshot before, and only snapMu keeps it away.                     *)
SnapshotStable ==
  [][\A g \in Getters :
       getter[g] = "reading" /\ getter'[g] = "reading" => snap' = snap]_vars

(* A snapshot that serve hands out shows all that has been aggregated, or  *)
(* is younger than snapshotTTL; one handed out after serve has ended shows *)
(* all, whatever its age: no invalidation is forgotten on any path.        *)
SnapshotsFresh ==
  [][/\ Refresh => ShownBy(snap') = Shown \/ ~due
     /\ \A g \in Getters :
          getter[g] = "locked" /\ getter'[g] = "reading" => ShownBy(snap') = Shown]_vars

(* getSnapshot, the Record calls and Stop return (or panic), in whatever   *)
(* order they meet: serve leaving between the lock and the question, a     *)
(* full channel, several callers.                                          *)
CallsReturn ==
  /\ \A g \in Getters : getter[g] = "waiting" ~> getter[g] = "idle"
  /\ \A r \in Recorders : recorder[r] = "sending" ~> recorder[r] # "sending"
  /\ stop = "called" ~> stop = "returned"

=============================================================================

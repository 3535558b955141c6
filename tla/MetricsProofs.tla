---------------------------- MODULE MetricsProofs ----------------------------
(***************************************************************************)
(* Theorems about the metrics: metrics.Aggregator for any kinds, channels, *)
(* messages, recorders and callers of getSnapshot, any window and          *)
(* capacity, and any number of sends, requests and ticks; metrics.Printer  *)
(* for any readers and TTLs; pools.BatchPool for any recorders and sizes.  *)
(***************************************************************************)
EXTENDS Aggregator, Report, BatchPool, FiniteSums, SequenceTheorems

-----------------------------------------------------------------------------
(***************************************************************************)
(* metrics.Aggregator.                                                     *)
(***************************************************************************)

(***************************************************************************)
(* The windows: arrays of one count a second.                              *)
(***************************************************************************)
LEMMA WindowIsSeq ==
  ASSUME NEW w \in Window
  PROVE  /\ w \in Seq(Nat) /\ w \in Seq(Int) /\ w # <<>>
         /\ DOMAIN w = 1 .. Buckets /\ Len(w) = Buckets /\ \A i \in 1 .. Buckets : w[i] \in Nat
<1>1. Buckets \in Nat /\ Buckets > 0
  BY AggregatorAssumption
<1>2. w \in [1 .. Buckets -> Nat]
  BY DEF Window
<1>3. w \in Seq(Nat) /\ Len(w) = Buckets
  BY <1>1, <1>2
<1>4. w \in Seq(Int)
  BY <1>3
<1>5. QED
  BY <1>1, <1>2, <1>3, <1>4

LEMMA WindowSum == ASSUME NEW w \in Window PROVE SumFunction(w) \in Nat
BY WindowIsSeq, SumSeqNat

(* A rotation: the oldest second goes, a new one comes.                    *)
LEMMA Shifted ==
  ASSUME NEW w \in Window, NEW x \in Nat
  PROVE  /\ Append(Tail(w), x) \in Window
         /\ Append(Tail(w), x)[Buckets] = x
         /\ \A i \in 1 .. Buckets : i # Buckets => Append(Tail(w), x)[i] = w[i + 1]
         /\ Head(w) \in Nat
         /\ SumFunction(Append(Tail(w), x)) = SumFunction(w) - Head(w) + x
<1> DEFINE t == Tail(w)
           v == Append(t, x)
           n == Buckets - 1
<1>1. /\ w \in Seq(Nat) /\ w \in Seq(Int) /\ w # <<>> /\ Len(w) = n + 1 /\ n \in Nat
      /\ Buckets = n + 1
  BY WindowIsSeq, AggregatorAssumption
<1>2. /\ t \in Seq(Nat) /\ t \in Seq(Int) /\ Len(t) = n
      /\ \A i \in 1 .. n : t[i] = w[i + 1]
  BY <1>1
<1>3. /\ v \in Seq(Nat) /\ Len(v) = n + 1 /\ DOMAIN v = 1 .. (n + 1)
      /\ v[n + 1] = x /\ \A i \in 1 .. n : v[i] = t[i]
  <2> HIDE DEF t, n
  <2>1. n \in Nat
    BY <1>1
  <2>2. QED
    BY <1>2, <2>1
<1>4. v \in Window
  <2>1. v \in [1 .. (n + 1) -> Nat]
    <3> HIDE DEF v, n
    <3>1. QED
      BY <1>3
  <2>2. QED
    BY <1>1, <2>1 DEF Window
<1>5. \A i \in 1 .. Buckets : i # Buckets => v[i] = w[i + 1]
  <2>1. \A i \in 1 .. Buckets : i # Buckets => i \in 1 .. n
    BY <1>1
  <2>2. QED
    BY <1>2, <1>3, <2>1
<1>6. SumFunction(w) = Head(w) + SumFunction(t) /\ Head(w) \in Nat
  <2>1. Head(w) \in Nat
    BY <1>1, WindowIsSeq
  <2>2. QED
    BY <1>1, <2>1, SumSeqTail
<1>7. SumFunction(v) = SumFunction(t) + x /\ SumFunction(t) \in Int
  <2> HIDE DEF t
  <2>1. t \in Seq(Int) /\ x \in Int
    BY <1>2
  <2>2. QED
    BY <2>1, SumSeqAppend, SumSeqInt
<1> HIDE DEF t
<1>8. SumFunction(v) = SumFunction(w) - Head(w) + x
  BY <1>6, <1>7
<1>9. QED
  BY <1>1, <1>3, <1>4, <1>5, <1>6, <1>8 DEF t

(* The current second counts x more.                                       *)
LEMMA Incremented ==
  ASSUME NEW w \in Window, NEW x \in Nat
  PROVE  /\ [w EXCEPT ![Buckets] = @ + x] \in Window
         /\ SumFunction([w EXCEPT ![Buckets] = @ + x]) = SumFunction(w) + x
<1> DEFINE v == [w EXCEPT ![Buckets] = @ + x]
           D == 1 .. Buckets
<1>1. /\ Buckets \in D /\ IsFiniteSet(D) /\ \A i \in D : w[i] \in Nat
      /\ DOMAIN w = D /\ DOMAIN v = D
      /\ v[Buckets] = w[Buckets] + x /\ \A i \in D : i # Buckets => v[i] = w[i]
  <2>1. Buckets \in Nat /\ Buckets \in D
    BY AggregatorAssumption
  <2>2. IsFiniteSet(D)
    BY <2>1, FS_Interval
  <2>3. DOMAIN w = D /\ \A i \in D : w[i] \in Nat
    BY DEF Window
  <2>4. QED
    BY <2>1, <2>2, <2>3
<1>2. v \in Window
  BY <1>1 DEF Window
<1>3. v[Buckets] - w[Buckets] = x /\ v[Buckets] \in Int /\ \A i \in D : w[i] \in Int
  BY <1>1
<1> HIDE DEF v, D
<1>4. SumFunctionOnSet(v, D) = SumFunctionOnSet(w, D) + (v[Buckets] - w[Buckets])
  BY <1>1, <1>3, SumUpdate
<1>5. QED
  BY <1>1, <1>2, <1>3, <1>4 DEF SumFunction, v

(* The durations of a message.                                             *)
Short(m) == SumFunction([k \in DurationKinds |-> m.vals[k].short])

LEMMA SizeNat ==
  ASSUME NEW m \in Messages
  PROVE  /\ m.ch \in Channels /\ \A k \in DurationKinds : m.vals[k].short \in Nat
         /\ Short(m) \in Nat /\ Long(m) \in Nat /\ Size(m) = Short(m) + Long(m)
<1>1. m \in MessageType /\ IsFiniteSet(DurationKinds)
  BY AggregatorAssumption
<1>2. /\ m.ch \in Channels
      /\ \A k \in DurationKinds : m.vals[k].short \in Nat /\ m.vals[k].long \in Nat
  BY <1>1 DEF MessageType
<1>3. Short(m) \in Nat
  BY <1>1, <1>2, SumNat DEF Short, SumFunction
<1>4. Long(m) \in Nat
  BY <1>1, <1>2, SumNat DEF Long, SumFunction
<1>5. QED
  BY <1>2, <1>3, <1>4 DEF Size, Short

-----------------------------------------------------------------------------
(***************************************************************************)
(* Type correctness: each history is one window long after any number of   *)
(* rotations, and no channel exceeds its capacity.                         *)
(***************************************************************************)
TypeInv == TypeOK /\ \A k \in RequestKinds : Len(intervals[k]) > Buckets

LEMMA ZerosType ==
  /\ Zeros(Buckets) \in Window
  /\ Zeros(Buckets + 1) \in Seq(Nat) /\ Len(Zeros(Buckets + 1)) = Buckets + 1
  /\ DOMAIN Zeros(Buckets + 1) = 1 .. (Buckets + 1)
<1>1. Buckets \in Nat /\ Buckets + 1 \in Nat
  BY AggregatorAssumption
<1>2. Zeros(Buckets + 1) \in Seq(Nat) /\ Len(Zeros(Buckets + 1)) = Buckets + 1
  BY <1>1 DEF Zeros
<1>3. Zeros(Buckets) \in Window
  BY DEF Zeros, Window
<1>4. QED
  BY <1>2, <1>3 DEF Zeros

LEMMA TypeInvInit == Init => TypeInv
<1> SUFFICES ASSUME Init PROVE TypeInv
  OBVIOUS
<1>1. Buckets \in Nat /\ QueueSize \in Nat /\ <<>> \in Seq(Messages) /\ Len(<<>>) = 0
  BY AggregatorAssumption
<1>2. snap \in Snapshot
  BY ZerosType DEF Init, Snapshot
<1>3. chan \in [Channels -> Seq(Messages)] /\ \A c \in Channels : Len(chan[c]) <= QueueSize
  BY <1>1 DEF Init
<1>4. /\ intervals \in [RequestKinds -> Seq(Nat)]
      /\ \A k \in RequestKinds : Len(intervals[k]) > Buckets
  BY <1>1, ZerosType DEF Init
<1>5. QED
  BY <1>2, <1>3, <1>4, ZerosType DEF Init, TypeInv, TypeOK

(* What makeSnapshot shows.                                                *)
LEMMA ShownType ==
  ASSUME TypeOK
  PROVE  Shown.Histograms \in [DurationKinds -> Nat] /\ Shown.Requests = reqs
         /\ Shown.Histograms = [k \in DurationKinds |-> SumFunction(hists[k])]
<1>1. \A k \in DurationKinds : SumFunction(hists[k]) \in Nat
  BY WindowSum DEF TypeOK
<1>2. QED
  BY <1>1 DEF Shown

LEMMA SnapshotType ==
  ASSUME TypeOK, makeSnapshot
  PROVE  snap' \in Snapshot /\ valid' \in BOOLEAN /\ due' \in BOOLEAN
<1>1. snap \in Snapshot /\ reqs \in [RequestKinds -> Window]
  BY DEF TypeOK
<1>2. snap.Version + 1 \in Nat
  BY <1>1 DEF Snapshot
<1>3. snap' = [Version    |-> snap.Version + 1,
               Histograms |-> Shown.Histograms,
               Requests   |-> Shown.Requests]
  BY DEF makeSnapshot
<1>4. Shown.Histograms \in [DurationKinds -> Nat] /\ Shown.Requests \in [RequestKinds -> Window]
  BY <1>1, ShownType
<1>5. snap' \in Snapshot
  BY <1>2, <1>3, <1>4 DEF Snapshot
<1>6. QED
  BY <1>5 DEF makeSnapshot

LEMMA TypeInvNext == TypeInv /\ [Next]_vars => TypeInv'
<1> SUFFICES ASSUME TypeInv, [Next]_vars PROVE TypeInv'
  OBVIOUS
<1> USE DEF ownVars, chanVars, snapVars, serveVars, recVars, cntVars
<1>0. /\ Buckets \in Nat /\ Buckets > 0 /\ QueueSize \in Nat
      /\ MaxSends \in Nat /\ MaxCounts \in Nat /\ MaxTicks \in Nat
      /\ TypeOK
  BY AggregatorAssumption DEF TypeInv
<1>1. ASSUME NEW kind \in RequestKinds, CountRequests(kind) PROVE TypeInv'
  <2>1. /\ cnts' \in [RequestKinds -> Nat] /\ counts' \in Nat
        /\ intervals' = [intervals EXCEPT ![kind][Len(intervals[kind])] = @ + 1]
    BY <1>0, <1>1 DEF CountRequests, TypeOK
  <2>2. /\ intervals[kind] \in Seq(Nat) /\ Len(intervals[kind]) > Buckets
        /\ Len(intervals[kind]) \in 1 .. Len(intervals[kind])
    BY <1>0 DEF TypeInv, TypeOK
  <2> DEFINE q == [intervals[kind] EXCEPT ![Len(intervals[kind])] = @ + 1]
  <2>3. q \in Seq(Nat) /\ Len(q) = Len(intervals[kind])
    BY <2>2
  <2>4. intervals' = [intervals EXCEPT ![kind] = q]
    BY <2>1
  <2> HIDE DEF q
  <2>5. /\ intervals' \in [RequestKinds -> Seq(Nat)]
        /\ \A k \in RequestKinds : Len(intervals'[k]) > Buckets
    BY <1>0, <2>2, <2>3, <2>4 DEF TypeInv, TypeOK
  <2>6. QED
    BY <1>0, <1>1, <2>1, <2>5 DEF CountRequests, TypeInv, TypeOK
<1>2. ASSUME NEW r \in Recorders, NEW m \in Messages, CallRecord(r, m) PROVE TypeInv'
  BY <1>0, <1>2 DEF CallRecord, TypeInv, TypeOK
<1>3. ASSUME NEW r \in Recorders, Send(r) PROVE TypeInv'
  <2> DEFINE m == msg[r]
  <2>1. /\ m \in Messages /\ Len(chan[m.ch]) < QueueSize
        /\ chan' = [chan EXCEPT ![m.ch] = Append(@, m)] /\ sent' = sent + Size(m)
    BY <1>0, <1>3 DEF Send, TypeOK
  <2>2. m.ch \in Channels /\ Size(m) \in Nat
    BY <2>1, SizeNat
  <2> DEFINE d == m.ch
  <2> HIDE DEF m, d
  <2>3. /\ chan[d] \in Seq(Messages)
        /\ Append(chan[d], m) \in Seq(Messages) /\ Len(Append(chan[d], m)) = Len(chan[d]) + 1
    BY <1>0, <2>1, <2>2 DEF TypeOK, d
  <2>4. chan' \in [Channels -> Seq(Messages)] /\ \A c \in Channels : Len(chan'[c]) <= QueueSize
    BY <1>0, <2>1, <2>2, <2>3 DEF TypeOK, d
  <2>5. sent' \in Nat
    BY <1>0, <2>1, <2>2 DEF TypeOK
  <2>6. QED
    BY <1>0, <1>3, <2>4, <2>5 DEF Send, TypeInv, TypeOK
<1>4. ASSUME NEW r \in Recorders, SendPanics(r) PROVE TypeInv'
  BY <1>0, <1>4 DEF SendPanics, TypeInv, TypeOK
<1>5. ASSUME NEW c \in Channels, ReceiveMessage(c) PROVE TypeInv'
  <2> DEFINE m == Head(chan[c])
  <2>1. /\ chan[c] \in Seq(Messages) /\ chan[c] # <<>>
        /\ hists' = Added(m) /\ over' = over + Long(m)
        /\ chan' = [chan EXCEPT ![c] = Tail(@)] /\ valid' = FALSE
    BY <1>0, <1>5 DEF ReceiveMessage, TypeOK
  <2>2. /\ m \in Messages /\ Tail(chan[c]) \in Seq(Messages)
        /\ Len(Tail(chan[c])) <= Len(chan[c])
    BY <2>1
  <2> HIDE DEF m
  <2>3. Long(m) \in Nat /\ \A k \in DurationKinds : m.vals[k].short \in Nat
    BY <2>2, SizeNat
  <2>4. \A k \in DurationKinds : [hists[k] EXCEPT ![Buckets] = @ + m.vals[k].short] \in Window
    BY <1>0, <2>3, Incremented DEF TypeOK
  <2>5. hists' \in [DurationKinds -> Window] /\ over' \in Nat
    BY <1>0, <2>1, <2>3, <2>4 DEF Added, TypeOK
  <2>6. chan' \in [Channels -> Seq(Messages)] /\ \A d \in Channels : Len(chan'[d]) <= QueueSize
    <3>1. Len(Tail(chan[c])) <= QueueSize
      BY <1>0, <2>1, <2>2 DEF TypeOK
    <3>2. QED
      BY <1>0, <2>1, <2>2, <3>1 DEF TypeOK
  <2>7. QED
    BY <1>0, <1>5, <2>5, <2>6 DEF ReceiveMessage, TypeInv, TypeOK
<1>6. CASE ReceiveTick
  BY <1>0, <1>6 DEF ReceiveTick, TypeInv, TypeOK
<1>7. ASSUME NEW kind \in RequestKinds, RotateRequests(kind) PROVE TypeInv'
  <2>1. /\ reqs' = [reqs EXCEPT ![kind] = Append(Tail(@), cnts[kind])]
        /\ cnts' = [cnts EXCEPT ![kind] = 0]
        /\ intervals' = [intervals EXCEPT ![kind] = Append(@, 0)]
        /\ todo' = todo \ {kind}
    BY <1>7 DEF RotateRequests, Opened
  <2>2. reqs' \in [RequestKinds -> Window]
    <3>1. Append(Tail(reqs[kind]), cnts[kind]) \in Window
      BY <1>0, Shifted DEF TypeOK
    <3>2. QED
      BY <1>0, <2>1, <3>1 DEF TypeOK
  <2>3. /\ intervals' \in [RequestKinds -> Seq(Nat)]
        /\ \A k \in RequestKinds : Len(intervals'[k]) > Buckets
    <3>1. /\ intervals[kind] \in Seq(Nat) /\ Len(intervals[kind]) > Buckets
      BY <1>0 DEF TypeInv, TypeOK
    <3>2. /\ Append(intervals[kind], 0) \in Seq(Nat)
          /\ Len(Append(intervals[kind], 0)) > Buckets
      BY <1>0, <3>1
    <3>3. QED
      BY <1>0, <2>1, <3>2 DEF TypeInv, TypeOK
  <2>4. QED
    BY <1>0, <1>7, <2>1, <2>2, <2>3 DEF RotateRequests, TypeInv, TypeOK
<1>8. CASE RotateHists
  <2>1. /\ hists' = [k \in DurationKinds |-> Append(Tail(hists[k]), 0)]
        /\ gone' = gone + SumFunction([k \in DurationKinds |-> Head(hists[k])])
    BY <1>8 DEF RotateHists
  <2>2. \A k \in DurationKinds : Append(Tail(hists[k]), 0) \in Window /\ Head(hists[k]) \in Nat
    BY <1>0, Shifted DEF TypeOK
  <2>3. SumFunction([k \in DurationKinds |-> Head(hists[k])]) \in Nat
    BY <2>2, SumNat, AggregatorAssumption DEF SumFunction
  <2>4. hists' \in [DurationKinds -> Window] /\ gone' \in Nat
    BY <1>0, <2>1, <2>2, <2>3 DEF TypeOK
  <2>5. QED
    BY <1>0, <1>8, <2>4 DEF RotateHists, TypeInv, TypeOK
<1>9. CASE Refresh
  <2>1. snap' \in Snapshot /\ valid' \in BOOLEAN /\ due' \in BOOLEAN
    BY <1>0, <1>9, SnapshotType DEF Refresh, KeepSnapshot, TypeOK
  <2>2. QED
    BY <1>0, <1>9, <2>1 DEF Refresh, TypeInv, TypeOK
<1>10. ASSUME NEW g \in Getters, CallGet(g) \/ Lock(g) \/ ReturnGet(g) PROVE TypeInv'
  BY <1>0, <1>10 DEF CallGet, Lock, ReturnGet, TypeInv, TypeOK, Holding
<1>11. ASSUME NEW g \in Getters, ReceiveRequest(g) \/ Answer(g) PROVE TypeInv'
  BY <1>0, <1>11 DEF ReceiveRequest, Answer, TypeInv, TypeOK, Holding
<1>12. ASSUME NEW g \in Getters, FinalSnapshot(g) PROVE TypeInv'
  <2>1. snap' \in Snapshot /\ valid' \in BOOLEAN /\ due' \in BOOLEAN
    BY <1>0, <1>12, SnapshotType DEF FinalSnapshot, KeepSnapshot, TypeOK
  <2>2. QED
    BY <1>0, <1>12, <2>1 DEF FinalSnapshot, TypeInv, TypeOK, Holding
<1>13. CASE Expire
  BY <1>0, <1>13 DEF Expire, TypeInv, TypeOK
<1>14. CASE CallStop \/ ReceiveStop \/ StopReturns
  BY <1>0, <1>14 DEF CallStop, ReceiveStop, StopReturns, TypeInv, TypeOK
<1>15. CASE closeChannels \/ CloseDone
  BY <1>0, <1>15 DEF closeChannels, CloseDone, TypeInv, TypeOK
<1>16. CASE UNCHANGED vars
  BY <1>16 DEF vars, TypeInv, TypeOK
<1>17. QED
  BY <1>1, <1>2, <1>3, <1>4, <1>5, <1>6, <1>7, <1>8, <1>9, <1>10, <1>11, <1>12,
     <1>13, <1>14, <1>15, <1>16
  DEF Next, Record, ServeGoesOn, Rotate, Get

(* The aggregator keeps its types: after any rotations each history holds  *)
(* exactly one window, and no channel more than its capacity.              *)
THEOREM Typing == Spec => []TypeOK
<1>1. TypeInv => TypeOK
  BY DEF TypeInv
<1>2. QED
  BY <1>1, TypeInvInit, TypeInvNext, PTL DEF Spec

-----------------------------------------------------------------------------
(***************************************************************************)
(* Requests: a history is the last window of the closed intervals, and a   *)
(* counter is the open one.                                                *)
(***************************************************************************)
LEMMA RequestsInit == Init => RequestsInIntervals
<1> SUFFICES ASSUME Init PROVE RequestsInIntervals
  OBVIOUS
<1>1. Buckets \in Nat /\ Buckets > 0
  BY AggregatorAssumption
<1>2. ASSUME NEW k \in RequestKinds
      PROVE  /\ Len(intervals[k]) = Buckets + 1 /\ cnts[k] = 0
             /\ \A i \in 1 .. (Buckets + 1) : intervals[k][i] = 0
             /\ \A i \in 1 .. Buckets : reqs[k][i] = 0
  BY <1>1, ZerosType DEF Init, Zeros
<1>3. \A i \in 1 .. Buckets : (Buckets + 1) - Buckets + i - 1 \in 1 .. (Buckets + 1)
  BY <1>1
<1>4. Buckets + 1 \in 1 .. (Buckets + 1) /\ Buckets + 1 > Buckets
  BY <1>1
<1>5. QED
  BY <1>2, <1>3, <1>4 DEF RequestsInIntervals

LEMMA RequestsNext ==
  TypeInv /\ RequestsInIntervals /\ [Next]_vars => RequestsInIntervals'
<1> SUFFICES ASSUME TypeInv, RequestsInIntervals, [Next]_vars
             PROVE  RequestsInIntervals'
  OBVIOUS
<1> USE DEF ownVars, chanVars, snapVars, serveVars, recVars, cntVars
<1>0. /\ Buckets \in Nat /\ Buckets > 0
      /\ cnts \in [RequestKinds -> Nat] /\ reqs \in [RequestKinds -> Window]
      /\ intervals \in [RequestKinds -> Seq(Nat)]
      /\ \A k \in RequestKinds : Len(intervals[k]) > Buckets
  BY AggregatorAssumption DEF TypeInv, TypeOK
<1>1. ASSUME reqs' = reqs, cnts' = cnts, intervals' = intervals
      PROVE  RequestsInIntervals'
  BY <1>1 DEF RequestsInIntervals
<1>2. ASSUME NEW kind \in RequestKinds, CountRequests(kind) PROVE RequestsInIntervals'
  <2> DEFINE s == intervals[kind]
             n == Len(s)
             t == [s EXCEPT ![n] = @ + 1]
  <2>1. /\ reqs' = reqs /\ cnts' = [cnts EXCEPT ![kind] = @ + 1]
        /\ intervals' = [intervals EXCEPT ![kind] = t]
    BY <1>2 DEF CountRequests
  <2>2. s \in Seq(Nat) /\ n \in Nat /\ n > Buckets /\ n \in 1 .. n
    BY <1>0
  <2>3. Len(t) = n /\ t[n] = s[n] + 1 /\ \A i \in 1 .. n : i # n => t[i] = s[i]
    BY <2>2
  <2>4. \A i \in 1 .. Buckets : n - Buckets + i - 1 \in 1 .. n /\ n - Buckets + i - 1 # n
    BY <1>0, <2>2
  <2>5. cnts[kind] = s[n] /\ \A i \in 1 .. Buckets : reqs[kind][i] = s[n - Buckets + i - 1]
    BY DEF RequestsInIntervals
  <2>6. cnts'[kind] = t[n] /\ \A i \in 1 .. Buckets : reqs[kind][i] = t[n - Buckets + i - 1]
    BY <1>0, <2>1, <2>3, <2>4, <2>5
  <2>7. intervals'[kind] = t
    BY <1>0, <2>1
  <2>8. \A k \in RequestKinds : k # kind => intervals'[k] = intervals[k] /\ cnts'[k] = cnts[k]
    BY <1>0, <2>1
  <2> HIDE DEF t
  <2>9. QED
    BY <2>1, <2>2, <2>3, <2>6, <2>7, <2>8 DEF RequestsInIntervals
<1>3. ASSUME NEW kind \in RequestKinds, RotateRequests(kind) PROVE RequestsInIntervals'
  <2> DEFINE s == intervals[kind]
             n == Len(s)
             t == Append(s, 0)
             w == Append(Tail(reqs[kind]), cnts[kind])
  <2>1. /\ reqs' = [reqs EXCEPT ![kind] = w] /\ cnts' = [cnts EXCEPT ![kind] = 0]
        /\ intervals' = [intervals EXCEPT ![kind] = t]
    BY <1>3 DEF RotateRequests, Opened
  <2>2. s \in Seq(Nat) /\ n \in Nat /\ n > Buckets
    BY <1>0
  <2>3. Len(t) = n + 1 /\ t[n + 1] = 0 /\ \A i \in 1 .. n : t[i] = s[i]
    BY <2>2
  <2>4. /\ w[Buckets] = cnts[kind]
        /\ \A i \in 1 .. Buckets : i # Buckets => w[i] = reqs[kind][i + 1]
    <3>1. reqs[kind] \in Window /\ cnts[kind] \in Nat
      BY <1>0
    <3>2. QED
      BY <3>1, Shifted
  <2>5. cnts[kind] = s[n] /\ \A i \in 1 .. Buckets : reqs[kind][i] = s[n - Buckets + i - 1]
    BY DEF RequestsInIntervals
  <2>6. /\ reqs'[kind] = w /\ cnts'[kind] = 0 /\ intervals'[kind] = t
        /\ \A k \in RequestKinds : k # kind =>
             reqs'[k] = reqs[k] /\ intervals'[k] = intervals[k] /\ cnts'[k] = cnts[k]
    BY <1>0, <2>1
  <2> HIDE DEF s, n, t, w
  <2>7. ASSUME NEW i \in 1 .. Buckets PROVE w[i] = t[(n + 1) - Buckets + i - 1]
    <3>1. CASE i = Buckets
      <4>1. (n + 1) - Buckets + i - 1 = n /\ n \in 1 .. n
        BY <1>0, <2>2, <3>1
      <4>2. QED
        BY <2>3, <2>4, <2>5, <3>1, <4>1
    <3>2. CASE i # Buckets
      <4>1. i + 1 \in 1 .. Buckets
        BY <1>0, <3>2
      <4>2. reqs[kind][i + 1] = s[n - Buckets + (i + 1) - 1]
        BY <2>5, <4>1
      <4>3. /\ n - Buckets + (i + 1) - 1 = (n + 1) - Buckets + i - 1
            /\ (n + 1) - Buckets + i - 1 \in 1 .. n
        BY <1>0, <2>2, <4>1
      <4>4. QED
        BY <2>3, <2>4, <3>2, <4>2, <4>3
    <3>3. QED
      BY <3>1, <3>2
  <2>8. n + 1 > Buckets
    BY <1>0, <2>2
  <2>9. QED
    BY <2>3, <2>6, <2>7, <2>8 DEF RequestsInIntervals
<1>4. ASSUME NEW r \in Recorders, Record(r) PROVE RequestsInIntervals'
  BY <1>1, <1>4 DEF Record, CallRecord, Send, SendPanics
<1>5. ASSUME NEW c \in Channels, ReceiveMessage(c) PROVE RequestsInIntervals'
  BY <1>1, <1>5 DEF ReceiveMessage
<1>6. CASE ReceiveTick \/ RotateHists \/ Refresh \/ closeChannels \/ CloseDone
  BY <1>1, <1>6 DEF ReceiveTick, RotateHists, Refresh, closeChannels, CloseDone
<1>7. ASSUME NEW g \in Getters, Get(g) \/ Answer(g) PROVE RequestsInIntervals'
  BY <1>1, <1>7 DEF Get, CallGet, Lock, ReceiveRequest, FinalSnapshot, ReturnGet, Answer
<1>8. CASE Expire \/ CallStop \/ ReceiveStop \/ StopReturns
  BY <1>1, <1>8 DEF Expire, CallStop, ReceiveStop, StopReturns
<1>9. CASE UNCHANGED vars
  BY <1>1, <1>9 DEF vars
<1>10. QED
  BY <1>2, <1>3, <1>4, <1>5, <1>6, <1>7, <1>8, <1>9 DEF Next, ServeGoesOn, Rotate

(* No request is lost or counted in two seconds, whenever handlers count   *)
(* while rotate goes from kind to kind.                                    *)
THEOREM RequestsCountedOnce == Spec => []RequestsInIntervals
BY RequestsInit, RequestsNext, TypeInvInit, TypeInvNext, PTL DEF Spec

-----------------------------------------------------------------------------
(***************************************************************************)
(* Snapshots: while serve is not in a rotation, a valid one shows the data *)
(* of the moment; who reads one is alone with it, and serve works for a    *)
(* caller only while that one waits for its answer.                        *)
(***************************************************************************)
CacheInv ==
  /\ valid /\ pc # "rotate" => ShownBy(snap) = Shown
  /\ done => pc = "ended"

MutexInv ==
  /\ \A g, h \in Getters : getter[g] \in Holding /\ getter[h] \in Holding => g = h
  /\ pc \in {"asked", "answer"} => \E g \in Getters : getter[g] = "asked"

LEMMA MadeSnapshotShows == makeSnapshot => ShownBy(snap') = Shown /\ valid' = TRUE
BY DEF makeSnapshot, ShownBy, Shown

LEMMA CacheInvNext == CacheInv /\ TypeOK /\ [Next]_vars => CacheInv'
<1> SUFFICES ASSUME CacheInv, TypeOK, [Next]_vars PROVE CacheInv'
  OBVIOUS
<1> USE DEF ownVars, chanVars, snapVars, serveVars, recVars, cntVars
<1>1. ASSUME UNCHANGED <<hists, reqs, snap, valid, done, pc>> PROVE CacheInv'
  BY <1>1 DEF CacheInv, Shown, ShownBy
<1>2. ASSUME NEW c \in Channels, ReceiveMessage(c) PROVE CacheInv'
  BY <1>2 DEF ReceiveMessage, CacheInv
<1>3. CASE RotateHists
  BY <1>3 DEF RotateHists, CacheInv
<1>4. CASE ReceiveTick
  BY <1>4 DEF ReceiveTick, CacheInv
<1>5. ASSUME NEW kind \in RequestKinds, RotateRequests(kind) PROVE CacheInv'
  BY <1>5 DEF RotateRequests, CacheInv
<1>6. CASE Refresh
  <2>1. /\ UNCHANGED <<hists, reqs, done>> /\ pc = "asked" /\ ~done
        /\ makeSnapshot \/ UNCHANGED <<snap, valid>>
    BY <1>6 DEF Refresh, KeepSnapshot, CacheInv
  <2>2. Shown' = Shown
    BY <2>1 DEF Shown
  <2>3. valid' => ShownBy(snap') = Shown
    BY <2>1, MadeSnapshotShows DEF CacheInv
  <2>4. ShownBy(snap') = ShownBy(snap)'
    BY DEF ShownBy
  <2>5. QED
    BY <2>1, <2>2, <2>3, <2>4 DEF CacheInv
<1>7. ASSUME NEW g \in Getters, FinalSnapshot(g) PROVE CacheInv'
  <2>1. /\ UNCHANGED <<hists, reqs, done, pc>> /\ pc = "ended"
        /\ makeSnapshot \/ UNCHANGED <<snap, valid>>
    BY <1>7 DEF FinalSnapshot, KeepSnapshot, CacheInv
  <2>2. Shown' = Shown
    BY <2>1 DEF Shown
  <2>3. valid' => ShownBy(snap') = Shown
    BY <2>1, MadeSnapshotShows DEF CacheInv
  <2>4. ShownBy(snap') = ShownBy(snap)'
    BY DEF ShownBy
  <2>5. QED
    BY <2>1, <2>2, <2>3, <2>4 DEF CacheInv
<1>8. ASSUME UNCHANGED <<hists, reqs, snap, valid>>, ~done', pc # "rotate" PROVE CacheInv'
  BY <1>8 DEF CacheInv, Shown, ShownBy
<1>9. ASSUME NEW g \in Getters, ReceiveRequest(g) \/ Answer(g) PROVE CacheInv'
  BY <1>8, <1>9 DEF ReceiveRequest, Answer, CacheInv
<1>10. CASE ReceiveStop \/ closeChannels
  BY <1>8, <1>10 DEF ReceiveStop, closeChannels, CacheInv
<1>11. CASE CloseDone
  BY <1>11 DEF CloseDone, CacheInv, Shown, ShownBy
<1>12. ASSUME NEW kind \in RequestKinds, CountRequests(kind) PROVE CacheInv'
  BY <1>1, <1>12 DEF CountRequests
<1>13. ASSUME NEW r \in Recorders, Record(r) PROVE CacheInv'
  BY <1>1, <1>13 DEF Record, CallRecord, Send, SendPanics
<1>14. ASSUME NEW g \in Getters, CallGet(g) \/ Lock(g) \/ ReturnGet(g) PROVE CacheInv'
  BY <1>1, <1>14 DEF CallGet, Lock, ReturnGet
<1>15. CASE Expire \/ CallStop \/ StopReturns
  BY <1>1, <1>15 DEF Expire, CallStop, StopReturns
<1>16. CASE UNCHANGED vars
  BY <1>1, <1>16 DEF vars
<1>17. QED
  BY <1>2, <1>3, <1>4, <1>5, <1>6, <1>7, <1>9, <1>10, <1>11, <1>12, <1>13, <1>14,
     <1>15, <1>16
  DEF Next, ServeGoesOn, Rotate, Get

LEMMA MutexInvNext == MutexInv /\ TypeOK /\ [Next]_vars => MutexInv'
<1> SUFFICES ASSUME MutexInv, TypeOK, [Next]_vars PROVE MutexInv'
  OBVIOUS
<1> USE DEF ownVars, chanVars, snapVars, serveVars, recVars, cntVars
<1>0. getter \in [Getters -> {"idle", "waiting"} \cup Holding]
  BY DEF TypeOK
<1>1. ASSUME getter' = getter, pc' = pc \/ pc' \notin {"asked", "answer"} \/ pc = "asked"
      PROVE  MutexInv'
  BY <1>1 DEF MutexInv
<1>2. ASSUME NEW g \in Getters, CallGet(g) PROVE MutexInv'
  BY <1>0, <1>2 DEF CallGet, MutexInv, Holding
<1>3. ASSUME NEW g \in Getters, Lock(g) PROVE MutexInv'
  BY <1>0, <1>3 DEF Lock, MutexInv, Holding
<1>4. ASSUME NEW g \in Getters, ReceiveRequest(g) PROVE MutexInv'
  BY <1>0, <1>4 DEF ReceiveRequest, MutexInv, Holding
<1>5. ASSUME NEW g \in Getters, FinalSnapshot(g) PROVE MutexInv'
  BY <1>0, <1>5 DEF FinalSnapshot, MutexInv, Holding
<1>6. ASSUME NEW g \in Getters, ReturnGet(g) PROVE MutexInv'
  BY <1>0, <1>6 DEF ReturnGet, MutexInv, Holding
<1>7. ASSUME NEW g \in Getters, Answer(g) PROVE MutexInv'
  BY <1>0, <1>7 DEF Answer, MutexInv, Holding
<1>8. CASE Refresh
  BY <1>1, <1>8 DEF Refresh
<1>9. ASSUME NEW kind \in RequestKinds, CountRequests(kind) \/ RotateRequests(kind)
      PROVE  MutexInv'
  BY <1>1, <1>9 DEF CountRequests, RotateRequests
<1>10. ASSUME NEW r \in Recorders, Record(r) PROVE MutexInv'
  BY <1>1, <1>10 DEF Record, CallRecord, Send, SendPanics
<1>11. ASSUME NEW c \in Channels, ReceiveMessage(c) PROVE MutexInv'
  BY <1>1, <1>11 DEF ReceiveMessage
<1>12. CASE ReceiveTick \/ RotateHists \/ closeChannels \/ CloseDone
  BY <1>1, <1>12 DEF ReceiveTick, RotateHists, closeChannels, CloseDone
<1>13. CASE Expire \/ CallStop \/ ReceiveStop \/ StopReturns
  BY <1>1, <1>13 DEF Expire, CallStop, ReceiveStop, StopReturns
<1>14. CASE UNCHANGED vars
  BY <1>1, <1>14 DEF vars
<1>15. QED
  BY <1>2, <1>3, <1>4, <1>5, <1>6, <1>7, <1>8, <1>9, <1>10, <1>11, <1>12, <1>13, <1>14
  DEF Next, ServeGoesOn, Rotate, Get

SnapInv == TypeInv /\ CacheInv /\ MutexInv

LEMMA SnapInvAlways == Spec => []SnapInv
<1>1. Init => SnapInv
  BY TypeInvInit DEF Init, SnapInv, CacheInv, MutexInv, Holding
<1>2. SnapInv /\ [Next]_vars => SnapInv'
  BY TypeInvNext, CacheInvNext, MutexInvNext DEF SnapInv, TypeInv
<1>3. QED
  BY <1>1, <1>2, PTL DEF Spec

(* Nothing changes a snapshot under a caller that reads it: serve makes    *)
(* one only for a caller that waits, and another caller only under snapMu. *)
THEOREM SnapshotsStable == Spec => SnapshotStable
<1> DEFINE A == \A g \in Getters :
                  getter[g] = "reading" /\ getter'[g] = "reading" => snap' = snap
<1>1. SnapInv /\ [Next]_vars => [A]_vars
  <2> SUFFICES ASSUME SnapInv, [Next]_vars, NEW g \in Getters, getter[g] = "reading",
                      snap' # snap
               PROVE  FALSE
    OBVIOUS
  <2> USE DEF ownVars, chanVars, snapVars, serveVars, recVars, cntVars
  <2>1. \A h \in Getters : getter[h] \in Holding => h = g
    BY DEF SnapInv, MutexInv, Holding
  <2>2. ~Refresh
    BY <2>1 DEF Refresh, SnapInv, MutexInv, Holding
  <2>3. \A h \in Getters : ~FinalSnapshot(h)
    BY <2>1 DEF FinalSnapshot, Holding
  <2>4. Refresh \/ \E h \in Getters : FinalSnapshot(h)
    BY DEF Next, Record, ServeGoesOn, Rotate, Get, CountRequests, CallRecord, Send,
           SendPanics, ReceiveMessage, ReceiveTick, RotateRequests, RotateHists,
           CallGet, Lock, ReceiveRequest, ReturnGet, Answer, Expire, CallStop,
           ReceiveStop, StopReturns, closeChannels, CloseDone, vars
  <2>5. QED
    BY <2>2, <2>3, <2>4
<1>2. QED
  BY <1>1, SnapInvAlways, PTL DEF Spec, SnapshotStable

(* A snapshot that is handed out shows everything or is younger than the   *)
(* TTL; after the end of serve it always shows everything.                 *)
THEOREM SnapshotsAreFresh == Spec => SnapshotsFresh
<1> DEFINE A == /\ Refresh => ShownBy(snap') = Shown \/ ~due
                /\ \A g \in Getters :
                     getter[g] = "locked" /\ getter'[g] = "reading" => ShownBy(snap') = Shown
<1>1. SnapInv /\ [Next]_vars => [A]_vars
  <2> SUFFICES ASSUME SnapInv, [Next]_vars PROVE A
    OBVIOUS
  <2> USE DEF ownVars, chanVars, snapVars, serveVars, recVars, cntVars
  <2>0. CacheInv /\ getter \in [Getters -> {"idle", "waiting"} \cup Holding]
    BY DEF SnapInv, TypeInv, TypeOK
  <2>1. ASSUME Refresh, due PROVE ShownBy(snap') = Shown
    BY <2>0, <2>1, MadeSnapshotShows DEF Refresh, KeepSnapshot, CacheInv
  <2>2. ASSUME NEW g \in Getters, getter[g] = "locked", getter'[g] = "reading"
        PROVE  ShownBy(snap') = Shown
    <3>1. ASSUME NEW h \in Getters, FinalSnapshot(h) PROVE ShownBy(snap') = Shown
      BY <2>0, <3>1, MadeSnapshotShows DEF FinalSnapshot, KeepSnapshot, CacheInv
    <3>2. getter' # getter
      BY <2>2
    <3>3. ASSUME NEW h \in Getters,
                 CallGet(h) \/ Lock(h) \/ ReceiveRequest(h) \/ ReturnGet(h) \/ Answer(h)
          PROVE  FALSE
      BY <2>0, <2>2, <3>3 DEF CallGet, Lock, ReceiveRequest, ReturnGet, Answer
    <3>4. \E h \in Getters : \/ FinalSnapshot(h) \/ CallGet(h) \/ Lock(h)
                             \/ ReceiveRequest(h) \/ ReturnGet(h) \/ Answer(h)
      BY <3>2 DEF Next, Record, ServeGoesOn, Rotate, Get, CountRequests, CallRecord,
                  Send, SendPanics, ReceiveMessage, ReceiveTick, RotateRequests,
                  RotateHists, Refresh, Expire, CallStop, ReceiveStop, StopReturns,
                  closeChannels, CloseDone, vars
    <3>5. QED
      BY <3>1, <3>3, <3>4
  <2>3. QED
    BY <2>1, <2>2
<1>2. QED
  BY <1>1, SnapInvAlways, PTL DEF Spec, SnapshotsFresh

-----------------------------------------------------------------------------
(***************************************************************************)
(* Durations, from the channel to the end of their window.                 *)
(***************************************************************************)
(* The durations in a channel, in all channels, and in the windows.        *)
Total(q) == SumFunction([i \in DOMAIN q |-> Size(q[i])])

Buffered == SumFunction([c \in Channels |-> Total(chan[c])])

Recorded == SumFunction([k \in DurationKinds |-> SumFunction(hists[k])])

Sizes(q) == [i \in DOMAIN q |-> Size(q[i])]

LEMMA SizesType ==
  ASSUME NEW q \in Seq(Messages)
  PROVE  Sizes(q) \in Seq(Nat) /\ Sizes(q) \in Seq(Int) /\ Len(Sizes(q)) = Len(q)
         /\ DOMAIN Sizes(q) = 1 .. Len(q)
<1>1. DOMAIN q = 1 .. Len(q) /\ Len(q) \in Nat /\ \A i \in 1 .. Len(q) : Size(q[i]) \in Nat
  <2>1. \A i \in 1 .. Len(q) : q[i] \in Messages
    OBVIOUS
  <2>2. QED
    BY <2>1, SizeNat
<1>2. Sizes(q) \in [1 .. Len(q) -> Nat]
  BY <1>1 DEF Sizes
<1> DEFINE s == Sizes(q)
           n == Len(q)
<1> HIDE DEF s, n
<1>3. s \in [1 .. n -> Nat] /\ n \in Nat
  BY <1>1, <1>2 DEF s, n
<1>4. s \in Seq(Nat) /\ s \in Seq(Int) /\ Len(s) = n /\ DOMAIN s = 1 .. n
  BY <1>3
<1>5. QED
  BY <1>4 DEF s, n

LEMMA TotalNat == ASSUME NEW q \in Seq(Messages) PROVE Total(q) \in Nat
BY SizesType, SumSeqNat DEF Total, Sizes

LEMMA TotalAppend ==
  ASSUME NEW q \in Seq(Messages), NEW m \in Messages
  PROVE  Total(Append(q, m)) = Total(q) + Size(m)
<1> DEFINE t == Append(q, m)
<1>1. /\ t \in Seq(Messages) /\ Len(t) = Len(q) + 1 /\ Len(q) \in Nat
      /\ t[Len(q) + 1] = m /\ \A i \in 1 .. Len(q) : t[i] = q[i]
      /\ DOMAIN q = 1 .. Len(q) /\ DOMAIN t = 1 .. (Len(q) + 1)
  OBVIOUS
<1> HIDE DEF t
<1>2. /\ Sizes(q) \in Seq(Int) /\ Len(Sizes(q)) = Len(q)
      /\ Sizes(t) \in Seq(Int) /\ Len(Sizes(t)) = Len(q) + 1 /\ Size(m) \in Int
  BY <1>1, SizesType, SizeNat
<1>3. \A i \in 1 .. (Len(q) + 1) :
        Sizes(t)[i] = IF i = Len(q) + 1 THEN Size(m) ELSE Sizes(q)[i]
  <2>1. \A i \in 1 .. (Len(q) + 1) : i = Len(q) + 1 \/ i \in 1 .. Len(q)
    BY <1>1
  <2>2. QED
    BY <1>1, <2>1 DEF Sizes
<1>4. Sizes(t) = Append(Sizes(q), Size(m))
  <2> DEFINE s == Sizes(q)
             e == Size(m)
             u == Append(s, e)
  <2> HIDE DEF s, e
  <2>1. s \in Seq(Int) /\ e \in Int /\ Len(s) = Len(q)
    BY <1>2 DEF s, e
  <2>2. /\ u \in Seq(Int) /\ Len(u) = Len(s) + 1
        /\ \A i \in 1 .. (Len(s) + 1) : u[i] = IF i = Len(s) + 1 THEN e ELSE s[i]
    BY <2>1
  <2> HIDE DEF u
  <2>3. Sizes(t) = u
    BY <1>2, <1>3, <2>1, <2>2, SeqEqual DEF s, e
  <2>4. QED
    BY <2>3 DEF s, e, u
<1>5. QED
  BY <1>2, <1>4, SumSeqAppend DEF Total, Sizes, t

LEMMA TotalTail ==
  ASSUME NEW q \in Seq(Messages), q # <<>>
  PROVE  Head(q) \in Messages /\ Tail(q) \in Seq(Messages)
         /\ Total(q) = Size(Head(q)) + Total(Tail(q))
<1> DEFINE t == Tail(q)
           s == Sizes(q)
           n == Len(q) - 1
<1>1. /\ Head(q) \in Messages /\ t \in Seq(Messages) /\ Len(t) = n /\ n \in Nat
      /\ Len(q) = n + 1 /\ DOMAIN q = 1 .. (n + 1) /\ DOMAIN t = 1 .. n
      /\ Head(q) = q[1] /\ \A i \in 1 .. n : t[i] = q[i + 1]
  OBVIOUS
<1> HIDE DEF t, n
<1>2. /\ s \in Seq(Int) /\ Len(s) = n + 1 /\ Sizes(t) \in Seq(Int) /\ Len(Sizes(t)) = n
  BY <1>1, SizesType
<1>3. s[1] = Size(Head(q)) /\ \A i \in 1 .. n : Sizes(t)[i] = s[i + 1]
  <2>1. 1 \in 1 .. (n + 1) /\ \A i \in 1 .. n : i + 1 \in 1 .. (n + 1)
    BY <1>1
  <2>2. QED
    BY <1>1, <2>1 DEF Sizes
<1> HIDE DEF s
<1>4. s # <<>> /\ Head(s) = s[1] /\ Tail(s) \in Seq(Int) /\ Len(Tail(s)) = n
      /\ \A i \in 1 .. n : Tail(s)[i] = s[i + 1]
  BY <1>1, <1>2
<1>5. Tail(s) = Sizes(t)
  BY <1>2, <1>3, <1>4, SeqEqual
<1>6. SumFunction(s) = Head(s) + SumFunction(Tail(s))
  BY <1>2, <1>4, SumSeqTail
<1>7. QED
  BY <1>1, <1>3, <1>4, <1>5, <1>6 DEF Total, Sizes, s, t

(* The content of one channel changes.                                     *)
QueueTotals(u) == [d \in Channels |-> Total(u[d])]

LEMMA ChannelUpdate ==
  ASSUME NEW u, NEW v, NEW c \in Channels,
         \A d \in Channels : Total(u[d]) \in Nat /\ Total(v[d]) \in Nat,
         \A d \in Channels : d # c => Total(v[d]) = Total(u[d])
  PROVE  /\ SumFunctionOnSet(QueueTotals(v), Channels)
              = SumFunctionOnSet(QueueTotals(u), Channels)
                + (Total(v[c]) - Total(u[c]))
         /\ SumFunctionOnSet(QueueTotals(u), Channels) \in Nat
<1> DEFINE f == [d \in Channels |-> Total(u[d])]
           g == [d \in Channels |-> Total(v[d])]
<1>1. IsFiniteSet(Channels)
  BY AggregatorAssumption
<1>2. /\ \A d \in Channels : f[d] \in Nat
      /\ g[c] = Total(v[c]) /\ f[c] = Total(u[c]) /\ g[c] \in Nat
      /\ \A d \in Channels : d # c => g[d] = f[d]
  OBVIOUS
<1> HIDE DEF f, g
<1>3. SumFunctionOnSet(f, Channels) \in Nat
  BY <1>1, <1>2, SumNat
<1>4. SumFunctionOnSet(g, Channels) = SumFunctionOnSet(f, Channels) + (g[c] - f[c])
  <2>1. g[c] \in Int /\ \A d \in Channels : f[d] \in Int
    BY <1>2
  <2>2. \A d \in Channels : d # c => g[d] = f[d]
    BY <1>2
  <2>3. QED
    BY <1>1, <2>1, <2>2, SumUpdate
<1>5. QED
  BY <1>2, <1>3, <1>4 DEF f, g, QueueTotals

LEMMA BufferedUpdate ==
  ASSUME TypeOK, NEW c \in Channels, NEW q \in Seq(Messages),
         chan' = [chan EXCEPT ![c] = q]
  PROVE  /\ Buffered \in Nat /\ Total(chan[c]) \in Nat /\ Total(q) \in Nat
         /\ Buffered' = Buffered + (Total(q) - Total(chan[c]))
<1>1. chan \in [Channels -> Seq(Messages)]
  BY DEF TypeOK
<1>2. /\ chan' \in [Channels -> Seq(Messages)] /\ chan'[c] = q
      /\ \A d \in Channels : d # c => chan'[d] = chan[d]
  BY <1>1
<1>3. /\ SumFunctionOnSet(QueueTotals(chan'), Channels)
           = SumFunctionOnSet(QueueTotals(chan), Channels)
             + (Total(chan'[c]) - Total(chan[c]))
      /\ SumFunctionOnSet(QueueTotals(chan), Channels) \in Nat
  <2>1. \A d \in Channels : d # c => Total(chan'[d]) = Total(chan[d])
    BY <1>2
  <2>2. \A d \in Channels : Total(chan[d]) \in Nat /\ Total(chan'[d]) \in Nat
    BY <1>1, <1>2, TotalNat
  <2>3. QED
    BY <2>1, <2>2, ChannelUpdate
<1>4. Total(chan[c]) \in Nat /\ Total(q) \in Nat
  BY <1>1, TotalNat
<1>5. Buffered = SumFunctionOnSet(QueueTotals(chan), Channels)
  BY DEF Buffered, SumFunction, QueueTotals
<1>6. Buffered' = SumFunctionOnSet(QueueTotals(chan'), Channels)
  BY DEF Buffered, SumFunction, QueueTotals
<1>7. QED
  BY <1>2, <1>3, <1>4, <1>5, <1>6

(* The windows change: each by what n says.                                *)
LEMMA RecordedUpdate ==
  ASSUME NEW u \in [DurationKinds -> Window], NEW v \in [DurationKinds -> Window],
         NEW n, \A k \in DurationKinds :
                  n[k] \in Nat /\ SumFunction(v[k]) = SumFunction(u[k]) + n[k]
  PROVE  /\ SumFunctionOnSet([k \in DurationKinds |-> SumFunction(v[k])], DurationKinds)
              = SumFunctionOnSet([k \in DurationKinds |-> SumFunction(u[k])], DurationKinds)
                + SumFunctionOnSet(n, DurationKinds)
         /\ SumFunctionOnSet([k \in DurationKinds |-> SumFunction(u[k])], DurationKinds) \in Nat
         /\ SumFunctionOnSet(n, DurationKinds) \in Nat
<1> DEFINE f == [k \in DurationKinds |-> SumFunction(u[k])]
           g == [k \in DurationKinds |-> SumFunction(v[k])]
<1>1. IsFiniteSet(DurationKinds)
  BY AggregatorAssumption
<1>2. \A k \in DurationKinds : f[k] \in Nat /\ n[k] \in Nat /\ g[k] = f[k] + n[k]
  BY WindowSum
<1> HIDE DEF f, g
<1>3. SumFunctionOnSet(g, DurationKinds)
        = SumFunctionOnSet(f, DurationKinds) + SumFunctionOnSet(n, DurationKinds)
  <2>1. \A k \in DurationKinds : f[k] \in Int /\ n[k] \in Int /\ g[k] = f[k] + n[k]
    BY <1>2
  <2>2. QED
    BY <1>1, <2>1, SumPlus
<1>4. SumFunctionOnSet(f, DurationKinds) \in Nat /\ SumFunctionOnSet(n, DurationKinds) \in Nat
  BY <1>1, <1>2, SumNat
<1>5. QED
  BY <1>3, <1>4 DEF f, g

DurationsInv == sent = gone + over + Recorded + Buffered

LEMMA DurationsInit == Init => DurationsInv
<1> SUFFICES ASSUME Init PROVE DurationsInv
  OBVIOUS
<1>0. IsFiniteSet(DurationKinds) /\ IsFiniteSet(Channels) /\ Buckets \in Nat
  BY AggregatorAssumption
<1>1. SumFunction(Zeros(Buckets)) = 0
  <2>1. IsFiniteSet(1 .. Buckets)
    BY <1>0, FS_Interval
  <2>2. QED
    BY <2>1, SumZero DEF Zeros, SumFunction
<1>2. Recorded = 0
  BY <1>0, <1>1, SumZero DEF Init, Recorded, SumFunction
<1>3. Total(<<>>) = 0
  BY SumEmpty DEF Total, SumFunction
<1>4. Buffered = 0
  BY <1>0, <1>3, SumZero DEF Init, Buffered, SumFunction
<1>5. QED
  BY <1>2, <1>4 DEF Init, DurationsInv

LEMMA DurationsNext == TypeInv /\ DurationsInv /\ [Next]_vars => DurationsInv'
<1> SUFFICES ASSUME TypeInv, DurationsInv, [Next]_vars PROVE DurationsInv'
  OBVIOUS
<1> USE DEF ownVars, chanVars, snapVars, serveVars, recVars, cntVars
<1>0. /\ TypeOK /\ sent \in Nat /\ gone \in Nat /\ over \in Nat
      /\ sent = gone + over + Recorded + Buffered
      /\ hists \in [DurationKinds -> Window] /\ chan \in [Channels -> Seq(Messages)]
  BY DEF TypeInv, TypeOK, DurationsInv
<1>1. ASSUME UNCHANGED <<hists, over, chan, sent, gone>> PROVE DurationsInv'
  BY <1>1 DEF DurationsInv, Recorded, Buffered, Total
<1>2. ASSUME NEW r \in Recorders, Send(r) PROVE DurationsInv'
  <2> DEFINE m == msg[r]
             d == m.ch
             q == Append(chan[d], m)
  <2>1. /\ m \in Messages /\ chan' = [chan EXCEPT ![d] = q] /\ sent' = sent + Size(m)
        /\ UNCHANGED <<hists, over, gone>>
    BY <1>0, <1>2 DEF Send, TypeOK
  <2>2. d \in Channels /\ Size(m) \in Nat
    BY <2>1, SizeNat
  <2> HIDE DEF m, d
  <2>3. chan[d] \in Seq(Messages) /\ q \in Seq(Messages) /\ Total(q) = Total(chan[d]) + Size(m)
    BY <1>0, <2>1, <2>2, TotalAppend
  <2> HIDE DEF q
  <2>4. /\ Buffered \in Nat /\ Total(chan[d]) \in Nat /\ Total(q) \in Nat
        /\ Buffered' = Buffered + (Total(q) - Total(chan[d]))
    BY <1>0, <2>1, <2>2, <2>3, BufferedUpdate
  <2>5. Recorded' = Recorded /\ over' = over /\ gone' = gone
    BY <2>1 DEF Recorded
  <2>6. Recorded \in Nat
    <3>1. \A k \in DurationKinds : SumFunction(hists[k]) \in Nat
      BY <1>0, WindowSum
    <3>2. QED
      BY <3>1, SumNat, AggregatorAssumption DEF Recorded, SumFunction
  <2>7. Buffered' = Buffered + Size(m)
    BY <2>2, <2>3, <2>4
  <2>8. sent' = gone' + over' + Recorded' + Buffered'
    BY <1>0, <2>1, <2>2, <2>4, <2>5, <2>6, <2>7
  <2>9. QED
    BY <2>8 DEF DurationsInv
<1>3. ASSUME NEW c \in Channels, ReceiveMessage(c) PROVE DurationsInv'
  <2> DEFINE m == Head(chan[c])
             q == Tail(chan[c])
             n == [k \in DurationKinds |-> m.vals[k].short]
  <2>1. /\ chan[c] \in Seq(Messages) /\ chan[c] # <<>>
        /\ hists' = Added(m) /\ over' = over + Long(m)
        /\ chan' = [chan EXCEPT ![c] = q]
        /\ UNCHANGED <<sent, gone>>
    BY <1>0, <1>3 DEF ReceiveMessage
  <2>2. m \in Messages /\ q \in Seq(Messages) /\ Total(chan[c]) = Size(m) + Total(q)
    BY <2>1, TotalTail
  <2> HIDE DEF m, q
  <2>3. /\ Short(m) \in Nat /\ Long(m) \in Nat /\ Size(m) = Short(m) + Long(m)
        /\ \A k \in DurationKinds : m.vals[k].short \in Nat
    BY <2>2, SizeNat
  <2>4. \A k \in DurationKinds :
          /\ n[k] \in Nat /\ hists'[k] \in Window
          /\ SumFunction(hists'[k]) = SumFunction(hists[k]) + n[k]
    BY <1>0, <2>1, <2>3, Incremented DEF Added
  <2>5. hists' \in [DurationKinds -> Window]
    BY <2>1, <2>4 DEF Added
  <2>6. Short(m) = SumFunctionOnSet(n, DurationKinds)
    BY DEF Short, SumFunction
  <2> HIDE DEF n
  <2>7. Recorded' = Recorded + Short(m) /\ Recorded \in Nat
    <3>1. /\ SumFunctionOnSet([k \in DurationKinds |-> SumFunction(hists'[k])], DurationKinds)
               = SumFunctionOnSet([k \in DurationKinds |-> SumFunction(hists[k])], DurationKinds)
                 + SumFunctionOnSet(n, DurationKinds)
          /\ SumFunctionOnSet([k \in DurationKinds |-> SumFunction(hists[k])], DurationKinds) \in Nat
          /\ SumFunctionOnSet(n, DurationKinds) \in Nat
      BY <1>0, <2>4, <2>5, RecordedUpdate
    <3>2. QED
      BY <2>6, <3>1 DEF Recorded, SumFunction
  <2>8. /\ Buffered \in Nat /\ Total(chan[c]) \in Nat /\ Total(q) \in Nat
        /\ Buffered' = Buffered + (Total(q) - Total(chan[c]))
    BY <1>0, <2>1, <2>2, BufferedUpdate
  <2>9. Buffered' = Buffered - Size(m)
    BY <2>2, <2>3, <2>8
  <2>10. sent' = gone' + over' + Recorded' + Buffered'
    BY <1>0, <2>1, <2>3, <2>7, <2>8, <2>9
  <2>11. QED
    BY <2>10 DEF DurationsInv
<1>4. CASE ReceiveTick
  <2>1. over' = 0 /\ gone' = gone + over /\ UNCHANGED <<hists, chan, sent>>
    BY <1>4 DEF ReceiveTick
  <2>2. Recorded' = Recorded /\ Buffered' = Buffered
    BY <2>1 DEF Recorded, Buffered, Total
  <2>3. QED
    BY <1>0, <2>1, <2>2 DEF DurationsInv
<1>5. CASE RotateHists
  <2> DEFINE n == [k \in DurationKinds |-> Head(hists[k])]
  <2>1. /\ hists' = [k \in DurationKinds |-> Append(Tail(hists[k]), 0)]
        /\ gone' = gone + SumFunction(n)
        /\ UNCHANGED <<over, chan, sent>>
    BY <1>5 DEF RotateHists
  <2>2. ASSUME NEW k \in DurationKinds
        PROVE  /\ n[k] \in Nat /\ hists'[k] \in Window
               /\ SumFunction(hists[k]) = SumFunction(hists'[k]) + n[k]
    <3>1. /\ Head(hists[k]) \in Nat /\ Append(Tail(hists[k]), 0) \in Window
          /\ SumFunction(Append(Tail(hists[k]), 0)) = SumFunction(hists[k]) - Head(hists[k]) + 0
      BY <1>0, Shifted
    <3>2. SumFunction(hists[k]) \in Nat
      BY <1>0, WindowSum
    <3>3. hists'[k] = Append(Tail(hists[k]), 0)
      BY <2>1
    <3>4. SumFunction(hists'[k]) = SumFunction(hists[k]) - Head(hists[k])
      BY <3>1, <3>2, <3>3
    <3>5. QED
      BY <3>1, <3>2, <3>3, <3>4
  <2>3. hists' \in [DurationKinds -> Window]
    BY <2>1, <2>2
  <2>4. SumFunction(n) = SumFunctionOnSet(n, DurationKinds)
    BY DEF SumFunction
  <2> HIDE DEF n
  <2>5. /\ Recorded = Recorded' + SumFunction(n) /\ Recorded' \in Nat
        /\ SumFunction(n) \in Nat
    <3>1. /\ SumFunctionOnSet([k \in DurationKinds |-> SumFunction(hists[k])], DurationKinds)
               = SumFunctionOnSet([k \in DurationKinds |-> SumFunction(hists'[k])], DurationKinds)
                 + SumFunctionOnSet(n, DurationKinds)
          /\ SumFunctionOnSet([k \in DurationKinds |-> SumFunction(hists'[k])], DurationKinds) \in Nat
          /\ SumFunctionOnSet(n, DurationKinds) \in Nat
      BY <1>0, <2>2, <2>3, RecordedUpdate
    <3>2. QED
      BY <2>4, <3>1 DEF Recorded, SumFunction
  <2>6. Buffered' = Buffered
    BY <2>1 DEF Buffered, Total
  <2>7. Buffered \in Nat
    <3>1. \A c \in Channels : Total(chan[c]) \in Nat
      BY <1>0, TotalNat
    <3>2. QED
      BY <3>1, SumNat, AggregatorAssumption DEF Buffered, SumFunction
  <2>8. sent' = gone' + over' + Recorded' + Buffered'
    BY <1>0, <2>1, <2>5, <2>6, <2>7
  <2>9. QED
    BY <2>8 DEF DurationsInv
<1>6. ASSUME NEW kind \in RequestKinds, CountRequests(kind) \/ RotateRequests(kind)
      PROVE  DurationsInv'
  BY <1>1, <1>6 DEF CountRequests, RotateRequests
<1>7. ASSUME NEW r \in Recorders, NEW m \in Messages, CallRecord(r, m) \/ SendPanics(r)
      PROVE  DurationsInv'
  BY <1>1, <1>7 DEF CallRecord, SendPanics
<1>8. ASSUME NEW r \in Recorders, SendPanics(r) PROVE DurationsInv'
  BY <1>1, <1>8 DEF SendPanics
<1>9. CASE Refresh \/ closeChannels \/ CloseDone
  BY <1>1, <1>9 DEF Refresh, closeChannels, CloseDone
<1>10. ASSUME NEW g \in Getters, Get(g) \/ Answer(g) PROVE DurationsInv'
  BY <1>1, <1>10 DEF Get, CallGet, Lock, ReceiveRequest, FinalSnapshot, ReturnGet, Answer
<1>11. CASE Expire \/ CallStop \/ ReceiveStop \/ StopReturns
  BY <1>1, <1>11 DEF Expire, CallStop, ReceiveStop, StopReturns
<1>12. CASE UNCHANGED vars
  BY <1>1, <1>12 DEF vars
<1>13. QED
  BY <1>2, <1>3, <1>4, <1>5, <1>6, <1>7, <1>8, <1>9, <1>10, <1>11, <1>12
  DEF Next, Record, ServeGoesOn, Rotate

(* No duration is lost, doubled or attributed to nothing between a Record  *)
(* call and the end of its window.                                         *)
THEOREM NoDurationLost == Spec => []DurationsConserved
<1>1. DurationsInv => DurationsConserved
  BY DEF DurationsInv, DurationsConserved, Recorded, Buffered, Total
<1>2. QED
  BY <1>1, DurationsInit, DurationsNext, TypeInvInit, TypeInvNext, PTL DEF Spec

-----------------------------------------------------------------------------
(***************************************************************************)
(* metrics.Printer on the cached snapshot.                                 *)
(***************************************************************************)
Positions == {"idle", "lock", "ask", "fill", "write"}

PrinterTypes ==
  /\ snapValid \in BOOLEAN /\ ended \in BOOLEAN
  /\ Version \in Nat /\ cacheVersion \in Nat
  /\ snapLeft \in 0 .. snapshotTTL /\ cacheLeft \in 0 .. reportCacheTTL
  /\ cache \in Buffers \cup {0}
  /\ text \in [Buffers -> Nat]
  /\ at \in [Readers -> Positions]
  /\ buf \in [Readers -> Buffers \cup {0}]
  /\ changes \in 0 .. MaxChanges
  /\ lag \in [0 .. (MaxChanges + 1) -> (-1) .. (Bound + 1)]

(* The age of a snapshot that a reader takes away, at most: one step less  *)
(* than its TTL, since it is made anew at the TTL; but the data may change *)
(* behind a snapshot that has just been made.                              *)
Young == IF snapshotTTL = 0 THEN 0 ELSE snapshotTTL - 1

(* The snapshot lacks nothing while it is valid, and nothing older than    *)
(* the part of its TTL that is over.                                       *)
VersionInv ==
  /\ Version <= changes + IF snapValid THEN 1 ELSE 0
  /\ \A v \in 0 .. (MaxChanges + 1) : v > Version => lag[v] = -1
  /\ snapValid => Version > 0 /\ lag[Version] = -1
  /\ snapLeft > 0 => Version > 0 /\ lag[Version] <= snapshotTTL - snapLeft

(* One reader at most has the mutex, and what it fills in is young; who    *)
(* writes has a buffer.                                                    *)
HolderInv ==
  /\ \A r, s \in Readers : at[r] \in {"ask", "fill"} /\ at[s] \in {"ask", "fill"} => r = s
  /\ \A r \in Readers : at[r] = "fill" => Version > 0 /\ lag[Version] <= Young
  /\ \A r \in Readers : at[r] = "write" => buf[r] # 0

(* The text is that of cacheVersion, and ages with its deadline.           *)
TextInv ==
  /\ cacheVersion <= Version
  /\ cacheVersion > 0 => cache # 0
  /\ cache # 0 => text[cache] = cacheVersion
  /\ cacheLeft > 0 => /\ cache # 0
                      /\ lag[cacheVersion] <= Young + (reportCacheTTL - cacheLeft)

PrinterInv == PrinterTypes /\ VersionInv /\ HolderInv /\ TextInv

LEMMA PrinterNumbers ==
  /\ Cardinality(Readers) \in Nat /\ Bound \in Nat
  /\ Bound = snapshotTTL + reportCacheTTL
  /\ Young \in Nat /\ Young <= snapshotTTL
  /\ Young + reportCacheTTL <= Bound /\ Young < Bound
  /\ Buffers = 1 .. (Cardinality(Readers) + 2)
  /\ 1 \in Buffers /\ 0 \notin Buffers
BY FS_CardinalityType, ReportAssumption DEF Bound, Buffers, Young

(* There is a buffer that nobody holds.                                    *)
LEMMA FreeBuffer ==
  ASSUME PrinterTypes
  PROVE  /\ NewBuffer \in Buffers /\ NewBuffer # cache
         /\ \A r \in Readers : NewBuffer # buf[r]
<1> DEFINE held == {buf[r] : r \in Readers}
           n == Cardinality(Readers)
<1>1. IsFiniteSet(Readers) /\ n \in Nat
  BY PrinterNumbers, ReportAssumption
<1>2. IsFiniteSet(held) /\ Cardinality(held) \in Nat /\ Cardinality(held) <= n
  <2>1. buf \in Surjection(Readers, held)
    BY DEF PrinterTypes, Surjection
  <2>2. QED
    BY <1>1, <2>1, FS_Surjection, FS_CardinalityType
<1>3. /\ IsFiniteSet(held \cup {cache})
      /\ Cardinality(held \cup {cache}) \in Nat /\ Cardinality(held \cup {cache}) <= n + 1
  <2>1. IsFiniteSet(held \cup {cache})
    BY <1>2, FS_AddElement
  <2>2. /\ Cardinality(held \cup {cache}) \in Nat
        /\ \/ Cardinality(held \cup {cache}) = Cardinality(held)
           \/ Cardinality(held \cup {cache}) = Cardinality(held) + 1
    <3> HIDE DEF held
    <3>1. QED
      BY <1>2, <2>1, FS_AddElement, FS_CardinalityType
  <2>3. QED
    BY <1>1, <1>2, <2>1, <2>2
<1>4. IsFiniteSet(1 .. (n + 2)) /\ Cardinality(1 .. (n + 2)) = n + 2
  BY <1>1, FS_Interval
<1>5. Buffers = 1 .. (n + 2)
  BY PrinterNumbers
<1> HIDE DEF n
<1>6. \E b \in Buffers : b \notin held \cup {cache}
  <2> HIDE DEF held
  <2>1. SUFFICES ASSUME 1 .. (n + 2) \subseteq held \cup {cache} PROVE FALSE
    BY <1>5
  <2>2. Cardinality(1 .. (n + 2)) <= Cardinality(held \cup {cache})
    BY <1>3, <2>1, FS_Subset
  <2>3. QED
    BY <1>1, <1>3, <1>4, <2>2
<1>7. \E b \in Buffers : b # cache /\ \A r \in Readers : b # buf[r]
  BY <1>6
<1>8. QED
  BY <1>7 DEF NewBuffer

LEMMA PrinterInvInit == PrinterInit => PrinterInv
<1> SUFFICES ASSUME PrinterInit PROVE PrinterInv
  OBVIOUS
<1>1. PrinterTypes
  <2>1. lag \in [0 .. (MaxChanges + 1) -> (-1) .. (Bound + 1)]
    BY PrinterNumbers, ReportAssumption DEF PrinterInit
  <2>2. text \in [Buffers -> Nat]
    BY DEF PrinterInit
  <2>3. /\ at \in [Readers -> Positions]
        /\ buf \in [Readers -> Buffers \cup {0}]
    BY DEF PrinterInit, Positions
  <2>4. 0 \in 0 .. snapshotTTL /\ 0 \in 0 .. reportCacheTTL /\ 0 \in 0 .. MaxChanges
    BY ReportAssumption
  <2>5. QED
    BY <2>1, <2>2, <2>3, <2>4 DEF PrinterInit, PrinterTypes
<1>2. VersionInv /\ HolderInv /\ TextInv
  BY PrinterNumbers, ReportAssumption DEF PrinterInit, VersionInv, HolderInv, TextInv
<1>3. QED
  BY <1>1, <1>2 DEF PrinterInv

(* Versions that the lags speak about.                                     *)
LEMMA VersionRange ==
  ASSUME PrinterInv
  PROVE  /\ Version \in 0 .. (MaxChanges + 1) /\ cacheVersion \in 0 .. (MaxChanges + 1)
         /\ ~snapValid => Version + 1 \in 0 .. (MaxChanges + 1)
         /\ DOMAIN lag = 0 .. (MaxChanges + 1)
         /\ \A v \in 0 .. (MaxChanges + 1) : lag[v] \in Int
BY PrinterNumbers, ReportAssumption
DEF PrinterInv, PrinterTypes, VersionInv, TextInv

LEMMA PrinterInvNext == PrinterInv /\ [PrinterNext]_printerVars => PrinterInv'
<1> SUFFICES ASSUME PrinterInv, [PrinterNext]_printerVars
             PROVE  PrinterInv'
  OBVIOUS
<1> USE ReportAssumption DEF snapshotVars, cacheVars
<1>0. PrinterTypes /\ VersionInv /\ HolderInv /\ TextInv
  BY DEF PrinterInv
<1>n. /\ Version \in 0 .. (MaxChanges + 1) /\ cacheVersion \in 0 .. (MaxChanges + 1)
      /\ ~snapValid => Version + 1 \in 0 .. (MaxChanges + 1)
      /\ DOMAIN lag = 0 .. (MaxChanges + 1)
      /\ \A v \in 0 .. (MaxChanges + 1) : lag[v] \in Int
      /\ Bound \in Nat /\ Young \in Nat
      /\ Young <= snapshotTTL /\ Young + reportCacheTTL <= Bound
  BY VersionRange, PrinterNumbers
<1>1. CASE Change
  <2>1. /\ changes < MaxChanges /\ changes' = changes + 1 /\ snapValid' = FALSE
        /\ lag' = [v \in DOMAIN lag |-> IF v <= Version /\ lag[v] = -1 THEN 0 ELSE lag[v]]
        /\ UNCHANGED <<Version, snapLeft, ended, cacheVersion, cache, cacheLeft, text, at, buf>>
    BY <1>1 DEF Change
  <2>2. lag' \in [0 .. (MaxChanges + 1) -> (-1) .. (Bound + 1)]
    BY <1>0, <1>n, <2>1 DEF PrinterTypes
  <2>3. PrinterTypes'
    <3>1. changes' \in 0 .. MaxChanges
      BY <1>0, <2>1 DEF PrinterTypes
    <3>2. QED
      BY <1>0, <2>1, <2>2, <3>1 DEF PrinterTypes
  <2>4. VersionInv'
    BY <1>0, <1>n, <2>1 DEF VersionInv, PrinterTypes
  <2>5. HolderInv'
    BY <1>0, <1>n, <2>1 DEF HolderInv, Young
  <2>6. TextInv'
    BY <1>0, <1>n, <2>1 DEF TextInv, Young, PrinterTypes
  <2>7. QED
    BY <2>3, <2>4, <2>5, <2>6 DEF PrinterInv
<1>2. CASE ServeEnds
  BY <1>0, <1>2
  DEF ServeEnds, PrinterInv, PrinterTypes, VersionInv, HolderInv, TextInv,
      Young
<1>3. CASE Clock
  <2>1. /\ Unlocked
        /\ snapLeft' = Left(snapLeft) /\ cacheLeft' = Left(cacheLeft)
        /\ lag' = [v \in DOMAIN lag |-> Older(lag[v])]
        /\ UNCHANGED <<snapValid, Version, ended, changes, cacheVersion, cache, text, at, buf>>
    BY <1>3 DEF Clock
  <2>2. \A v \in 0 .. (MaxChanges + 1) :
          /\ lag'[v] \in (-1) .. (Bound + 1)
          /\ lag[v] = -1 => lag'[v] = -1
          /\ lag'[v] <= lag[v] + 1 \/ lag'[v] = -1
          /\ lag'[v] = lag[v] \/ lag'[v] = lag[v] + 1
    BY <1>0, <1>n, <2>1 DEF PrinterTypes, Older
  <2>3. /\ snapLeft' \in 0 .. snapshotTTL /\ cacheLeft' \in 0 .. reportCacheTTL
        /\ snapLeft' > 0 => snapLeft > 0 /\ snapLeft = snapLeft' + 1
        /\ cacheLeft' > 0 => cacheLeft > 0 /\ cacheLeft = cacheLeft' + 1
    BY <1>0, <2>1 DEF PrinterTypes, Left
  <2>4. PrinterTypes'
    BY <1>0, <1>n, <2>1, <2>2, <2>3 DEF PrinterTypes
  <2>5. VersionInv'
    <3>1. Version <= changes + IF snapValid THEN 1 ELSE 0
      BY <1>0 DEF VersionInv
    <3>2. \A v \in 0 .. (MaxChanges + 1) : v > Version => lag'[v] = -1
      BY <1>0, <2>2 DEF VersionInv
    <3>3. snapValid => Version > 0 /\ lag'[Version] = -1
      BY <1>0, <1>n, <2>2 DEF VersionInv
    <3>4. ASSUME snapLeft' > 0
          PROVE  Version > 0 /\ lag'[Version] <= snapshotTTL - snapLeft'
      <4>1. Version > 0 /\ lag[Version] <= snapshotTTL - snapLeft
        BY <1>0, <2>3, <3>4 DEF VersionInv
      <4>2. /\ lag[Version] \in Int
            /\ lag'[Version] = lag[Version] \/ lag'[Version] = lag[Version] + 1
        BY <1>n, <2>2
      <4>3. snapLeft = snapLeft' + 1 /\ snapLeft' \in Nat
        BY <2>3, <3>4
      <4>4. QED
        BY <4>1, <4>2, <4>3
    <3>5. QED
      BY <2>1, <3>1, <3>2, <3>3, <3>4 DEF VersionInv
  <2>6. HolderInv'
    BY <1>0, <2>1 DEF HolderInv, Unlocked
  <2>7. TextInv'
    <3>1. ASSUME cacheLeft' > 0
          PROVE  cache # 0 /\ lag'[cacheVersion] <= Young + (reportCacheTTL - cacheLeft')
      <4>1. cache # 0 /\ lag[cacheVersion] <= Young + (reportCacheTTL - cacheLeft)
        BY <1>0, <2>3, <3>1 DEF TextInv
      <4>2. /\ lag[cacheVersion] \in Int /\ lag'[cacheVersion] \in Int
            /\ lag'[cacheVersion] = lag[cacheVersion] \/ lag'[cacheVersion] = lag[cacheVersion] + 1
        BY <1>n, <2>2
      <4>3. cacheLeft = cacheLeft' + 1 /\ cacheLeft' \in Nat
        BY <2>3, <3>1
      <4>4. QED
        BY <1>n, <4>1, <4>2, <4>3
    <3>2. QED
      BY <1>0, <2>1, <3>1 DEF TextInv, Young
  <2>8. QED
    BY <2>4, <2>5, <2>6, <2>7 DEF PrinterInv
<1>4. ASSUME NEW r \in Readers, ServeReader(r) PROVE PrinterInv'
  <2>1. CASE CallPrint(r)
    BY <1>0, <2>1
    DEF CallPrint, PrinterInv, PrinterTypes, VersionInv, HolderInv, TextInv,
        Young, Positions
  <2>2. CASE CacheHit(r)
    BY <1>0, <2>2
    DEF CacheHit, HandOut, PrinterInv, PrinterTypes, VersionInv,
        HolderInv, TextInv, Young, Positions
  <2>3. CASE CacheMiss(r)
    BY <1>0, <2>3
    DEF CacheMiss, Unlocked, PrinterInv, PrinterTypes, VersionInv,
        HolderInv, TextInv, Young, Positions
  <2>4. CASE getSnapshot(r)
    <3>1. /\ at[r] = "ask" /\ at' = [at EXCEPT ![r] = "fill"]
          /\ UNCHANGED <<ended, changes, cacheVersion, cache, cacheLeft, text, buf, lag>>
      BY <2>4 DEF getSnapshot
    <3>2. \A s \in Readers : at'[s] = "fill" => s = r
      BY <1>0, <3>1 DEF HolderInv, PrinterTypes
    <3>w. \A s \in Readers : at'[s] = "write" => buf'[s] # 0
      BY <1>0, <3>1 DEF HolderInv, PrinterTypes
    <3>3. \A s, t \in Readers :
            at'[s] \in {"ask", "fill"} /\ at'[t] \in {"ask", "fill"} => s = t
      BY <1>0, <3>1 DEF HolderInv, PrinterTypes
    <3>4. CASE NeedsSnapshot /\ newSnapshot
      <4>1. /\ ~snapValid /\ Version' = Version + 1 /\ snapLeft' = snapshotTTL /\ snapValid' = TRUE
        BY <3>4 DEF NeedsSnapshot, newSnapshot
      <4>2. PrinterTypes'
        BY <1>0, <1>n, <3>1, <4>1 DEF PrinterTypes, Positions
      <4>3. lag'[Version'] = -1
        BY <1>0, <1>n, <3>1, <4>1 DEF VersionInv
      <4>4. VersionInv'
        BY <1>0, <1>n, <3>1, <4>1, <4>3 DEF VersionInv, PrinterTypes
      <4>5. HolderInv'
        BY <1>n, <3>2, <3>3, <3>w, <4>1, <4>3 DEF HolderInv, Young
      <4>6. TextInv'
        BY <1>0, <1>n, <3>1, <4>1 DEF TextInv, Young, PrinterTypes
      <4>7. QED
        BY <4>2, <4>4, <4>5, <4>6 DEF PrinterInv
    <3>5. CASE ~NeedsSnapshot /\ UNCHANGED <<Version, snapLeft, snapValid>>
      <4>1. snapValid \/ snapLeft > 0
        BY <1>0, <3>5 DEF NeedsSnapshot, PrinterTypes
      <4>2. Version > 0 /\ lag[Version] <= Young
        BY <1>0, <1>n, <4>1 DEF VersionInv, PrinterTypes, Young
      <4>3. PrinterTypes'
        BY <1>0, <3>1, <3>5 DEF PrinterTypes, Positions
      <4>4. HolderInv'
        BY <3>1, <3>2, <3>3, <3>w, <3>5, <4>2 DEF HolderInv, Young
      <4>5. VersionInv' /\ TextInv'
        BY <1>0, <3>1, <3>5 DEF VersionInv, TextInv, Young
      <4>6. QED
        BY <4>3, <4>4, <4>5 DEF PrinterInv
    <3>6. QED
      BY <2>4, <3>4, <3>5 DEF getSnapshot
  <2>5. CASE Fill(r)
    <3>1. /\ at[r] = "fill" /\ cacheLeft' = reportCacheTTL
          /\ at' = [at EXCEPT ![r] = "write"] /\ buf' = [buf EXCEPT ![r] = cache']
          /\ UNCHANGED <<snapValid, Version, snapLeft, ended, changes, lag>>
      BY <2>5 DEF Fill, HandOut
    <3>2. Version > 0 /\ lag[Version] <= Young
      BY <1>0, <3>1 DEF HolderInv
    <3>3. /\ cache' \in Buffers /\ text' \in [Buffers -> Nat]
          /\ cacheVersion' = Version /\ text'[cache'] = Version
      <4>1. CASE printReport
        BY <1>0, <4>1, FreeBuffer DEF printReport, PrinterTypes
      <4>2. CASE Version = cacheVersion /\ UNCHANGED <<cache, text, cacheVersion>>
        BY <1>0, <3>2, <4>2 DEF TextInv, PrinterTypes
      <4>3. QED
        BY <2>5, <4>1, <4>2 DEF Fill
    <3>4. PrinterTypes'
      BY <1>0, <3>1, <3>3 DEF PrinterTypes, Positions
    <3>5. VersionInv'
      BY <1>0, <3>1 DEF VersionInv
    <3>6. HolderInv'
      <4>1. \A s \in Readers : s # r => at'[s] = at[s] /\ buf'[s] = buf[s]
        BY <1>0, <3>1 DEF PrinterTypes
      <4>2. at'[r] = "write" /\ buf'[r] # 0
        BY <1>0, <3>1, <3>3, PrinterNumbers DEF PrinterTypes
      <4>3. QED
        BY <1>0, <3>1, <4>1, <4>2 DEF HolderInv, Young
    <3>7. TextInv'
      BY <1>0, <1>n, <3>1, <3>2, <3>3, PrinterNumbers DEF TextInv, Young, PrinterTypes
    <3>8. QED
      BY <3>4, <3>5, <3>6, <3>7 DEF PrinterInv
  <2>6. CASE WriteReturns(r)
    BY <1>0, <2>6
    DEF WriteReturns, PrinterInv, PrinterTypes, VersionInv, HolderInv, TextInv,
        Young, Positions
  <2>7. QED
    BY <1>4, <2>1, <2>2, <2>3, <2>4, <2>5, <2>6 DEF ServeReader
<1>5. CASE UNCHANGED printerVars
  BY <1>0, <1>5
  DEF printerVars, PrinterInv, PrinterTypes, VersionInv, HolderInv, TextInv,
      Young
<1>6. QED
  BY <1>1, <1>2, <1>3, <1>4, <1>5 DEF PrinterNext

(* No reader is handed a report that lacks something older than both TTLs  *)
(* together, and its text stays as it is while it is written out.          *)
THEOREM ReportsAreCurrent == PrinterSpec => ReportsCurrent
<1> DEFINE A == \A r \in Readers :
                  at'[r] = "write" =>
                    IF at[r] = "write" THEN text'[buf[r]] = text[buf[r]]
                                       ELSE lag'[text'[buf'[r]]] < Bound
<1>1. PrinterInv /\ [PrinterNext]_printerVars => [A]_printerVars
  <2> SUFFICES ASSUME PrinterInv, [PrinterNext]_printerVars, NEW r \in Readers,
                      at'[r] = "write"
               PROVE  IF at[r] = "write" THEN text'[buf[r]] = text[buf[r]]
                                         ELSE lag'[text'[buf'[r]]] < Bound
    OBVIOUS
  <2> USE DEF snapshotVars, cacheVars
  <2>0. PrinterTypes /\ VersionInv /\ HolderInv /\ TextInv
    BY DEF PrinterInv
  <2>1. CASE at[r] = "write"
    <3>1. ASSUME NEW s \in Readers, Fill(s) PROVE text'[buf[r]] = text[buf[r]]
      BY <2>0, <2>1, <3>1, FreeBuffer
      DEF Fill, printReport, PrinterTypes, HolderInv
    <3>2. text' = text \/ \E s \in Readers : Fill(s)
      BY DEF PrinterNext, printerVars, Change, ServeEnds, Clock,
             ServeReader, CallPrint, CacheHit, CacheMiss,
             getSnapshot, WriteReturns
    <3>3. QED
      BY <2>1, <3>1, <3>2
  <2>2. CASE at[r] # "write"
    <3>1. ASSUME NEW s \in Readers, CacheHit(s) PROVE lag'[text'[buf'[r]]] < Bound
      <4>1. /\ cacheLeft > 0 /\ at' = [at EXCEPT ![s] = "write"]
            /\ buf' = [buf EXCEPT ![s] = cache] /\ text' = text /\ lag' = lag
        BY <3>1 DEF CacheHit, HandOut
      <4>2. s = r /\ buf'[r] = cache /\ text[cache] = cacheVersion
        BY <2>0, <2>2, <4>1 DEF PrinterTypes, TextInv
      <4>3. lag[cacheVersion] <= Young + (reportCacheTTL - cacheLeft) /\ lag[cacheVersion] \in Int
        BY <2>0, <4>1, VersionRange DEF TextInv
      <4>4. /\ cacheLeft \in Nat /\ reportCacheTTL \in Nat
            /\ Young + reportCacheTTL <= Bound /\ Young \in Nat /\ Bound \in Nat
        BY <2>0, PrinterNumbers, ReportAssumption DEF PrinterTypes
      <4>5. lag[cacheVersion] < Bound
        BY <4>1, <4>3, <4>4
      <4>6. QED
        BY <4>1, <4>2, <4>5
    <3>2. ASSUME NEW s \in Readers, Fill(s) PROVE lag'[text'[buf'[r]]] < Bound
      <4>1. /\ at[s] = "fill" /\ at' = [at EXCEPT ![s] = "write"]
            /\ buf' = [buf EXCEPT ![s] = cache'] /\ lag' = lag /\ UNCHANGED Version
        BY <3>2 DEF Fill, HandOut
      <4>2. s = r /\ buf'[r] = cache'
        BY <2>0, <2>2, <4>1 DEF PrinterTypes
      <4>3. Version > 0 /\ lag[Version] <= Young
        BY <2>0, <4>1 DEF HolderInv
      <4>4. text'[cache'] = Version
        <5>1. CASE printReport
          BY <2>0, <5>1, FreeBuffer DEF printReport, PrinterTypes
        <5>2. CASE Version = cacheVersion /\ UNCHANGED <<cache, text, cacheVersion>>
          BY <2>0, <4>3, <5>2 DEF TextInv, PrinterTypes
        <5>3. QED
          BY <3>2, <5>1, <5>2 DEF Fill
      <4>5. lag[Version] < Bound
        BY <4>3, VersionRange, PrinterNumbers
      <4>6. QED
        BY <4>1, <4>2, <4>4, <4>5
    <3>3. \/ at'[r] # "write"
          \/ \E s \in Readers : CacheHit(s) \/ Fill(s)
      BY <2>0, <2>2
      DEF PrinterTypes, PrinterNext, printerVars, Change, ServeEnds,
          Clock, ServeReader, CallPrint, CacheMiss,
          getSnapshot, WriteReturns
    <3>4. QED
      BY <2>2, <3>1, <3>2, <3>3
  <2>3. QED
    BY <2>1, <2>2
<1>2. PrinterInv /\ [PrinterNext]_printerVars => PrinterInv'
  BY PrinterInvNext
<1>3. PrinterInit => PrinterInv
  BY PrinterInvInit
<1>4. QED
  BY <1>1, <1>2, <1>3, PTL DEF PrinterSpec, ReportsCurrent

-----------------------------------------------------------------------------
(***************************************************************************)
(* pools.BatchPool and the way of a batch.                                 *)
(***************************************************************************)
Slice == [buf : Addresses, len : 1 .. batchSize]

PoolTypes ==
  /\ mem \in [Addresses -> [1 .. batchSize -> {nil} \cup (PoolRecorders \X Nat)]]
  /\ pool \in SUBSET Addresses
  /\ batch \in [PoolRecorders -> Slice \cup {nil}]
  /\ queue \in Seq(Slice)
  /\ agg \in Slice \cup {nil} /\ read \in 0 .. agg.len
  /\ taken \in [PoolRecorders -> Nat]
  /\ recorded \in Seq(PoolRecorders \X Nat)

(* Nobody shares a buffer. *)
OwnerInv ==
  /\ 0 \notin pool
  /\ \A r, s \in PoolRecorders : batch[r].buf = batch[s].buf /\ batch[r].buf # 0 => r = s
  /\ \A i, j \in DOMAIN queue : queue[i].buf = queue[j].buf => i = j
  /\ \A i \in DOMAIN queue : /\ queue[i].buf # agg.buf /\ queue[i].buf \notin pool
                             /\ \A r \in PoolRecorders : queue[i].buf # batch[r].buf
  /\ \A r \in PoolRecorders : /\ batch[r].buf = agg.buf => agg.buf = 0
                          /\ batch[r].buf \notin pool
  /\ agg.buf \notin pool

(* There are no more buffers than samples taken, so that there is one more *)
(* for the next.                                                           *)
SpaceInv == Cardinality(Used \ {0}) <= SumFunctionOnSet(taken, PoolRecorders)

(* What buffers `m` hold in the slice: samples of r, from that after k.    *)
Holds(m, slice, r, k) ==
  \A i \in 1 .. slice.len : m[slice.buf][i] = Sample(r, k + i)

(* The slices of q hold, one after the other, the samples after f[r] and   *)
(* up to g[r] of every recorder r; p[i] is how far those before i reach.   *)
Links(m, q, n, f, g, p) ==
  /\ p \in [1 .. (n + 1) -> [PoolRecorders -> Nat]]
  /\ p[1] = f /\ p[n + 1] = g
  /\ \A i \in 1 .. n : \E r \in PoolRecorders :
       /\ Holds(m, q[i], r, p[i][r])
       /\ p[i + 1] = [p[i] EXCEPT ![r] = @ + q[i].len]

Chain(m, q, f, g) == \E p : Links(m, q, Len(q), f, g, p)

RecordedOf == [r \in PoolRecorders |-> Cardinality({j \in DOMAIN recorded : recorded[j][1] = r})]

SentOf == [r \in PoolRecorders |-> taken[r] - batch[r].len]

(* Up to where the aggregator will have recorded when it is done with the  *)
(* slice it is at.                                                         *)
Reaches(f) ==
  \/ agg = nil /\ f = RecordedOf
  \/ /\ agg # nil
     /\ \E r \in PoolRecorders :
          /\ read <= RecordedOf[r]
          /\ Holds(mem, agg, r, RecordedOf[r] - read)
          /\ f = [RecordedOf EXCEPT ![r] = @ + (agg.len - read)]

FlowInv ==
  /\ \A r \in PoolRecorders : /\ batch[r].len <= taken[r]
                          /\ Holds(mem, batch[r], r, taken[r] - batch[r].len)
  /\ \E f \in [PoolRecorders -> Nat] : Reaches(f) /\ Chain(mem, queue, f, SentOf)

OrderInv ==
  \A i \in DOMAIN recorded : \E r \in PoolRecorders :
    recorded[i] = Sample(r, Cardinality({j \in 1 .. i : recorded[j][1] = r}))

PoolInv == PoolTypes /\ OwnerInv /\ SpaceInv /\ FlowInv /\ OrderInv

(***************************************************************************)
(* Chains.                                                                 *)
(***************************************************************************)
LEMMA ChainEmpty ==
  ASSUME NEW m, NEW f \in [PoolRecorders -> Nat]
  PROVE  Chain(m, <<>>, f, f)
<1> DEFINE p == [i \in 1 .. (0 + 1) |-> f]
<1>1. p[1] = f /\ p[0 + 1] = f /\ 1 .. 0 = {}
  OBVIOUS
<1> HIDE DEF p
<1>2. Links(m, <<>>, 0, f, f, p)
  BY <1>1 DEF Links, p
<1>3. Len(<<>>) = 0
  OBVIOUS
<1>4. QED
  BY <1>2, <1>3 DEF Chain

(* Only the buffers of the slices count. *)
LEMMA ChainSame ==
  ASSUME NEW m, NEW n, NEW q \in Seq(Slice), NEW f, NEW g, Chain(m, q, f, g),
         \A i \in DOMAIN q : n[q[i].buf] = m[q[i].buf]
  PROVE  Chain(n, q, f, g)
<1>1. PICK p : Links(m, q, Len(q), f, g, p)
  BY DEF Chain
<1>2. ASSUME NEW i \in 1 .. Len(q), NEW r, NEW k, Holds(m, q[i], r, k)
      PROVE  Holds(n, q[i], r, k)
  BY <1>2 DEF Holds
<1>3. \A i \in 1 .. Len(q) : \E r \in PoolRecorders :
        /\ Holds(n, q[i], r, p[i][r])
        /\ p[i + 1] = [p[i] EXCEPT ![r] = @ + q[i].len]
  BY <1>1, <1>2 DEF Links
<1>4. Links(n, q, Len(q), f, g, p)
  BY <1>1, <1>3 DEF Links
<1>5. QED
  BY <1>4 DEF Chain

LEMMA ChainAppend ==
  ASSUME NEW m, NEW q \in Seq(Slice), NEW s \in Slice, NEW f, NEW g, Chain(m, q, f, g),
         NEW r \in PoolRecorders, Holds(m, s, r, g[r])
  PROVE  Chain(m, Append(q, s), f, [g EXCEPT ![r] = @ + s.len])
<1> DEFINE t == Append(q, s)
           n == Len(q)
           h == [g EXCEPT ![r] = @ + s.len]
<1>p. PICK p : Links(m, q, n, f, g, p)
  BY DEF Chain
<1>1. /\ p \in [1 .. (n + 1) -> [PoolRecorders -> Nat]] /\ p[1] = f /\ p[n + 1] = g
      /\ \A i \in 1 .. n : \E x \in PoolRecorders :
           /\ Holds(m, q[i], x, p[i][x])
           /\ p[i + 1] = [p[i] EXCEPT ![x] = @ + q[i].len]
  BY <1>p DEF Links
<1>2. /\ n \in Nat /\ Len(t) = n + 1 /\ t[n + 1] = s /\ \A i \in 1 .. n : t[i] = q[i]
  OBVIOUS
<1>3. g \in [PoolRecorders -> Nat] /\ h \in [PoolRecorders -> Nat] /\ n + 1 \in 1 .. (n + 1)
  <2>1. n + 1 \in 1 .. (n + 1)
    BY <1>2
  <2>2. g \in [PoolRecorders -> Nat]
    BY <1>1, <2>1
  <2>3. s.len \in Nat
    BY DEF Slice
  <2>4. QED
    BY <2>1, <2>2, <2>3
<1> DEFINE e == [i \in 1 .. (n + 1 + 1) |-> IF i = n + 1 + 1 THEN h ELSE p[i]]
<1>4. /\ e \in [1 .. (n + 1 + 1) -> [PoolRecorders -> Nat]]
      /\ e[n + 1 + 1] = h /\ \A i \in 1 .. (n + 1) : e[i] = p[i]
  <2> HIDE DEF h, n
  <2>1. \A i \in 1 .. (n + 1 + 1) : i = n + 1 + 1 \/ i \in 1 .. (n + 1)
    BY <1>2
  <2>2. \A i \in 1 .. (n + 1) : i \in 1 .. (n + 1 + 1) /\ i # n + 1 + 1
    BY <1>2
  <2>3. n + 1 + 1 \in 1 .. (n + 1 + 1)
    BY <1>2
  <2>4. QED
    BY <1>1, <1>3, <2>1, <2>2, <2>3
<1> HIDE DEF e
<1>5. ASSUME NEW i \in 1 .. (n + 1)
      PROVE  \E x \in PoolRecorders : /\ Holds(m, t[i], x, e[i][x])
                                  /\ e[i + 1] = [e[i] EXCEPT ![x] = @ + t[i].len]
  <2>1. CASE i = n + 1
    <3>1. e[i] = g /\ e[i + 1] = h /\ t[i] = s
      BY <1>1, <1>2, <1>4, <2>1
    <3>2. QED
      BY <3>1
  <2>2. CASE i # n + 1
    <3>1. i \in 1 .. n /\ i + 1 \in 1 .. (n + 1)
      BY <1>2, <2>2
    <3>2. e[i] = p[i] /\ e[i + 1] = p[i + 1] /\ t[i] = q[i]
      BY <1>2, <1>4, <3>1
    <3>3. QED
      BY <1>1, <3>1, <3>2
  <2>3. QED
    BY <2>1, <2>2
<1>6. e[1] = f
  BY <1>1, <1>2, <1>4
<1> HIDE DEF t, h, n
<1>7. Links(m, t, n + 1, f, h, e)
  BY <1>4, <1>5, <1>6 DEF Links
<1>8. Chain(m, t, f, h)
  BY <1>2, <1>7 DEF Chain
<1>9. QED
  BY <1>8 DEF t, h

LEMMA ChainTail ==
  ASSUME NEW m, NEW q \in Seq(Slice), q # <<>>, NEW f, NEW g, Chain(m, q, f, g)
  PROVE  \E r \in PoolRecorders :
           /\ Holds(m, Head(q), r, f[r])
           /\ [f EXCEPT ![r] = @ + Head(q).len] \in [PoolRecorders -> Nat]
           /\ Chain(m, Tail(q), [f EXCEPT ![r] = @ + Head(q).len], g)
<1> DEFINE t == Tail(q)
           n == Len(t)
<1>1. /\ n \in Nat /\ Len(q) = n + 1 /\ Head(q) = q[1] /\ \A i \in 1 .. n : t[i] = q[i + 1]
      /\ 1 \in 1 .. Len(q)
  OBVIOUS
<1> HIDE DEF t, n
<1>p. PICK p : Links(m, q, n + 1, f, g, p)
  BY <1>1 DEF Chain
<1>2. /\ p \in [1 .. (n + 1 + 1) -> [PoolRecorders -> Nat]] /\ p[1] = f /\ p[n + 1 + 1] = g
      /\ \A i \in 1 .. (n + 1) : \E x \in PoolRecorders :
           /\ Holds(m, q[i], x, p[i][x])
           /\ p[i + 1] = [p[i] EXCEPT ![x] = @ + q[i].len]
  BY <1>p DEF Links
<1>3. PICK r \in PoolRecorders : /\ Holds(m, q[1], r, p[1][r])
                             /\ p[1 + 1] = [p[1] EXCEPT ![r] = @ + q[1].len]
  BY <1>1, <1>2
<1> DEFINE e == [i \in 1 .. (n + 1) |-> p[i + 1]]
<1>4. /\ e \in [1 .. (n + 1) -> [PoolRecorders -> Nat]]
      /\ \A i \in 1 .. (n + 1) : e[i] = p[i + 1]
  BY <1>1, <1>2
<1> HIDE DEF e
<1>5. ASSUME NEW i \in 1 .. n
      PROVE  \E x \in PoolRecorders : /\ Holds(m, t[i], x, e[i][x])
                                  /\ e[i + 1] = [e[i] EXCEPT ![x] = @ + t[i].len]
  <2>1. i + 1 \in 1 .. (n + 1) /\ i \in 1 .. (n + 1) /\ t[i] = q[i + 1]
    BY <1>1
  <2>2. e[i] = p[i + 1] /\ e[i + 1] = p[i + 1 + 1]
    BY <1>4, <2>1
  <2>3. QED
    BY <1>2, <2>1, <2>2
<1>6. e[1] = p[1 + 1] /\ e[n + 1] = g /\ p[1 + 1] \in [PoolRecorders -> Nat]
  <2>1. 1 \in 1 .. (n + 1) /\ n + 1 \in 1 .. (n + 1) /\ 1 + 1 \in 1 .. (n + 1 + 1)
    BY <1>1
  <2>2. QED
    BY <1>2, <1>4, <2>1
<1>7. Chain(m, t, p[1 + 1], g)
  <2>1. Links(m, t, n, p[1 + 1], g, e)
    BY <1>4, <1>5, <1>6 DEF Links
  <2>2. QED
    BY <2>1 DEF Chain, n
<1>8. /\ Holds(m, Head(q), r, f[r])
      /\ [f EXCEPT ![r] = @ + Head(q).len] = p[1 + 1]
  BY <1>1, <1>2, <1>3
<1>9. QED
  BY <1>6, <1>7, <1>8 DEF t

LEMMA ChainOfNone ==
  ASSUME NEW m, NEW f, NEW g, Chain(m, <<>>, f, g)
  PROVE  f = g
<1>1. Len(<<>>) = 0
  OBVIOUS
<1>2. QED
  BY <1>1 DEF Chain, Links

(***************************************************************************)
(* Buffers.                                                                *)
(***************************************************************************)
LEMMA PoolNumbers ==
  /\ Addresses = 1 .. MaxSamples /\ MaxSamples \in Nat
  /\ 0 \notin Addresses /\ nil.buf = 0 /\ nil.len = 0
  /\ nil \notin Slice
  /\ \A s \in Slice : s.buf \in Addresses /\ s.len \in 1 .. batchSize
  /\ batchSize \in Nat /\ batchSize > 0
BY BatchPoolAssumption DEF Addresses, nil, Slice

LEMMA InUse ==
  ASSUME PoolTypes
  PROVE  /\ Used \ {0} \subseteq Addresses
         /\ IsFiniteSet(Addresses) /\ Cardinality(Addresses) = MaxSamples
         /\ IsFiniteSet(Used \ {0}) /\ Cardinality(Used \ {0}) \in Nat
<1>1. ASSUME NEW b \in Used, b # 0 PROVE b \in Addresses
  <2>1. CASE b \in pool
    BY <2>1 DEF PoolTypes
  <2>2. CASE \E i \in DOMAIN queue : b = queue[i].buf
    BY <2>2, PoolNumbers DEF PoolTypes
  <2>3. CASE \E r \in PoolRecorders : b = batch[r].buf
    BY <1>1, <2>3, PoolNumbers DEF PoolTypes
  <2>4. CASE b = agg.buf
    BY <1>1, <2>4, PoolNumbers DEF PoolTypes
  <2>5. QED
    BY <2>1, <2>2, <2>3, <2>4 DEF Used, Sent
<1>2. IsFiniteSet(Addresses) /\ Cardinality(Addresses) = MaxSamples
  BY PoolNumbers, FS_Interval
<1>3. QED
  BY <1>1, <1>2, FS_Subset, FS_CardinalityType

LEMMA FreeAddress ==
  ASSUME PoolTypes, SpaceInv,
         SumFunctionOnSet(taken, PoolRecorders) < MaxSamples
  PROVE  \E a \in Addresses : a \notin Used
<1> SUFFICES ASSUME Addresses \subseteq Used PROVE FALSE
  OBVIOUS
<1>1. Addresses \subseteq Used \ {0}
  BY PoolNumbers
<1>2. MaxSamples <= Cardinality(Used \ {0})
  BY <1>1, InUse, FS_Subset
<1>3. SumFunctionOnSet(taken, PoolRecorders) \in Nat
  BY SumNat, BatchPoolAssumption DEF PoolTypes
<1>4. QED
  BY <1>2, <1>3, InUse, PoolNumbers DEF SpaceInv

LEMMA GotBuffer ==
  ASSUME PoolTypes, OwnerInv, SpaceInv,
         SumFunctionOnSet(taken, PoolRecorders) < MaxSamples,
         NEW b \in Addresses, GetBuffer(b)
  PROVE  /\ pool' = pool \ {b} /\ b # agg.buf
         /\ \A i \in DOMAIN queue : b # queue[i].buf
         /\ \A r \in PoolRecorders : b # batch[r].buf
<1>1. CASE b \in pool /\ pool' = pool \ {b}
  BY <1>1 DEF OwnerInv
<1>2. CASE b = (CHOOSE a \in Addresses : a \notin Used) /\ UNCHANGED pool
  <2>1. b \notin Used
    BY <1>2, FreeAddress
  <2>2. QED
    BY <1>2, <2>1 DEF Used, Sent
<1>3. QED
  BY <1>1, <1>2 DEF GetBuffer

(* append: the sample goes behind those of its slice, in memory that only  *)
(* its recorder has.                                                       *)
LEMMA AppendedSample ==
  ASSUME PoolInv, NEW r \in PoolRecorders, NEW s, Appended(r, s),
         s.buf \in Addresses, s.len \in Nat, s.len < batchSize,
         s = [buf |-> s.buf, len |-> s.len], s.len = batch[r].len,
         Holds(mem, s, r, taken[r] - s.len),
         pool' = pool \ {s.buf}, s.buf # agg.buf,
         \A i \in DOMAIN queue : s.buf # queue[i].buf,
         \A x \in PoolRecorders : x # r => s.buf # batch[x].buf,
         UNCHANGED <<queue, agg, read, recorded>>
  PROVE  PoolInv'
<1> DEFINE b == s.buf
           n == s.len + 1
           k == taken[r] + 1
           slice == [buf |-> b, len |-> n]
<1>0. PoolTypes /\ OwnerInv /\ SpaceInv /\ FlowInv /\ OrderInv
  BY DEF PoolInv
<1>1. /\ taken' = [taken EXCEPT ![r] = k]
      /\ mem' = [mem EXCEPT ![b][n] = Sample(r, k)]
      /\ batch' = [batch EXCEPT ![r] = slice]
  <2>1. /\ taken' = [taken EXCEPT ![r] = k]
        /\ mem' = [mem EXCEPT ![b][n] = Sample(r, taken'[r])]
        /\ batch' = [batch EXCEPT ![r] = [s EXCEPT !.len = @ + 1]]
    BY DEF Appended
  <2>2. [s EXCEPT !.len = @ + 1] = slice
    OBVIOUS
  <2>3. taken'[r] = k
    BY <1>0, <2>1 DEF PoolTypes
  <2>4. QED
    BY <2>1, <2>2, <2>3
<1>2. /\ b \in Addresses /\ n \in 1 .. batchSize /\ k \in Nat /\ taken[r] \in Nat
      /\ slice \in Slice /\ slice.buf = b /\ slice.len = n
      /\ Sample(r, k) \in PoolRecorders \X Nat
  <2>1. b \in Addresses /\ taken[r] \in Nat /\ k \in Nat
    BY <1>0 DEF PoolTypes
  <2>2. n \in 1 .. batchSize
    BY PoolNumbers
  <2>3. slice \in Slice /\ slice.buf = b /\ slice.len = n
    BY <2>1, <2>2 DEF Slice
  <2>4. QED
    BY <2>1, <2>2, <2>3 DEF Sample
<1>3. /\ batch'[r] = slice /\ \A x \in PoolRecorders : x # r => batch'[x] = batch[x]
      /\ taken'[r] = k /\ \A x \in PoolRecorders : x # r => taken'[x] = taken[x]
      /\ \A x \in PoolRecorders : batch'[x] \in Slice \cup {nil}
      /\ batch' \in [PoolRecorders -> Slice \cup {nil}] /\ taken' \in [PoolRecorders -> Nat]
  BY <1>0, <1>1, <1>2 DEF PoolTypes
<1>4. /\ mem' \in [Addresses -> [1 .. batchSize -> {nil} \cup (PoolRecorders \X Nat)]]
      /\ \A a \in Addresses : a # b => mem'[a] = mem[a]
      /\ mem'[b][n] = Sample(r, k)
      /\ \A i \in 1 .. batchSize : i # n => mem'[b][i] = mem[b][i]
  BY <1>0, <1>1, <1>2 DEF PoolTypes
<1>m. ASSUME NEW t \in Slice \cup {nil}, t.buf # b, NEW x, NEW j, Holds(mem, t, x, j)
      PROVE  Holds(mem', t, x, j)
  BY <1>4, <1>m, PoolNumbers DEF Holds
<1>l. s.len \in Nat /\ n = s.len + 1 /\ s.len = batch[r].len /\ k = taken[r] + 1
  OBVIOUS
<1>h. Holds(mem', slice, r, k - n)
  <2>1. ASSUME NEW i \in 1 .. n PROVE mem'[b][i] = Sample(r, (k - n) + i)
    <3>1. CASE i = n
      <4>1. (k - n) + i = k
        BY <1>2, <3>1
      <4>2. QED
        BY <1>4, <3>1, <4>1
    <3>2. CASE i # n
      <4>1. i \in 1 .. s.len /\ i \in 1 .. batchSize
        BY <1>2, <1>l, <3>2, PoolNumbers
      <4>2. mem[b][i] = Sample(r, (taken[r] - s.len) + i)
        BY <4>1 DEF Holds
      <4>3. (taken[r] - s.len) + i = (k - n) + i
        BY <1>2, <1>l, <4>1
      <4>4. QED
        BY <1>4, <3>2, <4>1, <4>2, <4>3
    <3>3. QED
      BY <3>1, <3>2
  <2>2. QED
    BY <1>2, <2>1 DEF Holds
<1> HIDE DEF b, n, k, slice
<1>5. PoolTypes'
  <2>1. pool' \in SUBSET Addresses
    BY <1>0 DEF PoolTypes
  <2>2. QED
    BY <1>0, <1>3, <1>4, <2>1 DEF PoolTypes
<1>6. OwnerInv'
  <2>1. \A x \in PoolRecorders : batch'[x].buf = IF x = r THEN b ELSE batch[x].buf
    BY <1>2, <1>3
  <2>2. b # 0 /\ b = s.buf
    BY <1>2, PoolNumbers DEF b
  <2>3. QED
    BY <1>0, <2>1, <2>2 DEF OwnerInv
<1>7. SpaceInv'
  <2>1. Used' \ {0} \subseteq (Used \ {0}) \cup {b}
    <3>1. \A x \in PoolRecorders : batch'[x].buf = IF x = r THEN b ELSE batch[x].buf
      BY <1>2, <1>3
    <3>2. QED
      BY <3>1 DEF Used, Sent
  <2>2. /\ Cardinality(Used' \ {0}) <= Cardinality(Used \ {0}) + 1
        /\ Cardinality(Used' \ {0}) \in Nat
    <3>1. IsFiniteSet(Used \ {0}) /\ Cardinality(Used \ {0}) \in Nat
      BY <1>0, InUse
    <3>2. /\ IsFiniteSet((Used \ {0}) \cup {b})
          /\ Cardinality((Used \ {0}) \cup {b}) <= Cardinality(Used \ {0}) + 1
          /\ Cardinality((Used \ {0}) \cup {b}) \in Nat
      <4>1. IsFiniteSet((Used \ {0}) \cup {b})
        BY <3>1, FS_AddElement
      <4>2. \/ Cardinality((Used \ {0}) \cup {b}) = Cardinality(Used \ {0}) + 1
            \/ Cardinality((Used \ {0}) \cup {b}) = Cardinality(Used \ {0})
        BY <3>1, FS_AddElement
      <4>3. QED
        BY <3>1, <4>1, <4>2
    <3>3. /\ Cardinality(Used' \ {0}) <= Cardinality((Used \ {0}) \cup {b})
          /\ Cardinality(Used' \ {0}) \in Nat
      BY <2>1, <3>2, FS_Subset, FS_CardinalityType
    <3>4. QED
      BY <3>1, <3>2, <3>3
  <2>3. SumFunctionOnSet(taken', PoolRecorders)
          = SumFunctionOnSet(taken, PoolRecorders) + (taken'[r] - taken[r])
    <3>1. /\ IsFiniteSet(PoolRecorders) /\ \A x \in PoolRecorders : taken[x] \in Int
          /\ taken'[r] \in Int /\ \A x \in PoolRecorders : x # r => taken'[x] = taken[x]
      BY <1>0, <1>2, <1>3, BatchPoolAssumption DEF PoolTypes
    <3>2. QED
      BY <3>1, SumUpdate
  <2>4. SumFunctionOnSet(taken, PoolRecorders) \in Nat /\ taken'[r] = taken[r] + 1
    BY <1>0, <1>3, <1>l, SumNat, BatchPoolAssumption DEF PoolTypes
  <2>5. Cardinality(Used \ {0}) <= SumFunctionOnSet(taken, PoolRecorders)
    BY <1>0 DEF SpaceInv
  <2>6. Cardinality(Used \ {0}) \in Nat
    BY <1>0, InUse
  <2>7. Cardinality(Used' \ {0}) <= SumFunctionOnSet(taken', PoolRecorders)
    BY <1>2, <2>2, <2>3, <2>4, <2>5, <2>6
  <2>8. QED
    BY <2>7 DEF SpaceInv
<1>8. FlowInv'
  <2>1. ASSUME NEW x \in PoolRecorders
        PROVE  batch'[x].len <= taken'[x] /\ Holds(mem', batch'[x], x, taken'[x] - batch'[x].len)
    <3>1. CASE x = r
      <4>1. batch[r].len <= taken[r]
        BY <1>0 DEF FlowInv
      <4>2. QED
        BY <1>2, <1>3, <1>h, <1>l, <3>1, <4>1
    <3>2. CASE x # r
      <4>1. batch[x] \in Slice \cup {nil} /\ batch[x].buf # b
        BY <1>0, <3>2 DEF PoolTypes, b
      <4>2. Holds(mem, batch[x], x, taken[x] - batch[x].len) /\ batch[x].len <= taken[x]
        BY <1>0 DEF FlowInv
      <4>3. QED
        BY <1>3, <1>m, <3>2, <4>1, <4>2
    <3>3. QED
      BY <3>1, <3>2
  <2>2. PICK f \in [PoolRecorders -> Nat] : Reaches(f) /\ Chain(mem, queue, f, SentOf)
    BY <1>0 DEF FlowInv
  <2>3. SentOf' = SentOf
    <3>1. \A x \in PoolRecorders : taken'[x] - batch'[x].len = taken[x] - batch[x].len
      BY <1>2, <1>3, <1>l
    <3>2. QED
      BY <3>1 DEF SentOf
  <2>4. Chain(mem', queue, f, SentOf)
    <3>1. \A i \in DOMAIN queue : mem'[queue[i].buf] = mem[queue[i].buf]
      BY <1>0, <1>4, PoolNumbers DEF PoolTypes, b
    <3>2. queue \in Seq(Slice)
      BY <1>0 DEF PoolTypes
    <3>3. QED
      BY <2>2, <3>1, <3>2, ChainSame
  <2>5. RecordedOf' = RecordedOf
    BY DEF RecordedOf
  <2>6. Reaches(f)'
    <3>1. agg \in Slice \cup {nil} /\ agg.buf # b
      BY <1>0 DEF PoolTypes, b
    <3>2. QED
      BY <1>m, <2>2, <2>5, <3>1 DEF Reaches
  <2>7. QED
    BY <2>1, <2>2, <2>3, <2>4, <2>6 DEF FlowInv
<1>9. OrderInv'
  BY <1>0 DEF OrderInv
<1>10. QED
  BY <1>5, <1>6, <1>7, <1>8, <1>9 DEF PoolInv

(* What an action keeps when it leaves memory and samples alone and hands  *)
(* on the buffers there are.                                               *)
LEMMA SpaceKept ==
  ASSUME PoolTypes, SpaceInv, Used' \ {0} \subseteq Used \ {0},
         UNCHANGED taken
  PROVE  SpaceInv'
<1>1. /\ Cardinality(Used' \ {0}) <= Cardinality(Used \ {0})
      /\ Cardinality(Used' \ {0}) \in Nat /\ Cardinality(Used \ {0}) \in Nat
  BY InUse, FS_Subset, FS_CardinalityType
<1>2. SumFunctionOnSet(taken, PoolRecorders) \in Nat
  BY SumNat, BatchPoolAssumption DEF PoolTypes
<1>3. Cardinality(Used' \ {0}) <= SumFunctionOnSet(taken, PoolRecorders)
  BY <1>1, <1>2 DEF SpaceInv
<1>4. QED
  BY <1>3 DEF SpaceInv

LEMMA PoolInvInit == PoolInit => PoolInv
<1> SUFFICES ASSUME PoolInit PROVE PoolInv
  OBVIOUS
<1>0. /\ mem = [b \in Addresses |-> [i \in 1 .. batchSize |-> nil]]
      /\ pool = {} /\ batch = [r \in PoolRecorders |-> nil] /\ queue = <<>>
      /\ agg = nil /\ read = 0 /\ taken = [r \in PoolRecorders |-> 0] /\ recorded = <<>>
  BY DEF PoolInit
<1>1. PoolTypes
  BY <1>0, PoolNumbers DEF PoolTypes
<1>2. OwnerInv
  BY <1>0, PoolNumbers DEF OwnerInv
<1>3. SpaceInv
  <2>1. Used \ {0} = {}
    BY <1>0, PoolNumbers DEF Used, Sent
  <2>2. SumFunctionOnSet(taken, PoolRecorders) \in Nat
    BY <1>1, SumNat, BatchPoolAssumption DEF PoolTypes
  <2>3. QED
    BY <2>1, <2>2, FS_EmptySet DEF SpaceInv
<1>4. FlowInv
  <2> DEFINE f == [r \in PoolRecorders |-> 0]
  <2>1. RecordedOf = f
    <3>1. \A r \in PoolRecorders : {j \in DOMAIN recorded : recorded[j][1] = r} = {}
      BY <1>0
    <3>2. QED
      BY <3>1, FS_EmptySet DEF RecordedOf
  <2>2. SentOf = f
    BY <1>0, PoolNumbers DEF SentOf
  <2>3. f \in [PoolRecorders -> Nat]
    OBVIOUS
  <2> HIDE DEF f
  <2>4. Chain(mem, queue, f, SentOf) /\ Reaches(f)
    BY <1>0, <2>1, <2>2, <2>3, ChainEmpty DEF Reaches
  <2>5. \A r \in PoolRecorders : /\ batch[r].len <= taken[r]
                             /\ Holds(mem, batch[r], r, taken[r] - batch[r].len)
    BY <1>0, PoolNumbers DEF Holds
  <2>6. QED
    BY <2>3, <2>4, <2>5 DEF FlowInv
<1>5. OrderInv
  BY <1>0 DEF OrderInv
<1>6. QED
  BY <1>1, <1>2, <1>3, <1>4, <1>5 DEF PoolInv

LEMMA PoolRecord ==
  ASSUME PoolInv, NEW r \in PoolRecorders, record(r)
  PROVE  PoolInv'
<1>0. PoolTypes /\ OwnerInv /\ SpaceInv /\ FlowInv
  BY DEF PoolInv
<1>1. SumFunctionOnSet(taken, PoolRecorders) < MaxSamples
  <2>1. DOMAIN taken = PoolRecorders
    BY <1>0 DEF PoolTypes
  <2>2. QED
    BY <2>1 DEF record, SumFunction
<1>2. batch[r].len < batchSize /\ UNCHANGED <<queue, agg, read, recorded>>
  BY DEF record
<1>3. CASE batch[r] # nil /\ Appended(r, batch[r]) /\ UNCHANGED pool
  <2>1. batch[r] \in Slice
    BY <1>0, <1>3 DEF PoolTypes
  <2>2. /\ batch[r].buf \in Addresses /\ batch[r].len \in Nat /\ batch[r].buf # 0
        /\ batch[r] = [buf |-> batch[r].buf, len |-> batch[r].len]
    BY <2>1, PoolNumbers DEF Slice
  <2>3. Holds(mem, batch[r], r, taken[r] - batch[r].len)
    BY <1>0 DEF FlowInv
  <2>4. /\ pool' = pool \ {batch[r].buf} /\ batch[r].buf # agg.buf
        /\ \A i \in DOMAIN queue : batch[r].buf # queue[i].buf
        /\ \A x \in PoolRecorders : x # r => batch[r].buf # batch[x].buf
    BY <1>0, <1>3, <2>2 DEF OwnerInv
  <2>5. QED
    BY <1>2, <1>3, <2>2, <2>3, <2>4, AppendedSample
<1>4. CASE /\ batch[r] = nil
           /\ \E b \in Addresses : GetBuffer(b) /\ Appended(r, [buf |-> b, len |-> 0])
  <2>1. PICK b \in Addresses : GetBuffer(b) /\ Appended(r, [buf |-> b, len |-> 0])
    BY <1>4
  <2> DEFINE s == [buf |-> b, len |-> 0]
  <2>2. s.buf = b /\ s.len = 0 /\ s = [buf |-> s.buf, len |-> s.len] /\ Appended(r, s)
    BY <2>1
  <2> HIDE DEF s
  <2>3. s.buf \in Addresses /\ s.len \in Nat /\ s.len < batchSize /\ s.len = batch[r].len
    <3>1. s.buf \in Addresses
      BY <2>2
    <3>2. batch[r].len = 0 /\ 0 < batchSize
      BY <1>4, PoolNumbers
    <3>3. QED
      BY <2>2, <3>1, <3>2
  <2>4. Holds(mem, s, r, taken[r] - s.len)
    BY <2>2 DEF Holds
  <2>5. /\ pool' = pool \ {s.buf} /\ s.buf # agg.buf
        /\ \A i \in DOMAIN queue : s.buf # queue[i].buf
        /\ \A x \in PoolRecorders : x # r => s.buf # batch[x].buf
    BY <1>0, <1>1, <2>1, <2>2, GotBuffer
  <2>6. QED
    BY <1>2, <2>2, <2>3, <2>4, <2>5, AppendedSample
<1>5. QED
  BY <1>3, <1>4 DEF record

LEMMA PoolFlush ==
  ASSUME PoolInv, NEW r \in PoolRecorders, flush(r)
  PROVE  PoolInv'
<1> DEFINE s == batch[r]
           n == Len(queue)
<1>0. PoolTypes /\ OwnerInv /\ SpaceInv /\ FlowInv /\ OrderInv
  BY DEF PoolInv
<1>1. /\ s # nil /\ queue' = Append(queue, s) /\ batch' = [batch EXCEPT ![r] = nil]
      /\ UNCHANGED <<mem, pool, agg, read, taken, recorded>>
  BY DEF flush
<1>2. s \in Slice /\ s.buf # 0 /\ s.buf \in Addresses /\ s.len \in Nat
  BY <1>0, <1>1, PoolNumbers DEF PoolTypes
<1>3. /\ n \in Nat /\ DOMAIN queue = 1 .. n /\ DOMAIN queue' = 1 .. (n + 1)
      /\ queue'[n + 1] = s /\ \A i \in 1 .. n : queue'[i] = queue[i]
      /\ \A i \in 1 .. (n + 1) : i = n + 1 \/ i \in 1 .. n
      /\ queue' \in Seq(Slice)
  BY <1>0, <1>1, <1>2 DEF PoolTypes
<1>4. /\ batch'[r] = nil /\ \A x \in PoolRecorders : x # r => batch'[x] = batch[x]
      /\ batch' \in [PoolRecorders -> Slice \cup {nil}]
  BY <1>0, <1>1 DEF PoolTypes
<1> HIDE DEF n
<1>5. PoolTypes'
  BY <1>0, <1>1, <1>3, <1>4 DEF PoolTypes
<1>6. OwnerInv'
  <2>1. /\ \A i \in DOMAIN queue : queue[i].buf # s.buf
        /\ s.buf # agg.buf /\ s.buf \notin pool
        /\ \A x \in PoolRecorders : x # r => s.buf # batch[x].buf
    BY <1>0, <1>2 DEF OwnerInv
  <2>2. \A i, j \in 1 .. (n + 1) : queue'[i].buf = queue'[j].buf => i = j
    BY <1>0, <1>3, <2>1 DEF OwnerInv
  <2>3. \A i \in 1 .. (n + 1) :
          /\ queue'[i].buf # agg.buf /\ queue'[i].buf \notin pool
          /\ \A x \in PoolRecorders : queue'[i].buf # batch'[x].buf
    <3>1. ASSUME NEW i \in 1 .. n
          PROVE  /\ queue'[i].buf # agg.buf /\ queue'[i].buf \notin pool
                 /\ \A x \in PoolRecorders : queue'[i].buf # batch'[x].buf
      <4>1. queue'[i] = queue[i] /\ queue[i] \in Slice /\ queue[i].buf # 0
        <5>1. queue \in Seq(Slice) /\ i \in DOMAIN queue
          BY <1>0, <1>3 DEF PoolTypes
        <5>2. queue[i] \in Slice
          BY <5>1
        <5>3. QED
          BY <1>3, <5>2, PoolNumbers
      <4>2. /\ queue[i].buf # agg.buf /\ queue[i].buf \notin pool
            /\ \A x \in PoolRecorders : queue[i].buf # batch[x].buf
        <5>1. i \in DOMAIN queue
          BY <1>0, <1>3 DEF PoolTypes
        <5>2. QED
          BY <1>0, <5>1 DEF OwnerInv
      <4>3. \A x \in PoolRecorders : batch'[x] = batch[x] \/ batch'[x].buf = 0
        BY <1>4, PoolNumbers
      <4>4. QED
        BY <4>1, <4>2, <4>3
    <3>2. \A x \in PoolRecorders : s.buf # batch'[x].buf
      BY <1>2, <1>4, <2>1, PoolNumbers
    <3>3. QED
      BY <1>3, <2>1, <3>1, <3>2
  <2>4. /\ \A x, y \in PoolRecorders : batch'[x].buf = batch'[y].buf /\ batch'[x].buf # 0 => x = y
        /\ \A x \in PoolRecorders : /\ batch'[x].buf = agg.buf => agg.buf = 0
                                /\ batch'[x].buf \notin pool
    BY <1>0, <1>4, PoolNumbers DEF OwnerInv
  <2>5. QED
    BY <1>0, <1>1, <1>3, <2>2, <2>3, <2>4 DEF OwnerInv
<1>7. SpaceInv'
  <2>1. Used' \ {0} \subseteq Used \ {0}
    <3>1. \A i \in DOMAIN queue' : queue'[i].buf \in Used
      BY <1>3 DEF Used, Sent
    <3>2. \A x \in PoolRecorders : batch'[x].buf \in Used \cup {0}
      BY <1>4, PoolNumbers DEF Used
    <3>3. QED
      BY <1>1, <3>1, <3>2 DEF Used, Sent
  <2>2. QED
    BY <1>0, <1>1, <2>1, SpaceKept
<1>8. FlowInv'
  <2>1. PICK f \in [PoolRecorders -> Nat] : Reaches(f) /\ Chain(mem, queue, f, SentOf)
    BY <1>0 DEF FlowInv
  <2>2. /\ s.len <= taken[r] /\ taken[r] \in Nat
        /\ SentOf[r] = taken[r] - s.len /\ Holds(mem, s, r, taken[r] - s.len)
    BY <1>0 DEF FlowInv, SentOf, PoolTypes
  <2>3. SentOf' = [SentOf EXCEPT ![r] = @ + s.len]
    <3>1. taken'[r] - batch'[r].len = SentOf[r] + s.len
      BY <1>1, <1>2, <1>4, <2>2, PoolNumbers
    <3>2. \A x \in PoolRecorders : x # r => taken'[x] - batch'[x].len = SentOf[x]
      BY <1>1, <1>4 DEF SentOf
    <3>3. QED
      BY <3>1, <3>2 DEF SentOf
  <2>4. Chain(mem, queue', f, SentOf')
    <3>1. queue \in Seq(Slice)
      BY <1>0 DEF PoolTypes
    <3>2. QED
      BY <1>1, <1>2, <2>1, <2>2, <2>3, <3>1, ChainAppend
  <2>5. Reaches(f)'
    BY <1>1, <2>1 DEF Reaches, RecordedOf
  <2>6. ASSUME NEW x \in PoolRecorders
        PROVE  batch'[x].len <= taken[x] /\ Holds(mem, batch'[x], x, taken[x] - batch'[x].len)
    <3>1. CASE x = r
      <4>1. batch'[x].len = 0
        BY <1>4, <3>1, PoolNumbers
      <4>2. QED
        BY <2>2, <3>1, <4>1 DEF Holds
    <3>2. CASE x # r
      BY <1>0, <1>4, <3>2 DEF FlowInv
    <3>3. QED
      BY <3>1, <3>2
  <2>7. QED
    BY <1>1, <2>1, <2>4, <2>5, <2>6 DEF FlowInv
<1>9. OrderInv'
  BY <1>0, <1>1 DEF OrderInv
<1>10. QED
  BY <1>5, <1>6, <1>7, <1>8, <1>9 DEF PoolInv

LEMMA PoolReceive ==
  ASSUME PoolInv, Receive
  PROVE  PoolInv'
<1> DEFINE s == Head(queue)
           n == Len(queue) - 1
<1>0. PoolTypes /\ OwnerInv /\ SpaceInv /\ FlowInv /\ OrderInv
  BY DEF PoolInv
<1>1. /\ agg = nil /\ queue # <<>> /\ agg' = s /\ read' = 0 /\ queue' = Tail(queue)
      /\ UNCHANGED <<mem, pool, batch, taken, recorded>>
  BY DEF Receive
<1>2. /\ queue \in Seq(Slice) /\ queue' \in Seq(Slice) /\ s \in Slice
      /\ n \in Nat /\ DOMAIN queue = 1 .. (n + 1) /\ DOMAIN queue' = 1 .. n
      /\ s = queue[1] /\ \A i \in 1 .. n : queue'[i] = queue[i + 1]
      /\ 1 \in 1 .. (n + 1)
  BY <1>0, <1>1 DEF PoolTypes
<1>3. /\ \A i \in 1 .. n : i + 1 \in 1 .. (n + 1) /\ i + 1 # 1
      /\ s.buf \in Addresses /\ s.buf # 0 /\ s.len \in Nat /\ s # nil
  BY <1>2, PoolNumbers
<1> HIDE DEF s, n
<1>4. PoolTypes'
  <2>1. read' \in 0 .. agg'.len
    BY <1>1, <1>3
  <2>2. QED
    BY <1>0, <1>1, <1>2, <2>1 DEF PoolTypes
<1>5. OwnerInv'
  <2>1. \A i, j \in 1 .. n : queue'[i].buf = queue'[j].buf => i = j
    <3>1. ASSUME NEW i \in 1 .. n, NEW j \in 1 .. n, queue'[i].buf = queue'[j].buf PROVE i = j
      <4>1. i + 1 \in DOMAIN queue /\ j + 1 \in DOMAIN queue
        BY <1>2, <1>3
      <4>2. queue[i + 1].buf = queue[j + 1].buf
        BY <1>2, <3>1
      <4>3. i + 1 = j + 1
        BY <1>0, <4>1, <4>2 DEF OwnerInv
      <4>4. QED
        BY <4>3
    <3>2. QED
      BY <3>1
  <2>2. \A i \in 1 .. n : /\ queue'[i].buf # s.buf /\ queue'[i].buf \notin pool
                          /\ \A x \in PoolRecorders : queue'[i].buf # batch[x].buf
    <3>1. ASSUME NEW i \in 1 .. n
          PROVE  /\ queue'[i].buf # s.buf /\ queue'[i].buf \notin pool
                 /\ \A x \in PoolRecorders : queue'[i].buf # batch[x].buf
      <4>1. i + 1 \in DOMAIN queue /\ 1 \in DOMAIN queue /\ i + 1 # 1
        BY <1>2, <1>3
      <4>2. queue'[i].buf = queue[i + 1].buf /\ s.buf = queue[1].buf
        BY <1>2
      <4>3. queue[i + 1].buf # queue[1].buf
        BY <1>0, <4>1 DEF OwnerInv
      <4>4. /\ queue[i + 1].buf \notin pool
            /\ \A x \in PoolRecorders : queue[i + 1].buf # batch[x].buf
        BY <1>0, <4>1 DEF OwnerInv
      <4>5. QED
        BY <4>2, <4>3, <4>4
    <3>2. QED
      BY <3>1
  <2>3. s.buf \notin pool /\ \A x \in PoolRecorders : batch[x].buf # s.buf
    BY <1>0, <1>2 DEF OwnerInv
  <2>4. QED
    BY <1>0, <1>1, <1>2, <2>1, <2>2, <2>3 DEF OwnerInv
<1>6. SpaceInv'
  <2>1. Used' \ {0} \subseteq Used \ {0}
    <3>1. \A i \in DOMAIN queue' : queue'[i].buf \in Used
      BY <1>2, <1>3 DEF Used, Sent
    <3>2. agg'.buf \in Used
      BY <1>1, <1>2 DEF Used, Sent
    <3>3. QED
      BY <1>1, <3>1, <3>2 DEF Used, Sent
  <2>2. QED
    BY <1>0, <1>1, <2>1, SpaceKept
<1>7. FlowInv'
  <2>1. PICK f \in [PoolRecorders -> Nat] : Reaches(f) /\ Chain(mem, queue, f, SentOf)
    BY <1>0 DEF FlowInv
  <2>2. f = RecordedOf
    BY <1>1, <2>1 DEF Reaches
  <2>3. PICK r \in PoolRecorders :
          /\ Holds(mem, s, r, f[r])
          /\ [f EXCEPT ![r] = @ + s.len] \in [PoolRecorders -> Nat]
          /\ Chain(mem, Tail(queue), [f EXCEPT ![r] = @ + s.len], SentOf)
    BY <1>1, <1>2, <2>1, ChainTail DEF s
  <2>4. PICK g \in [PoolRecorders -> Nat] : g = [f EXCEPT ![r] = @ + s.len]
    BY <2>3
  <2>5. Reaches(g)'
    <3>1. RecordedOf' = RecordedOf
      BY <1>1 DEF RecordedOf
    <3>2. f[r] \in Nat /\ f[r] - 0 = f[r] /\ s.len - 0 = s.len /\ 0 <= f[r]
      BY <1>3, <2>1
    <3>3. g = [f EXCEPT ![r] = @ + (s.len - 0)]
      BY <2>4, <3>2
    <3>4. \E x \in PoolRecorders :
            /\ 0 <= f[x] /\ Holds(mem, s, x, f[x] - 0)
            /\ g = [f EXCEPT ![x] = @ + (s.len - 0)]
      BY <2>3, <3>2, <3>3
    <3>5. agg' = s /\ read' = 0 /\ mem' = mem /\ RecordedOf' = f
      BY <1>1, <2>2, <3>1
    <3>6. QED
      BY <1>3, <3>4, <3>5 DEF Reaches
  <2>6. Chain(mem', queue', g, SentOf')
    <3>1. SentOf' = SentOf
      BY <1>1 DEF SentOf
    <3>2. QED
      BY <1>1, <2>3, <2>4, <3>1
  <2>7. \A x \in PoolRecorders :
          batch[x].len <= taken[x] /\ Holds(mem, batch[x], x, taken[x] - batch[x].len)
    BY <1>0 DEF FlowInv
  <2>8. QED
    BY <1>1, <2>5, <2>6, <2>7 DEF FlowInv
<1>8. OrderInv'
  BY <1>0, <1>1 DEF OrderInv
<1>9. QED
  BY <1>4, <1>5, <1>6, <1>7, <1>8 DEF PoolInv

(* One more element of a sequence in a count. *)
LEMMA CountAppend ==
  ASSUME NEW q \in Seq(PoolRecorders \X Nat), NEW e \in PoolRecorders \X Nat, NEW r
  PROVE  /\ Cardinality({j \in DOMAIN q : q[j][1] = r}) \in Nat
         /\ Cardinality({j \in DOMAIN Append(q, e) : Append(q, e)[j][1] = r})
              = Cardinality({j \in DOMAIN q : q[j][1] = r}) + IF e[1] = r THEN 1 ELSE 0
<1> DEFINE n == Len(q)
           t == Append(q, e)
           A == {j \in 1 .. n : q[j][1] = r}
           B == {j \in 1 .. (n + 1) : t[j][1] = r}
<1>1. /\ n \in Nat /\ DOMAIN q = 1 .. n /\ DOMAIN t = 1 .. (n + 1)
      /\ t[n + 1] = e /\ \A i \in 1 .. n : t[i] = q[i]
  OBVIOUS
<1> HIDE DEF n, t
<1>2. IsFiniteSet(A) /\ Cardinality(A) \in Nat
  <2>1. IsFiniteSet(1 .. n) /\ A \subseteq 1 .. n
    BY <1>1, FS_Interval
  <2>2. QED
    BY <2>1, FS_Subset, FS_CardinalityType
<1>3. CASE e[1] = r
  <2>1. B = A \cup {n + 1} /\ n + 1 \notin A
    BY <1>1, <1>3
  <2> HIDE DEF A, B
  <2>2. Cardinality(B) = Cardinality(A) + 1
    BY <1>2, <2>1, FS_AddElement
  <2>3. QED
    BY <1>1, <1>2, <1>3, <2>2 DEF A, B, t
<1>4. CASE e[1] # r
  <2>1. B = A
    <3>1. \A j \in 1 .. (n + 1) : j \in 1 .. n \/ (j = n + 1 /\ t[j][1] # r)
      BY <1>1, <1>4
    <3>2. \A j \in 1 .. n : j \in 1 .. (n + 1)
      BY <1>1
    <3>3. QED
      BY <1>1, <3>1, <3>2
  <2> HIDE DEF A, B
  <2>2. Cardinality(B) = Cardinality(A) + 0
    BY <1>2, <2>1
  <2>3. QED
    BY <1>1, <1>2, <1>4, <2>2 DEF A, B, t
<1>5. QED
  BY <1>3, <1>4

LEMMA PoolRecordOne ==
  ASSUME PoolInv, RecordOne
  PROVE  PoolInv'
<1> DEFINE e == mem[agg.buf][read + 1]
           n == Len(recorded)
<1>0. PoolTypes /\ OwnerInv /\ SpaceInv /\ FlowInv /\ OrderInv
  BY DEF PoolInv
<1>1. /\ read < agg.len /\ recorded' = Append(recorded, e) /\ read' = read + 1
      /\ UNCHANGED <<mem, pool, batch, queue, agg, taken>>
  BY DEF RecordOne
<1>2. /\ agg \in Slice /\ agg # nil /\ read \in Nat /\ agg.len \in Nat
      /\ read + 1 \in 0 .. agg.len /\ read + 1 \in 1 .. agg.len
  BY <1>0, <1>1, PoolNumbers DEF PoolTypes
<1>3. PICK f \in [PoolRecorders -> Nat] : Reaches(f) /\ Chain(mem, queue, f, SentOf)
  BY <1>0 DEF FlowInv
<1>4. PICK r \in PoolRecorders :
        /\ read <= RecordedOf[r] /\ Holds(mem, agg, r, RecordedOf[r] - read)
        /\ f = [RecordedOf EXCEPT ![r] = @ + (agg.len - read)]
  BY <1>2, <1>3 DEF Reaches
<1>5. \A x \in PoolRecorders : RecordedOf[x] \in Nat
  <2>1. ASSUME NEW x \in PoolRecorders
        PROVE  Cardinality({j \in DOMAIN recorded : recorded[j][1] = x}) \in Nat
    <3>1. recorded \in Seq(PoolRecorders \X Nat) /\ <<x, 0>> \in PoolRecorders \X Nat
      BY <1>0 DEF PoolTypes
    <3>2. QED
      BY <3>1, CountAppend
  <2>2. QED
    BY <2>1 DEF RecordedOf
<1> DEFINE k == RecordedOf[r]
<1>6. e = Sample(r, k + 1) /\ e \in PoolRecorders \X Nat /\ e[1] = r /\ k \in Nat
  <2>1. (k - read) + (read + 1) = k + 1 /\ k \in Nat
    BY <1>2, <1>5
  <2>2. e = Sample(r, (k - read) + (read + 1))
    BY <1>2, <1>4 DEF Holds
  <2>3. e = Sample(r, k + 1)
    BY <2>1, <2>2
  <2>4. QED
    BY <2>1, <2>3 DEF Sample
<1> HIDE DEF e, k
<1>7. /\ recorded \in Seq(PoolRecorders \X Nat) /\ recorded' \in Seq(PoolRecorders \X Nat)
      /\ n \in Nat /\ DOMAIN recorded = 1 .. n /\ DOMAIN recorded' = 1 .. (n + 1)
      /\ recorded'[n + 1] = e /\ \A i \in 1 .. n : recorded'[i] = recorded[i]
  BY <1>0, <1>1, <1>6 DEF PoolTypes
<1> HIDE DEF n
<1>8. RecordedOf' = [RecordedOf EXCEPT ![r] = k + 1]
  <2>1. ASSUME NEW x \in PoolRecorders
        PROVE  Cardinality({j \in DOMAIN recorded' : recorded'[j][1] = x})
                 = RecordedOf[x] + IF x = r THEN 1 ELSE 0
    <3>1. Cardinality({j \in DOMAIN Append(recorded, e) : Append(recorded, e)[j][1] = x})
            = Cardinality({j \in DOMAIN recorded : recorded[j][1] = x})
              + IF e[1] = x THEN 1 ELSE 0
      <4>1. recorded \in Seq(PoolRecorders \X Nat) /\ e \in PoolRecorders \X Nat
        BY <1>6, <1>7
      <4>2. QED
        BY <4>1, CountAppend, Zenon
    <3>2. RecordedOf[x] = Cardinality({j \in DOMAIN recorded : recorded[j][1] = x})
      BY DEF RecordedOf
    <3>3. e[1] = x <=> x = r
      BY <1>6
    <3>4. QED
      BY <1>1, <3>1, <3>2, <3>3
  <2>2. RecordedOf' = [x \in PoolRecorders |-> RecordedOf[x] + IF x = r THEN 1 ELSE 0]
    BY <2>1 DEF RecordedOf
  <2>3. DOMAIN RecordedOf = PoolRecorders
    BY DEF RecordedOf
  <2>4. \A x \in PoolRecorders :
          RecordedOf[x] + (IF x = r THEN 1 ELSE 0) = IF x = r THEN k + 1 ELSE RecordedOf[x]
    BY <1>5 DEF k
  <2>5. QED
    BY <2>2, <2>3, <2>4
<1>9. PoolTypes'
  BY <1>0, <1>1, <1>2, <1>7 DEF PoolTypes
<1>10. OwnerInv'
  BY <1>0, <1>1 DEF OwnerInv
<1>11. SpaceInv'
  BY <1>0, <1>1 DEF SpaceInv, Used, Sent
<1>12. FlowInv'
  <2>1. Reaches(f)'
    <3>1. RecordedOf'[r] = k + 1 /\ DOMAIN RecordedOf = PoolRecorders
      BY <1>8 DEF RecordedOf
    <3>2. /\ read + 1 <= k + 1 /\ (k + 1) - (read + 1) = k - read
          /\ (k + 1) + (agg.len - (read + 1)) = k + (agg.len - read)
      BY <1>2, <1>4, <1>6 DEF k
    <3>3. f = [RecordedOf' EXCEPT ![r] = @ + (agg.len - (read + 1))]
      <4>1. f = [RecordedOf EXCEPT ![r] = k + (agg.len - read)]
        BY <1>4 DEF k
      <4>2. QED
        BY <1>8, <3>1, <3>2, <4>1
    <3>4. Holds(mem, agg, r, (k + 1) - (read + 1))
      BY <1>4, <3>2 DEF k
    <3>5. QED
      BY <1>1, <1>2, <3>1, <3>2, <3>3, <3>4 DEF Reaches
  <2>2. Chain(mem, queue, f, SentOf)'
    BY <1>1, <1>3 DEF SentOf
  <2>3. \A x \in PoolRecorders :
          batch[x].len <= taken[x] /\ Holds(mem, batch[x], x, taken[x] - batch[x].len)
    BY <1>0 DEF FlowInv
  <2>4. QED
    BY <1>1, <2>1, <2>2, <2>3 DEF FlowInv
<1>13. OrderInv'
  <2>1. ASSUME NEW i \in 1 .. n
        PROVE  \E x \in PoolRecorders :
                 recorded'[i] = Sample(x, Cardinality({j \in 1 .. i : recorded'[j][1] = x}))
    <3>1. \A x : {j \in 1 .. i : recorded'[j][1] = x} = {j \in 1 .. i : recorded[j][1] = x}
      <4>1. \A j \in 1 .. i : j \in 1 .. n
        BY <1>7
      <4>2. \A j \in 1 .. i : recorded'[j] = recorded[j]
        BY <1>7, <4>1
      <4>3. QED
        BY <4>2
    <3>2. PICK x \in PoolRecorders :
            recorded[i] = Sample(x, Cardinality({j \in 1 .. i : recorded[j][1] = x}))
      BY <1>0, <1>7 DEF OrderInv
    <3>3. QED
      BY <1>7, <3>1, <3>2
  <2>2. recorded'[n + 1]
          = Sample(r, Cardinality({j \in 1 .. (n + 1) : recorded'[j][1] = r}))
    <3>1. RecordedOf'[r] = k + 1
      BY <1>8 DEF RecordedOf
    <3>2. Cardinality({j \in DOMAIN recorded' : recorded'[j][1] = r}) = k + 1
      BY <3>1 DEF RecordedOf
    <3>3. QED
      BY <1>6, <1>7, <3>2
  <2>3. \A i \in 1 .. (n + 1) : i = n + 1 \/ i \in 1 .. n
    BY <1>7
  <2>4. QED
    BY <1>7, <2>1, <2>2, <2>3 DEF OrderInv
<1>14. QED
  BY <1>9, <1>10, <1>11, <1>12, <1>13 DEF PoolInv

LEMMA PoolPutBack ==
  ASSUME PoolInv, PutBack
  PROVE  PoolInv'
<1>0. PoolTypes /\ OwnerInv /\ SpaceInv /\ FlowInv /\ OrderInv
  BY DEF PoolInv
<1>1. /\ agg # nil /\ read = agg.len /\ pool' = pool \cup {agg.buf}
      /\ agg' = nil /\ read' = 0
      /\ UNCHANGED <<mem, batch, queue, taken, recorded>>
  BY DEF PutBack, Put
<1>2. agg \in Slice /\ agg.buf \in Addresses /\ agg.buf # 0 /\ agg.len \in Nat
  <2>1. agg \in Slice
    BY <1>0, <1>1 DEF PoolTypes
  <2>2. QED
    BY <2>1, PoolNumbers
<1>3. PoolTypes'
  <2>1. pool' \in SUBSET Addresses
    BY <1>0, <1>1, <1>2 DEF PoolTypes
  <2>2. agg' \in Slice \cup {nil} /\ read' \in 0 .. agg'.len
    BY <1>1, PoolNumbers
  <2>3. QED
    BY <1>0, <1>1, <2>1, <2>2 DEF PoolTypes
<1>4. OwnerInv'
  <2>1. \A i \in DOMAIN queue : queue[i].buf # 0
    <3>1. \A i \in DOMAIN queue : queue[i] \in Slice
      BY <1>0 DEF PoolTypes
    <3>2. QED
      BY <3>1, PoolNumbers
  <2>2. QED
    BY <1>0, <1>1, <1>2, <2>1, PoolNumbers DEF OwnerInv
<1>5. SpaceInv'
  <2>1. Used' \ {0} \subseteq Used \ {0}
    BY <1>1, PoolNumbers DEF Used, Sent
  <2>2. QED
    BY <1>0, <1>1, <2>1, SpaceKept
<1>6. FlowInv'
  <2>1. PICK f \in [PoolRecorders -> Nat] : Reaches(f) /\ Chain(mem, queue, f, SentOf)
    BY <1>0 DEF FlowInv
  <2>2. PICK r \in PoolRecorders : f = [RecordedOf EXCEPT ![r] = @ + (agg.len - read)]
    BY <1>1, <2>1 DEF Reaches
  <2>3. f = RecordedOf
    <3>1. DOMAIN RecordedOf = PoolRecorders
      BY DEF RecordedOf
    <3>2. f[r] = RecordedOf[r] + (agg.len - read) /\ f[r] \in Nat
      BY <2>1, <2>2, <3>1
    <3>3. RecordedOf[r] \in Nat
      <4>1. recorded \in Seq(PoolRecorders \X Nat) /\ <<r, 0>> \in PoolRecorders \X Nat
        BY <1>0 DEF PoolTypes
      <4>2. Cardinality({j \in DOMAIN recorded : recorded[j][1] = r}) \in Nat
        BY <4>1, CountAppend
      <4>3. QED
        BY <4>2 DEF RecordedOf
    <3>4. RecordedOf[r] + (agg.len - read) = RecordedOf[r]
      BY <1>1, <1>2, <3>3
    <3>5. QED
      BY <2>2, <3>1, <3>4
  <2>4. Reaches(f)'
    BY <1>1, <2>3 DEF Reaches, RecordedOf
  <2>5. Chain(mem, queue, f, SentOf)'
    BY <1>1, <2>1 DEF SentOf
  <2>6. \A x \in PoolRecorders :
          batch[x].len <= taken[x] /\ Holds(mem, batch[x], x, taken[x] - batch[x].len)
    BY <1>0 DEF FlowInv
  <2>7. QED
    BY <1>1, <2>1, <2>4, <2>5, <2>6 DEF FlowInv
<1>7. OrderInv'
  BY <1>0, <1>1 DEF OrderInv
<1>8. QED
  BY <1>3, <1>4, <1>5, <1>6, <1>7 DEF PoolInv

LEMMA PoolRest ==
  ASSUME PoolInv,
         UNCHANGED poolVars \/ \E b \in Addresses : Drop(b)
  PROVE  PoolInv'
<1>0. PoolTypes /\ OwnerInv /\ SpaceInv /\ FlowInv /\ OrderInv
  BY DEF PoolInv
<1>1. pool' \subseteq pool /\ UNCHANGED <<mem, batch, queue, agg, read, taken, recorded>>
  BY DEF poolVars, Drop
<1>2. PoolTypes'
  BY <1>0, <1>1 DEF PoolTypes
<1>3. OwnerInv'
  BY <1>0, <1>1 DEF OwnerInv
<1>4. SpaceInv'
  <2>1. Used' \ {0} \subseteq Used \ {0}
    BY <1>1 DEF Used, Sent
  <2>2. QED
    BY <1>0, <1>1, <2>1, SpaceKept
<1>5. FlowInv'
  <2>1. PICK f \in [PoolRecorders -> Nat] : Reaches(f) /\ Chain(mem, queue, f, SentOf)
    BY <1>0 DEF FlowInv
  <2>2. RecordedOf' = RecordedOf /\ SentOf' = SentOf
    BY <1>1 DEF RecordedOf, SentOf
  <2>3. Reaches(f)'
    BY <1>1, <2>1, <2>2 DEF Reaches
  <2>4. \A x \in PoolRecorders :
          batch[x].len <= taken[x] /\ Holds(mem, batch[x], x, taken[x] - batch[x].len)
    BY <1>0 DEF FlowInv
  <2>5. QED
    BY <1>1, <2>1, <2>2, <2>3, <2>4 DEF FlowInv
<1>6. OrderInv'
  BY <1>0, <1>1 DEF OrderInv
<1>7. QED
  BY <1>2, <1>3, <1>4, <1>5, <1>6 DEF PoolInv

LEMMA PoolInvNext == PoolInv /\ [PoolNext]_poolVars => PoolInv'
BY PoolRecord, PoolFlush, PoolReceive, PoolRecordOne, PoolPutBack, PoolRest DEF PoolNext

LEMMA OneOwner ==
  ASSUME PoolTypes, OwnerInv, NEW b \in Addresses
  PROVE  Owners(b) <= 1
<1> DEFINE P == {p \in {pool} : b \in p} \cup {r \in PoolRecorders : batch[r].buf = b}
           Q == {i \in DOMAIN queue : queue[i].buf = b}
           A == {s \in {agg} : s.buf = b}
<1>1. Owners(b) = Cardinality(P) + Cardinality(Q) + Cardinality(A)
  BY DEF Owners
<1>2. b # 0
  BY PoolNumbers
<1>3. \A x, y \in P : x = y
  BY <1>2 DEF OwnerInv
<1>4. \A x, y \in Q : x = y
  BY DEF OwnerInv
<1>5. \A x, y \in A : x = y
  OBVIOUS
<1>6. /\ P # {} => Q = {} /\ A = {}
      /\ Q # {} => A = {}
  BY <1>2 DEF OwnerInv
<1> HIDE DEF P, Q, A
<1>7. ASSUME NEW S, \A x, y \in S : x = y
      PROVE  Cardinality(S) \in {0, 1} /\ (S = {} => Cardinality(S) = 0)
  <2>1. CASE S = {}
    BY <2>1, FS_EmptySet
  <2>2. CASE S # {}
    <3>1. PICK x \in S : TRUE
      BY <2>2
    <3>2. S = {x}
      BY <1>7, <3>1
    <3>3. QED
      BY <2>2, <3>2, FS_Singleton
  <2>3. QED
    BY <2>1, <2>2
<1>8. /\ Cardinality(P) \in {0, 1} /\ Cardinality(Q) \in {0, 1} /\ Cardinality(A) \in {0, 1}
      /\ P = {} => Cardinality(P) = 0
      /\ Q = {} => Cardinality(Q) = 0
      /\ A = {} => Cardinality(A) = 0
  BY <1>3, <1>4, <1>5, <1>7
<1>9. QED
  BY <1>1, <1>6, <1>8

(* A buffer has one owner, and the samples of each recorder are recorded   *)
(* once, whole and in order, for any number of recorders and any sizes.    *)
THEOREM SamplesStayIntact == PoolSpec => []SamplesIntact
<1>1. PoolInv => SamplesIntact
  <2> SUFFICES ASSUME PoolInv PROVE SamplesIntact
    OBVIOUS
  <2>1. \A b \in Addresses : Owners(b) <= 1
    BY OneOwner DEF PoolInv
  <2>2. \A i \in DOMAIN recorded : \E r \in PoolRecorders :
          recorded[i] = Sample(r, Cardinality({j \in 1 .. i : recorded[j][1] = r}))
    BY DEF PoolInv, OrderInv
  <2>3. QED
    BY <2>1, <2>2 DEF SamplesIntact
<1>2. PoolInv /\ [PoolNext]_poolVars => PoolInv'
  BY PoolInvNext
<1>3. PoolInit => PoolInv
  BY PoolInvInit
<1>4. QED
  BY <1>1, <1>2, <1>3, PTL DEF PoolSpec

=============================================================================

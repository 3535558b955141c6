------------------------------ MODULE BatchPool ------------------------------
(***************************************************************************)
(* pools.BatchPool and the way of a batch around it: a recorder takes a    *)
(* buffer and fills it, its recordFn sends it to the aggregator, which     *)
(* records what is in it and puts it back.  Async has one recorder,        *)
(* Parallel two that share the pool.  A slice is a buffer and a length;    *)
(* buffers are shared memory, the pool keeps only their addresses.         *)
(***************************************************************************)
EXTENDS Integers, Sequences, FiniteSets, Functions

CONSTANTS
  PoolRecorders,  \* The recorders that share the pool.
  batchSize,      \* p.batchSize; recorders have theirs from it.
  ChanSize,       \* The capacity of the aggregator's channel.
  MaxSamples      \* Bound of the model: so many samples are taken.

ASSUME BatchPoolAssumption ==
  /\ IsFiniteSet(PoolRecorders)
  /\ batchSize \in Nat \ {0} /\ ChanSize \in Nat \ {0}
  /\ MaxSamples \in Nat

VARIABLES
  mem,        \* The samples in each buffer.
  pool,       \* The buffers in p.pool.
  batch,      \* Each recorder's slice; that of buffer 0 is nil.
  queue,      \* The aggregator's channel of slices.
  agg,        \* The slice the aggregator is at,
  read,       \* and how much of it has been recorded.
  taken,      \* History: how many samples each recorder took.
  recorded    \* History: the samples recorded.

poolVars == <<mem, pool, batch, queue, agg, read, taken, recorded>>

-----------------------------------------------------------------------------
(* One buffer for each sample is more than are ever allocated at a time.   *)
Addresses == 1 .. MaxSamples

nil == [buf |-> 0, len |-> 0]

(* A recorder's k-th sample. *)
Sample(r, k) == <<r, k>>

(* The buffers somebody refers to. *)
Sent == {queue[i].buf : i \in DOMAIN queue}
Used == pool \cup Sent \cup {batch[r].buf : r \in PoolRecorders} \cup {agg.buf}

PoolInit ==
  /\ mem = [b \in Addresses |-> [i \in 1 .. batchSize |-> nil]]
  /\ pool = {}
  /\ batch = [r \in PoolRecorders |-> nil]
  /\ queue = <<>>
  /\ agg = nil /\ read = 0
  /\ taken = [r \in PoolRecorders |-> 0]
  /\ recorded = <<>>

-----------------------------------------------------------------------------
(* A buffer of the pool, or, since sync.Pool may come up empty although it *)
(* is not, a new one: memory nobody refers to.                             *)
GetBuffer(b) ==
  \/ b \in pool /\ pool' = pool \ {b}
  \/ b = (CHOOSE a \in Addresses : a \notin Used) /\ UNCHANGED pool

(* Every batch has the capacity Put asks for: Get and make gave it, and a  *)
(* recorder flushes a full batch instead of letting it grow.               *)
Put(b) == pool' = pool \cup {b}

(* sync.Pool drops what it likes when garbage is collected. *)
Drop(b) ==
  /\ b \in pool
  /\ pool' = pool \ {b}
  /\ UNCHANGED <<mem, batch, queue, agg, read, taken, recorded>>

-----------------------------------------------------------------------------
(* append of the next sample to a slice that has room. *)
Appended(r, slice) ==
  /\ taken' = [taken EXCEPT ![r] = @ + 1]
  /\ mem' = [mem EXCEPT ![slice.buf][slice.len + 1] = Sample(r, taken'[r])]
  /\ batch' = [batch EXCEPT ![r] = [slice EXCEPT !.len = @ + 1]]

(* A recorder with a full batch is in flush. *)
record(r) ==
  /\ SumFunction(taken) < MaxSamples
  /\ batch[r].len < batchSize
  /\ \/ batch[r] # nil /\ Appended(r, batch[r]) /\ UNCHANGED pool
     \/ /\ batch[r] = nil
        /\ \E b \in Addresses : GetBuffer(b) /\ Appended(r, [buf |-> b, len |-> 0])
  /\ UNCHANGED <<queue, agg, read, recorded>>

(* When the batch is full, by the timer, or at the end. *)
flush(r) ==
  /\ batch[r] # nil
  /\ Len(queue) < ChanSize
  /\ queue' = Append(queue, batch[r])
  /\ batch' = [batch EXCEPT ![r] = nil]
  /\ UNCHANGED <<mem, pool, agg, read, taken, recorded>>

-----------------------------------------------------------------------------
(* A bug to tell apart: the buffer is put back before it is read. *)
ReceiveAndPut ==
  /\ agg = nil
  /\ queue # <<>>
  /\ agg' = Head(queue) /\ read' = 0
  /\ queue' = Tail(queue)
  /\ Put(Head(queue).buf)
  /\ UNCHANGED <<mem, batch, taken, recorded>>

Receive ==
  /\ agg = nil
  /\ queue # <<>>
  /\ agg' = Head(queue) /\ read' = 0
  /\ queue' = Tail(queue)
  /\ UNCHANGED <<mem, pool, batch, taken, recorded>>

RecordOne ==
  /\ read < agg.len
  /\ recorded' = Append(recorded, mem[agg.buf][read + 1])
  /\ read' = read + 1
  /\ UNCHANGED <<mem, pool, batch, queue, agg, taken>>

PutBack ==
  /\ agg # nil
  /\ read = agg.len
  /\ Put(agg.buf)
  /\ agg' = nil /\ read' = 0
  /\ UNCHANGED <<mem, batch, queue, taken, recorded>>

-----------------------------------------------------------------------------
PoolNext ==
  \/ \E r \in PoolRecorders : record(r) \/ flush(r)
  \/ Receive \/ RecordOne \/ PutBack
  \/ \E b \in Addresses : Drop(b)

PoolSpec == PoolInit /\ [][PoolNext]_poolVars

-----------------------------------------------------------------------------
(***************************************************************************)
(* Properties.                                                             *)
(***************************************************************************)
(* How many hold a buffer: the pool, recorders, the channel, the           *)
(* aggregator.                                                             *)
Owners(b) ==
  Cardinality({p \in {pool} : b \in p} \cup {r \in PoolRecorders : batch[r].buf = b})
  + Cardinality({i \in DOMAIN queue : queue[i].buf = b})
  + Cardinality({s \in {agg} : s.buf = b})

(* A buffer has one owner at a time, through recorder, channel,            *)
(* aggregator and pool, and what the aggregator reads in it is what its    *)
(* recorder wrote: of each recorder every sample once and in order, none   *)
(* overwritten by another that has got the buffer.                         *)
SamplesIntact ==
  /\ \A b \in Addresses : Owners(b) <= 1
  /\ \A i \in DOMAIN recorded : \E r \in PoolRecorders :
       recorded[i] = Sample(r, Cardinality({j \in 1 .. i : recorded[j][1] = r}))

=============================================================================

---------------------- MODULE ParallelCalculatorProofs ----------------------
(***************************************************************************)
(* Theorems about calculators.Parallel for any calls, readers, numbers,    *)
(* queue sizes, batch size and width of the integers.                      *)
(***************************************************************************)
EXTENDS ParallelCalculator, FiniteSums

LEMMA ApplyTyped ==
  ASSUME NEW o \in Op, NEW v \in Int64, NEW n \in Int64
  PROVE  Apply(o, v, n) \in Int64
BY MaxIntAssumption DEF Int64, MinInt, Apply, add, sub, Wrap

(***************************************************************************)
(* What the sends and receives do to the calls in a channel.               *)
(***************************************************************************)
Distinct(q) == \A i, j \in 1 .. Len(q) : q[i] = q[j] => i = j

LEMMA Enqueued ==
  ASSUME NEW q \in Seq(Calls), NEW c \in Calls, Distinct(q), c \notin Range(q)
  PROVE  /\ Append(q, c) \in Seq(Calls) /\ Len(Append(q, c)) = Len(q) + 1
         /\ Append(q, c) # <<>>
         /\ Range(Append(q, c)) = Range(q) \cup {c}
         /\ Distinct(Append(q, c))
<1> DEFINE t == Append(q, c)
<1>1. /\ t \in Seq(Calls) /\ Len(t) = Len(q) + 1 /\ t # <<>> /\ Len(q) \in Nat
      /\ DOMAIN q = 1 .. Len(q) /\ DOMAIN t = 1 .. (Len(q) + 1)
      /\ t[Len(q) + 1] = c /\ \A i \in 1 .. Len(q) : t[i] = q[i]
  OBVIOUS
<1> HIDE DEF t
<1>2. \A i \in 1 .. (Len(q) + 1) : i = Len(q) + 1 \/ i \in 1 .. Len(q)
  BY <1>1
<1>3. Range(t) = Range(q) \cup {c}
  <2>1. \A x \in Range(t) : x \in Range(q) \cup {c}
    BY <1>1, <1>2 DEF Range
  <2>2. c \in Range(t)
    BY <1>1, Len(q) + 1 \in 1 .. (Len(q) + 1) DEF Range
  <2>3. \A x \in Range(q) : x \in Range(t)
    BY <1>1 DEF Range
  <2>4. QED
    BY <2>1, <2>2, <2>3
<1>4. ASSUME NEW i \in 1 .. Len(t), NEW j \in 1 .. Len(t), t[i] = t[j] PROVE i = j
  <2>1. \A k \in 1 .. Len(q) : t[k] # c
    BY <1>1 DEF Range
  <2>2. QED
    BY <1>1, <1>2, <1>4, <2>1 DEF Distinct
<1>5. QED
  BY <1>1, <1>3, <1>4 DEF Distinct, t

LEMMA Dequeued ==
  ASSUME NEW q \in Seq(Calls), q # <<>>, Distinct(q)
  PROVE  /\ Tail(q) \in Seq(Calls) /\ Len(Tail(q)) = Len(q) - 1
         /\ Head(q) \in Range(q) /\ Head(q) \in Calls
         /\ Range(Tail(q)) = Range(q) \ {Head(q)}
         /\ Distinct(Tail(q))
<1> DEFINE t == Tail(q)
           n == Len(q) - 1
<1>1. /\ t \in Seq(Calls) /\ Len(t) = n /\ n \in Nat /\ Len(q) = n + 1
      /\ DOMAIN q = 1 .. (n + 1) /\ DOMAIN t = 1 .. n
      /\ Head(q) = q[1] /\ \A i \in 1 .. n : t[i] = q[i + 1]
  OBVIOUS
<1> HIDE DEF t, n
<1>2. 1 \in 1 .. (n + 1) /\ \A i \in 1 .. n : i + 1 \in 1 .. (n + 1) /\ i + 1 # 1
  BY <1>1
<1>3. Head(q) \in Range(q) /\ Head(q) \in Calls
  BY <1>1, <1>2 DEF Range
<1>4. Range(t) = Range(q) \ {Head(q)}
  <2>1. ASSUME NEW i \in 1 .. n PROVE t[i] \in Range(q) /\ t[i] # Head(q)
    BY <1>1, <1>2 DEF Distinct, Range
  <2>2. ASSUME NEW i \in 1 .. (n + 1), q[i] # Head(q) PROVE q[i] \in Range(t)
    <3>1. i # 1
      BY <1>1, <2>2
    <3>2. i - 1 \in 1 .. n /\ (i - 1) + 1 = i
      BY <1>1, <3>1
    <3>3. t[i - 1] = q[i]
      BY <1>1, <3>2
    <3>4. QED
      BY <1>1, <3>2, <3>3 DEF Range
  <2>3. \A x \in Range(t) : x \in Range(q) \ {Head(q)}
    BY <1>1, <2>1 DEF Range
  <2>4. \A x \in Range(q) \ {Head(q)} : \E i \in 1 .. (n + 1) : x = q[i]
    BY <1>1 DEF Range
  <2>5. \A x \in Range(q) \ {Head(q)} : x \in Range(t)
    BY <2>2, <2>4
  <2>6. QED
    BY <2>3, <2>5
<1>5. ASSUME NEW i \in 1 .. Len(t), NEW j \in 1 .. Len(t), t[i] = t[j] PROVE i = j
  <2>1. q[i + 1] = q[j + 1] /\ i + 1 \in 1 .. Len(q) /\ j + 1 \in 1 .. Len(q)
    BY <1>1, <1>2, <1>5
  <2>2. i + 1 = j + 1
    BY <2>1 DEF Distinct
  <2>3. QED
    BY <1>1, <2>2
<1>6. QED
  BY <1>1, <1>3, <1>4, <1>5 DEF Distinct, t, n

(* Distinct calls: as many as the channel holds.                           *)
LEMMA DistinctCardinality ==
  ASSUME NEW q \in Seq(Calls), Distinct(q)
  PROVE  Cardinality(Range(q)) = Len(q)
<1>1. IsFiniteSet(1 .. Len(q)) /\ Cardinality(1 .. Len(q)) = Len(q)
  <2>1. Len(q) \in Nat
    OBVIOUS
  <2>2. QED
    BY <2>1, FS_Interval
<1>2. q \in Bijection(1 .. Len(q), Range(q))
  BY DEF Bijection, Injection, Surjection, IsInjective, Range, Distinct
<1>3. ExistsBijection(1 .. Len(q), Range(q))
  BY <1>2 DEF ExistsBijection
<1>4. QED
  BY <1>1, <1>3, FS_Bijection

-----------------------------------------------------------------------------
(***************************************************************************)
(* Type correctness.  A batch stays within its size because a server at    *)
(* its select has room for one more sample.                                *)
(***************************************************************************)
TypeInv ==
  /\ TypeOK
  /\ numCh \in [Op -> Seq(Calls)]
  /\ \A o \in Op : pc[o] = "select" => batch[o] < BatchSize

LEMMA TypeInvInit == Init => TypeInv
<1> SUFFICES ASSUME Init PROVE TypeInv
  OBVIOUS
<1>1. 0 \in Int64 /\ 0 \in 0 .. BatchSize /\ 0 < BatchSize /\ queueSize \in Nat
  BY MaxIntAssumption, ParallelAssumption DEF Int64, MinInt, Init
<1>2. \A o \in Op : numCh[o] \in Seq(Calls) /\ Len(numCh[o]) <= queueSize
  BY <1>1 DEF Init
<1>3. QED
  BY <1>1, <1>2 DEF Init, TypeInv, TypeOK, Op

(* What the receive of a number changes.                                   *)
LEMMA RecordTyped ==
  ASSUME TypeInv, NEW o \in Op, NEW c \in Calls, pc[o] = "select",
         CalculateAndRecord(o, c)
  PROVE  /\ val' \in [Op -> Int64]
         /\ applied' \in [Op -> SUBSET Calls]
         /\ batch' \in [Op -> 0 .. BatchSize]
         /\ pc' \in [Op -> {"select", "flush", "exit", "closeValCh", "closeDone", "ended"}]
         /\ \A p \in Op : pc'[p] = "select" => batch'[p] < BatchSize
         /\ pc'[o] \in {"select", "flush"}
         /\ \A p \in Op : p # o => pc'[p] = pc[p]
<1>1. /\ val \in [Op -> Int64] /\ applied \in [Op -> SUBSET Calls]
      /\ batch \in [Op -> 0 .. BatchSize] /\ BatchSize \in Nat /\ batch[o] < BatchSize
      /\ pc \in [Op -> {"select", "flush", "exit", "closeValCh", "closeDone", "ended"}]
      /\ \A p \in Op : pc[p] = "select" => batch[p] < BatchSize
      /\ num[c] \in Int64
  BY ParallelAssumption DEF TypeInv, TypeOK
<1>2. val' \in [Op -> Int64] /\ applied' \in [Op -> SUBSET Calls]
  BY <1>1, ApplyTyped DEF CalculateAndRecord
<1>3. CASE recording
  <2>1. /\ batch' = [batch EXCEPT ![o] = @ + 1]
        /\ pc' = [pc EXCEPT ![o] = IF batch[o] + 1 >= BatchSize THEN "flush" ELSE "select"]
    BY <1>3 DEF CalculateAndRecord
  <2>2. QED
    BY <1>1, <1>2, <2>1
<1>4. CASE ~recording
  <2>1. batch' = batch /\ pc' = pc
    BY <1>4 DEF CalculateAndRecord
  <2>2. QED
    BY <1>1, <1>2, <2>1
<1>5. QED
  BY <1>3, <1>4

LEMMA TypeInvNext == TypeInv /\ [Next]_vars => TypeInv'
<1> SUFFICES ASSUME TypeInv, [Next]_vars PROVE TypeInv'
  OBVIOUS
<1> USE DEF serveVars, chanVars, readVars, confVars
<1>0. queueSize \in Nat /\ 0 \in 0 .. BatchSize /\ 0 < BatchSize /\ 0 \in Int64
  BY ParallelAssumption, MaxIntAssumption DEF TypeInv, TypeOK, Int64, MinInt
<1>1. ASSUME NEW c \in Calls, CallCalculate(c) PROVE TypeInv'
  BY <1>1 DEF CallCalculate, TypeInv, TypeOK, Op
<1>2. ASSUME NEW c \in Calls, NEW o \in Op, Send(o, c) PROVE TypeInv'
  <2>1. /\ numCh' = [numCh EXCEPT ![o] = Append(@, c)] /\ Len(numCh[o]) < queueSize
        /\ call' = [call EXCEPT ![c] = After(o)]
        /\ UNCHANGED <<serveVars, closed, valClosed, done, readVars, confVars, stop>>
    BY <1>2 DEF Send
  <2>2. numCh' \in [Op -> Seq(Calls)]
    BY <2>1 DEF TypeInv
  <2>3. \A p \in Op : numCh'[p] \in Seq(Calls) /\ Len(numCh'[p]) <= queueSize
    BY <1>0, <2>1 DEF TypeInv, TypeOK
  <2>4. call' \in [Calls -> Op \cup {"new", "ok", "overloaded", "panicked"}]
    BY <2>1 DEF TypeInv, TypeOK, After, Op
  <2>5. QED
    BY <2>1, <2>2, <2>3, <2>4 DEF TypeInv, TypeOK
<1>3. ASSUME NEW c \in Calls, NEW o \in Op, Overloaded(o, c) \/ SendPanics(o, c)
      PROVE  TypeInv'
  <2>1. /\ call' = [call EXCEPT ![c] = "overloaded"] \/ call' = [call EXCEPT ![c] = "panicked"]
        /\ UNCHANGED <<serveVars, chanVars, readVars, confVars, stop>>
    BY <1>3 DEF Overloaded, SendPanics
  <2>2. QED
    BY <2>1 DEF TypeInv, TypeOK
<1>4. ASSUME NEW o \in Op, ReceiveBuffered(o) PROVE TypeInv'
  <2>1. /\ numCh' = [numCh EXCEPT ![o] = Tail(@)] /\ numCh[o] # <<>> /\ pc[o] = "select"
        /\ CalculateAndRecord(o, Head(numCh[o]))
        /\ UNCHANGED <<call, closed, valClosed, done, readVars, confVars, stop>>
    BY <1>4 DEF ReceiveBuffered
  <2>2. /\ numCh[o] \in Seq(Calls) /\ Head(numCh[o]) \in Calls
        /\ Tail(numCh[o]) \in Seq(Calls) /\ Len(Tail(numCh[o])) <= Len(numCh[o])
    BY <2>1 DEF TypeInv
  <2>3. \A p \in Op : numCh'[p] \in Seq(Calls) /\ Len(numCh'[p]) <= queueSize
    BY <1>0, <2>1, <2>2 DEF TypeInv, TypeOK
  <2>4. numCh' \in [Op -> Seq(Calls)]
    BY <2>1, <2>2 DEF TypeInv
  <2>5. QED
    BY <2>1, <2>2, <2>3, <2>4, RecordTyped DEF TypeInv, TypeOK
<1>5. ASSUME NEW o \in Op, NEW c \in Calls, ReceiveFromSender(o, c) PROVE TypeInv'
  <2>1. /\ pc[o] = "select" /\ CalculateAndRecord(o, c)
        /\ call' = [call EXCEPT ![c] = After(o)]
        /\ UNCHANGED <<chanVars, readVars, confVars, stop>>
    BY <1>5 DEF ReceiveFromSender
  <2>2. call' \in [Calls -> Op \cup {"new", "ok", "overloaded", "panicked"}]
    BY <2>1 DEF TypeInv, TypeOK, After, Op
  <2>3. QED
    BY <2>1, <2>2, RecordTyped DEF TypeInv, TypeOK
<1>6. ASSUME NEW o \in Op, ReceiveTick(o) \/ ReceiveClosed(o) PROVE TypeInv'
  BY <1>6 DEF ReceiveTick, ReceiveClosed, TypeInv, TypeOK
<1>7. ASSUME NEW o \in Op, Flush(o) PROVE TypeInv'
  BY <1>0, <1>7 DEF Flush, TypeInv, TypeOK
<1>8. ASSUME NEW o \in Op, CloseValCh(o) \/ CloseDone(o) PROVE TypeInv'
  BY <1>8 DEF CloseValCh, CloseDone, TypeInv, TypeOK
<1>9. ASSUME NEW r \in Readers, CallValues(r) PROVE TypeInv'
  BY <1>9 DEF CallValues, TypeInv, TypeOK, Op
<1>10. ASSUME NEW r \in Readers, NEW o \in Op, Value(r, o) PROVE TypeInv'
  BY <1>0, <1>10 DEF Value, TypeInv, TypeOK, Op
<1>11. CASE CallStop \/ SumStopped \/ SubStopped
  BY <1>11 DEF CallStop, SumStopped, SubStopped, TypeInv, TypeOK, Op
<1>12. CASE UNCHANGED vars
  BY <1>12 DEF vars, TypeInv, TypeOK
<1>13. QED
  BY <1>1, <1>2, <1>3, <1>4, <1>5, <1>6, <1>7, <1>8, <1>9, <1>10, <1>11, <1>12
  DEF Next, Calculate, Serve

(* Parallel keeps its types: in particular neither queue exceeds its       *)
(* capacity, nor a batch its size, and both totals remain int64 values.    *)
THEOREM Typing == Spec => []TypeOK
<1>1. TypeInv => TypeOK
  BY DEF TypeInv
<1>2. QED
  BY <1>1, TypeInvInit, TypeInvNext, PTL DEF Spec

-----------------------------------------------------------------------------
(***************************************************************************)
(* How the servers end.  A graceful server stops the calculator behind its *)
(* last handler, so that no send meets a closed channel.                   *)
(***************************************************************************)
ControlInv ==
  /\ \A o \in Op : /\ pc[o] \in {"exit", "closeValCh", "closeDone", "ended"}
                        => closed[o] /\ numCh[o] = <<>>
                   /\ done[o] <=> pc[o] = "ended"
  /\ closed["sum"] <=> stop # "no"
  /\ closed["sub"] <=> stop \in {"sub", "returned"}
  /\ stop \in {"sub", "returned"} => done["sum"]
  /\ stop = "returned" => done["sub"]
  /\ graceful /\ stop # "no" => \A c \in Calls : call[c] \notin Op
  /\ graceful => \A c \in Calls : call[c] # "panicked"

LEMMA ControlInvInit == Init => ControlInv
BY DEF Init, ControlInv, Op

LEMMA ControlInvNext == TypeInv /\ ControlInv /\ [Next]_vars => ControlInv'
<1> SUFFICES ASSUME TypeInv, ControlInv, [Next]_vars PROVE ControlInv'
  OBVIOUS
<1> USE DEF serveVars, chanVars, readVars, confVars
<1>0. /\ pc \in [Op -> {"select", "flush", "exit", "closeValCh", "closeDone", "ended"}]
      /\ call \in [Calls -> Op \cup {"new", "ok", "overloaded", "panicked"}]
      /\ numCh \in [Op -> Seq(Calls)] /\ closed \in [Op -> BOOLEAN]
      /\ done \in [Op -> BOOLEAN] /\ stop \in Op \cup {"no", "returned"}
      /\ "sum" \in Op /\ "sub" \in Op
      /\ \A o \in Op : closed[o] => stop # "no"
  BY DEF TypeInv, TypeOK, Op, ControlInv
<1>1. ASSUME NEW c \in Calls, CallCalculate(c) PROVE ControlInv'
  BY <1>0, <1>1 DEF CallCalculate, ControlInv
<1>2. ASSUME NEW c \in Calls, NEW o \in Op, Send(o, c) PROVE ControlInv'
  <2>1. /\ call[c] \in Op /\ ~closed[o]
        /\ numCh' = [numCh EXCEPT ![o] = Append(@, c)]
        /\ call' = [call EXCEPT ![c] = After(o)]
        /\ UNCHANGED <<serveVars, closed, valClosed, done, readVars, confVars, stop>>
    BY <1>2 DEF Send
  <2>2. After(o) # "panicked" /\ (graceful => stop = "no")
    BY <2>1 DEF ControlInv, After
  <2>3. \A p \in Op : p # o => numCh'[p] = numCh[p]
    BY <1>0, <2>1
  <2>4. QED
    BY <1>0, <2>1, <2>2, <2>3 DEF ControlInv
<1>3. ASSUME NEW c \in Calls, NEW o \in Op, Overloaded(o, c) PROVE ControlInv'
  BY <1>0, <1>3 DEF Overloaded, ControlInv, Op
<1>4. ASSUME NEW c \in Calls, NEW o \in Op, SendPanics(o, c) PROVE ControlInv'
  BY <1>0, <1>4 DEF SendPanics, ControlInv
<1>5. ASSUME NEW o \in Op, ReceiveBuffered(o) PROVE ControlInv'
  <2>1. /\ pc[o] = "select" /\ Head(numCh[o]) \in Calls
        /\ CalculateAndRecord(o, Head(numCh[o]))
        /\ numCh' = [numCh EXCEPT ![o] = Tail(@)]
        /\ UNCHANGED <<call, closed, done, confVars, stop>>
    BY <1>0, <1>5 DEF ReceiveBuffered
  <2>2. /\ pc'[o] \in {"select", "flush"} /\ \A p \in Op : p # o => pc'[p] = pc[p]
        /\ pc' \in [Op -> {"select", "flush", "exit", "closeValCh", "closeDone", "ended"}]
    BY <2>1, RecordTyped
  <2>3. \A p \in Op : p # o => numCh'[p] = numCh[p]
    BY <1>0, <2>1
  <2>4. QED
    BY <1>0, <2>1, <2>2, <2>3 DEF ControlInv
<1>6. ASSUME NEW o \in Op, NEW c \in Calls, ReceiveFromSender(o, c) PROVE ControlInv'
  <2>1. /\ pc[o] = "select" /\ CalculateAndRecord(o, c) /\ call[c] \in Op /\ ~closed[o]
        /\ call' = [call EXCEPT ![c] = After(o)]
        /\ UNCHANGED <<numCh, closed, done, confVars, stop>>
    BY <1>6 DEF ReceiveFromSender
  <2>2. /\ pc'[o] \in {"select", "flush"} /\ \A p \in Op : p # o => pc'[p] = pc[p]
        /\ pc' \in [Op -> {"select", "flush", "exit", "closeValCh", "closeDone", "ended"}]
    BY <2>1, RecordTyped
  <2>3. After(o) # "panicked" /\ (graceful => stop = "no")
    BY <2>1 DEF ControlInv, After
  <2>4. QED
    BY <1>0, <2>1, <2>2, <2>3 DEF ControlInv
<1>7. ASSUME NEW o \in Op, ReceiveTick(o) PROVE ControlInv'
  BY <1>0, <1>7 DEF ReceiveTick, ControlInv
<1>8. ASSUME NEW o \in Op, ReceiveClosed(o) PROVE ControlInv'
  BY <1>0, <1>8 DEF ReceiveClosed, ControlInv
<1>9. ASSUME NEW o \in Op, Flush(o) PROVE ControlInv'
  BY <1>0, <1>9 DEF Flush, ControlInv
<1>10. ASSUME NEW o \in Op, CloseValCh(o) PROVE ControlInv'
  BY <1>0, <1>10 DEF CloseValCh, ControlInv
<1>11. ASSUME NEW o \in Op, CloseDone(o) PROVE ControlInv'
  BY <1>0, <1>11 DEF CloseDone, ControlInv
<1>12. ASSUME NEW r \in Readers, CallValues(r) PROVE ControlInv'
  BY <1>12 DEF CallValues, ControlInv
<1>13. ASSUME NEW r \in Readers, NEW o \in Op, Value(r, o) PROVE ControlInv'
  BY <1>13 DEF Value, ControlInv
<1>14. CASE CallStop
  BY <1>0, <1>14 DEF CallStop, InFlight, ControlInv
<1>15. CASE SumStopped
  BY <1>0, <1>15 DEF SumStopped, ControlInv
<1>16. CASE SubStopped
  BY <1>0, <1>16 DEF SubStopped, ControlInv
<1>17. CASE UNCHANGED vars
  BY <1>17 DEF vars, ControlInv
<1>18. QED
  BY <1>1, <1>2, <1>3, <1>4, <1>5, <1>6, <1>7, <1>8, <1>9, <1>10, <1>11, <1>12,
     <1>13, <1>14, <1>15, <1>16, <1>17
  DEF Next, Calculate, Serve

-----------------------------------------------------------------------------
(***************************************************************************)
(* Which calls a server has: each once, in its channel or applied, and     *)
(* Sum those that have passed it, Sub those that have passed both.         *)
(***************************************************************************)
QueueInv ==
  \A o \in Op : /\ Distinct(numCh[o])
               /\ Queued(o) \cap applied[o] = {}
               /\ IsFiniteSet(applied[o])

CallInv ==
  \A c \in Calls :
    /\ c \in Accepted("sub") <=> call[c] = "ok"
    /\ call[c] \in {"sub", "ok"} => c \in Accepted("sum")
    /\ c \in Accepted("sum") => call[c] \in {"sub", "ok", "panicked"}

AcceptInv == QueueInv /\ CallInv

LEMMA AcceptInvInit == Init => AcceptInv
<1> SUFFICES ASSUME Init PROVE AcceptInv
  OBVIOUS
<1>1. \A o \in Op : numCh[o] = <<>> /\ applied[o] = {}
  BY DEF Init
<1>2. Range(<<>>) = {} /\ Distinct(<<>>)
  BY DEF Range, Distinct
<1>3. \A o \in Op : Queued(o) = {} /\ Accepted(o) = {}
  BY <1>1, <1>2 DEF Queued, Accepted
<1>4. QueueInv
  BY <1>1, <1>2, <1>3, FS_EmptySet DEF QueueInv
<1>5. CallInv
  BY <1>3 DEF CallInv, Init, Op
<1>6. QED
  BY <1>4, <1>5 DEF AcceptInv

(* A call at a server is not among those it has.                           *)
LEMMA NotYetAccepted ==
  ASSUME CallInv, NEW o \in Op, NEW c \in Calls, call[c] = o PROVE c \notin Accepted(o)
BY DEF CallInv, Op

(* A server takes the number of a call, which goes on.                     *)
LEMMA CallGoesOn ==
  ASSUME TypeInv, CallInv, NEW o \in Op, NEW c \in Calls, call[c] = o,
         call' = [call EXCEPT ![c] = After(o)],
         Accepted(o)' = Accepted(o) \cup {c},
         \A p \in Op : p # o => Accepted(p)' = Accepted(p)
  PROVE  CallInv'
<1>1. call \in [Calls -> Op \cup {"new", "ok", "overloaded", "panicked"}]
  BY DEF TypeInv, TypeOK
<1>2. call'[c] = After(o) /\ \A d \in Calls : d # c => call'[d] = call[d]
  BY <1>1
<1>3. CASE o = "sum"
  <2>1. /\ After(o) = "sub" /\ Accepted("sum")' = Accepted("sum") \cup {c}
        /\ Accepted("sub")' = Accepted("sub")
    BY <1>3 DEF After, Op
  <2>2. QED
    BY <1>2, <1>3, <2>1 DEF CallInv
<1>4. CASE o = "sub"
  <2>1. /\ After(o) = "ok" /\ Accepted("sub")' = Accepted("sub") \cup {c}
        /\ Accepted("sum")' = Accepted("sum")
    BY <1>4 DEF After, Op
  <2>2. QED
    BY <1>2, <1>4, <2>1 DEF CallInv
<1>5. QED
  BY <1>3, <1>4 DEF Op

(* A call ends or begins without a number having been taken.               *)
LEMMA CallEnds ==
  ASSUME TypeInv, CallInv, NEW c \in Calls,
         call[c] \in {"new", "sum"} \/ (call[c] = "sub" /\ call'[c] = "panicked"),
         call'[c] \in {"sum", "overloaded", "panicked"},
         \A d \in Calls : d # c => call'[d] = call[d],
         \A p \in Op : Accepted(p)' = Accepted(p)
  PROVE  CallInv'
BY DEF CallInv, Op

LEMMA AcceptInvNext == TypeInv /\ AcceptInv /\ [Next]_vars => AcceptInv'
<1> SUFFICES ASSUME TypeInv, AcceptInv, [Next]_vars PROVE AcceptInv'
  OBVIOUS
<1> USE DEF serveVars, chanVars, readVars, confVars
<1>0. /\ QueueInv /\ CallInv
      /\ call \in [Calls -> Op \cup {"new", "ok", "overloaded", "panicked"}]
      /\ numCh \in [Op -> Seq(Calls)] /\ applied \in [Op -> SUBSET Calls]
      /\ queueSize \in Nat
  BY ParallelAssumption DEF AcceptInv, TypeInv, TypeOK
<1>1. ASSUME numCh' = numCh, applied' = applied
      PROVE  QueueInv' /\ \A p \in Op : Accepted(p)' = Accepted(p)
  BY <1>0, <1>1 DEF QueueInv, Queued, Accepted
<1>2. ASSUME NEW c \in Calls, CallCalculate(c) PROVE AcceptInv'
  <2>1. CallInv'
    BY <1>0, <1>1, <1>2, CallEnds DEF CallCalculate
  <2>2. QED
    BY <1>1, <1>2, <2>1 DEF CallCalculate, AcceptInv
<1>3. ASSUME NEW c \in Calls, NEW o \in Op, Overloaded(o, c) PROVE AcceptInv'
  <2>1. call[c] = "sum"
    BY <1>3 DEF Overloaded, ignoreOverload, Op
  <2>2. CallInv'
    BY <1>0, <1>1, <1>3, <2>1, CallEnds DEF Overloaded
  <2>3. QED
    BY <1>1, <1>3, <2>2 DEF Overloaded, AcceptInv
<1>4. ASSUME NEW c \in Calls, NEW o \in Op, SendPanics(o, c) PROVE AcceptInv'
  <2>1. call[c] \in {"sum", "sub"}
    BY <1>4 DEF SendPanics, Op
  <2>2. CallInv'
    BY <1>0, <1>1, <1>4, <2>1, CallEnds DEF SendPanics
  <2>3. QED
    BY <1>1, <1>4, <2>2 DEF SendPanics, AcceptInv
<1>5. ASSUME NEW c \in Calls, NEW o \in Op, Send(o, c) PROVE AcceptInv'
  <2>1. /\ call[c] = o /\ call' = [call EXCEPT ![c] = After(o)] /\ applied' = applied
        /\ numCh' = [numCh EXCEPT ![o] = Append(@, c)]
    BY <1>5 DEF Send
  <2>2. c \notin Queued(o) /\ c \notin applied[o]
    BY <1>0, <2>1, NotYetAccepted DEF Accepted
  <2>3. /\ Range(numCh'[o]) = Range(numCh[o]) \cup {c} /\ Distinct(numCh'[o])
        /\ \A p \in Op : p # o => numCh'[p] = numCh[p]
    <3>1. numCh'[o] = Append(numCh[o], c) /\ \A p \in Op : p # o => numCh'[p] = numCh[p]
      BY <1>0, <2>1
    <3>2. numCh[o] \in Seq(Calls) /\ Distinct(numCh[o]) /\ c \notin Range(numCh[o])
      BY <1>0, <2>2 DEF QueueInv, Queued
    <3>3. QED
      BY <3>1, <3>2, Enqueued
  <2>4. /\ Queued(o)' = Queued(o) \cup {c} /\ Accepted(o)' = Accepted(o) \cup {c}
        /\ \A p \in Op : p # o => Queued(p)' = Queued(p) /\ Accepted(p)' = Accepted(p)
    BY <2>1, <2>3 DEF Queued, Accepted
  <2>5. QueueInv'
    BY <1>0, <2>1, <2>2, <2>3, <2>4 DEF QueueInv
  <2>6. CallInv'
    BY <1>0, <2>1, <2>4, CallGoesOn
  <2>7. QED
    BY <2>5, <2>6 DEF AcceptInv
<1>6. ASSUME NEW o \in Op, ReceiveBuffered(o) PROVE AcceptInv'
  <2> DEFINE h == Head(numCh[o])
  <2>1. /\ call' = call /\ numCh[o] # <<>> /\ numCh' = [numCh EXCEPT ![o] = Tail(@)]
        /\ applied' = [applied EXCEPT ![o] = @ \cup {h}]
    BY <1>6 DEF ReceiveBuffered, CalculateAndRecord
  <2>2. /\ h \in Range(numCh[o]) /\ Range(Tail(numCh[o])) = Range(numCh[o]) \ {h}
        /\ Distinct(Tail(numCh[o]))
    BY <1>0, <2>1, Dequeued DEF QueueInv
  <2> HIDE DEF h
  <2>3. /\ numCh'[o] = Tail(numCh[o]) /\ applied'[o] = applied[o] \cup {h}
        /\ \A p \in Op : p # o => numCh'[p] = numCh[p] /\ applied'[p] = applied[p]
    BY <1>0, <2>1
  <2>4. /\ Queued(o)' = Queued(o) \ {h} /\ h \in Queued(o)
        /\ \A p \in Op : p # o => Queued(p)' = Queued(p)
    BY <2>2, <2>3 DEF Queued
  <2>5. \A p \in Op : Accepted(p)' = Accepted(p)
    BY <2>3, <2>4 DEF Accepted
  <2>6. QueueInv'
    <3>1. IsFiniteSet(applied'[o])
      <4>1. IsFiniteSet(applied[o])
        BY <1>0 DEF QueueInv
      <4>2. IsFiniteSet(applied[o] \cup {h})
        BY <4>1, FS_AddElement
      <4>3. QED
        BY <2>3, <4>2
    <3>2. Queued(o)' \cap applied'[o] = {} /\ Distinct(numCh'[o])
      BY <1>0, <2>2, <2>3, <2>4 DEF QueueInv
    <3>3. QED
      BY <1>0, <2>3, <2>4, <3>1, <3>2 DEF QueueInv
  <2>7. CallInv'
    BY <1>0, <2>1, <2>5 DEF CallInv, Op
  <2>8. QED
    BY <2>6, <2>7 DEF AcceptInv
<1>7. ASSUME NEW o \in Op, NEW c \in Calls, ReceiveFromSender(o, c) PROVE AcceptInv'
  <2>1. /\ call[c] = o /\ call' = [call EXCEPT ![c] = After(o)] /\ numCh' = numCh
        /\ applied' = [applied EXCEPT ![o] = @ \cup {c}]
    BY <1>7 DEF ReceiveFromSender, CalculateAndRecord
  <2>2. c \notin Queued(o) /\ c \notin applied[o]
    BY <1>0, <2>1, NotYetAccepted DEF Accepted
  <2>3. /\ applied'[o] = applied[o] \cup {c}
        /\ \A p \in Op : p # o => applied'[p] = applied[p]
        /\ \A p \in Op : Queued(p)' = Queued(p)
    BY <1>0, <2>1 DEF Queued
  <2>4. /\ Accepted(o)' = Accepted(o) \cup {c}
        /\ \A p \in Op : p # o => Accepted(p)' = Accepted(p)
    BY <2>3 DEF Accepted
  <2>5. QueueInv'
    <3>1. IsFiniteSet(applied'[o])
      <4>1. IsFiniteSet(applied[o])
        BY <1>0 DEF QueueInv
      <4>2. IsFiniteSet(applied[o] \cup {c})
        BY <4>1, FS_AddElement
      <4>3. QED
        BY <2>3, <4>2
    <3>2. QED
      BY <1>0, <2>1, <2>2, <2>3, <3>1 DEF QueueInv
  <2>6. CallInv'
    BY <1>0, <2>1, <2>4, CallGoesOn
  <2>7. QED
    BY <2>5, <2>6 DEF AcceptInv
<1>8. ASSUME numCh' = numCh, applied' = applied, call' = call PROVE AcceptInv'
  BY <1>0, <1>1, <1>8 DEF AcceptInv, CallInv, Op
<1>9. ASSUME NEW o \in Op, ReceiveTick(o) \/ ReceiveClosed(o) \/ Flush(o)
                          \/ CloseValCh(o) \/ CloseDone(o)
      PROVE  AcceptInv'
  BY <1>8, <1>9 DEF ReceiveTick, ReceiveClosed, Flush, CloseValCh, CloseDone
<1>10. ASSUME NEW r \in Readers, CallValues(r) PROVE AcceptInv'
  BY <1>8, <1>10 DEF CallValues
<1>11. ASSUME NEW r \in Readers, NEW o \in Op, Value(r, o) PROVE AcceptInv'
  BY <1>8, <1>11 DEF Value
<1>12. CASE CallStop \/ SumStopped \/ SubStopped
  BY <1>8, <1>12 DEF CallStop, SumStopped, SubStopped
<1>13. CASE UNCHANGED vars
  BY <1>8, <1>13 DEF vars
<1>14. QED
  BY <1>2, <1>3, <1>4, <1>5, <1>6, <1>7, <1>9, <1>10, <1>11, <1>12, <1>13
  DEF Next, Calculate, Serve

Inv == TypeInv /\ ControlInv /\ AcceptInv

LEMMA InvAlways == Spec => []Inv
<1>1. Init => Inv
  BY TypeInvInit, ControlInvInit, AcceptInvInit DEF Inv
<1>2. Inv /\ [Next]_vars => Inv'
  BY TypeInvNext, ControlInvNext, AcceptInvNext DEF Inv
<1>3. QED
  BY <1>1, <1>2, PTL DEF Spec

(* Both servers take a number, each exactly once, or neither does, but for *)
(* a call between the two or one that panicked there.                      *)
THEOREM CountedTwiceOrNever == Spec => []BothOrNeither
<1>1. ASSUME Inv PROVE BothOrNeither
  <2>0. /\ CallInv /\ QueueInv /\ ControlInv
        /\ \A o \in Op : numCh[o] \in Seq(Calls) /\ applied[o] \subseteq Calls
    BY <1>1 DEF Inv, AcceptInv, TypeInv, TypeOK
  <2>1. \A o \in Op : Accepted(o) \subseteq Calls
    BY <2>0 DEF Accepted, Queued, Range
  <2>2. \A o \in Op : /\ Queued(o) \cap applied[o] = {}
                      /\ Cardinality(Queued(o)) = Len(numCh[o])
    BY <2>0, DistinctCardinality DEF QueueInv, Queued
  <2>3. Accepted("sub") = {c \in Calls : call[c] = "ok"}
    BY <2>0, <2>1 DEF CallInv, Op
  <2>4. Accepted("sub") \subseteq Accepted("sum")
    BY <2>0, <2>3 DEF CallInv
  <2>5. \A c \in Calls : c \in Accepted("sum") \ Accepted("sub")
                          => call[c] \in {"sub", "panicked"}
    BY <2>0 DEF CallInv
  <2>6. {c \in Calls : call[c] = "sub"} \subseteq Accepted("sum") \ Accepted("sub")
    BY <2>0 DEF CallInv
  <2>7. graceful => \A c \in Calls : call[c] # "panicked"
    BY <2>0 DEF ControlInv
  <2>8. \A c \in Accepted("sum") \ Accepted("sub") : c \in Calls
    BY <2>1 DEF Op
  <2>9. graceful => Accepted("sum") \ Accepted("sub") = {c \in Calls : call[c] = "sub"}
    BY <2>5, <2>6, <2>7, <2>8
  <2>10. QED
    BY <2>2, <2>3, <2>4, <2>5, <2>6, <2>8, <2>9 DEF BothOrNeither
<1>2. QED
  BY <1>1, InvAlways, PTL

-----------------------------------------------------------------------------
(***************************************************************************)
(* Totals that wrap around are exact modulo the width of an int64.         *)
(***************************************************************************)
Width == 2 * MaxInt + 2

Same(x, y) == (x - y) % Width = 0

LEMMA WidthNat == Width \in Nat \ {0}
BY MaxIntAssumption DEF Width

LEMMA Multiple ==
  ASSUME NEW d \in Int, NEW m \in Nat \ {0}, d % m = 0
  PROVE  \E k \in Int : d = k * m
<1>1. d = (d \div m) * m + (d % m)
  OBVIOUS
<1>2. d \div m \in Int
  OBVIOUS
<1>3. QED
  BY <1>1, <1>2

LEMMA MultipleIsZero ==
  ASSUME NEW k \in Int, NEW m \in Nat \ {0} PROVE (k * m) % m = 0
OBVIOUS

LEMMA MultiplesAdd ==
  ASSUME NEW k \in Int, NEW j \in Int, NEW m \in Nat \ {0}
  PROVE  (k * m) + (j * m) = (k + j) * m /\ (k * m) - (j * m) = (k - j) * m
OBVIOUS

LEMMA ModuloAdd ==
  ASSUME NEW d \in Int, NEW e \in Int, NEW m \in Nat \ {0}, d % m = 0, e % m = 0
  PROVE  (d + e) % m = 0 /\ (d - e) % m = 0
<1>1. PICK k \in Int : d = k * m
  BY Multiple
<1>2. PICK j \in Int : e = j * m
  BY Multiple
<1>3. d + e = (k + j) * m /\ d - e = (k - j) * m /\ k + j \in Int /\ k - j \in Int
  BY <1>1, <1>2, MultiplesAdd
<1>4. QED
  BY <1>3, MultipleIsZero

LEMMA WholeWidths ==
  ASSUME NEW m \in Nat \ {0} PROVE m % m = 0 /\ 0 % m = 0 /\ (-m) % m = 0
OBVIOUS

LEMMA Within ==
  ASSUME NEW d \in Int, NEW m \in Nat \ {0}, d % m = 0, d < m, -m < d PROVE d = 0
OBVIOUS

(* Wrapping moves a result by a whole number of widths.                    *)
LEMMA WrapSame == ASSUME NEW x \in Int PROVE Wrap(x) \in Int /\ Same(Wrap(x), x)
<1>1. \/ Wrap(x) = x \/ Wrap(x) = x - Width \/ Wrap(x) = x + Width
  BY MaxIntAssumption DEF Wrap, MinInt, Width
<1>2. \/ Wrap(x) - x = 0 \/ Wrap(x) - x = Width \/ Wrap(x) - x = -Width
  BY <1>1, WidthNat
<1>3. QED
  BY <1>1, <1>2, WidthNat, WholeWidths DEF Same

LEMMA SameStep ==
  ASSUME NEW v \in Int, NEW t \in Int, NEW x \in Int, NEW y \in Int,
         Same(v, t), y - x = t - v
  PROVE  Same(Wrap(x), y)
<1>1. (Wrap(x) - x) % Width = 0 /\ Wrap(x) \in Int
  BY WrapSame DEF Same
<1>2. (v - t) % Width = 0
  BY DEF Same
<1>3. Wrap(x) - y = (Wrap(x) - x) + (v - t)
  BY <1>1
<1>4. v - t \in Int /\ Wrap(x) - x \in Int
  BY <1>1
<1>5. QED
  BY <1>1, <1>2, <1>3, <1>4, WidthNat, ModuloAdd DEF Same

LEMMA SameInt64 ==
  ASSUME NEW x \in Int64, NEW y \in Int64, Same(x, y) PROVE x = y
<1>1. x \in Int /\ y \in Int /\ x - y < Width /\ -Width < x - y
  BY MaxIntAssumption DEF Int64, MinInt, Width
<1>2. x - y = 0
  BY <1>1, WidthNat, Within DEF Same
<1>3. QED
  BY <1>1, <1>2

(* The sum of the numbers that o has applied.                              *)
Exact(o) == SumFunctionOnSet(num, applied[o])

TotalsInv == Same(val["sum"], Exact("sum")) /\ Same(val["sub"], -Exact("sub"))

LEMMA NumInt == \A c \in Calls : num[c] \in Int
BY ParallelAssumption, MaxIntAssumption DEF Int64, MinInt

LEMMA ExactInt == ASSUME TypeInv, QueueInv, NEW o \in Op PROVE Exact(o) \in Int
<1>1. IsFiniteSet(applied[o]) /\ applied[o] \subseteq Calls
  BY DEF TypeInv, TypeOK, QueueInv
<1>2. \A c \in applied[o] : num[c] \in Int
  BY <1>1, NumInt
<1>3. QED
  BY <1>1, <1>2, SumInt DEF Exact

LEMMA TotalsInvInit == Init => TotalsInv
<1> SUFFICES ASSUME Init PROVE TotalsInv
  OBVIOUS
<1>1. Exact("sum") = 0 /\ Exact("sub") = 0
  BY SumEmpty DEF Init, Op, Exact
<1>2. \A x \in Int : x = 0 => 0 - x = 0 /\ 0 - (-x) = 0
  OBVIOUS
<1>3. QED
  BY <1>1, <1>2, WidthNat, WholeWidths DEF Init, TotalsInv, Same, Op

(* The receive of a number that is not yet applied.                        *)
LEMMA RecordTotals ==
  ASSUME TypeInv, QueueInv, TotalsInv, NEW o \in Op, NEW c \in Calls,
         c \notin applied[o], CalculateAndRecord(o, c)
  PROVE  TotalsInv'
<1>1. /\ val \in [Op -> Int64] /\ applied \in [Op -> SUBSET Calls]
      /\ val' = [val EXCEPT ![o] = Apply(o, @, num[c])]
      /\ applied' = [applied EXCEPT ![o] = @ \cup {c}]
      /\ IsFiniteSet(applied[o])
  BY DEF TypeInv, TypeOK, CalculateAndRecord, QueueInv
<1>2. /\ val'[o] = Apply(o, val[o], num[c]) /\ applied'[o] = applied[o] \cup {c}
      /\ \A p \in Op : p # o => val'[p] = val[p] /\ applied'[p] = applied[p]
      /\ val[o] \in Int /\ num[c] \in Int /\ Exact(o) \in Int
  BY <1>1, NumInt, ExactInt, MaxIntAssumption DEF Int64, MinInt
<1>3. Exact(o)' = Exact(o) + num[c]
  <2>1. \A d \in applied[o] \cup {c} : num[d] \in Int
    BY <1>1, NumInt
  <2>2. SumFunctionOnSet(num, applied[o] \cup {c})
          = SumFunctionOnSet(num, applied[o]) + num[c]
    BY <1>1, <2>1, SumAdd
  <2>3. QED
    BY <1>2, <2>2 DEF Exact
<1>4. \A p \in Op : p # o => Exact(p)' = Exact(p)
  BY <1>2 DEF Exact
<1>5. CASE o = "sum"
  <2>1. Same(Wrap(val[o] + num[c]), Exact(o) + num[c])
    BY <1>2, <1>5, SameStep DEF TotalsInv
  <2>2. val'[o] = Wrap(val[o] + num[c])
    BY <1>2, <1>5 DEF Apply, add
  <2>3. val'["sub"] = val["sub"] /\ Exact("sub")' = Exact("sub")
    BY <1>2, <1>4, <1>5 DEF Op
  <2>4. QED
    BY <1>3, <1>5, <2>1, <2>2, <2>3 DEF TotalsInv, Same
<1>6. CASE o = "sub"
  <2>1. -Exact(o) \in Int /\ Same(val[o], -Exact(o))
    BY <1>2, <1>6 DEF TotalsInv
  <2>2. Same(Wrap(val[o] - num[c]), -Exact(o) - num[c])
    BY <1>2, <2>1, SameStep
  <2>3. -Exact(o) - num[c] = -(Exact(o) + num[c])
    BY <1>2
  <2>4. val'[o] = Wrap(val[o] - num[c])
    BY <1>2, <1>6 DEF Apply, sub
  <2>5. val'["sum"] = val["sum"] /\ Exact("sum")' = Exact("sum")
    BY <1>2, <1>4, <1>6 DEF Op
  <2>6. QED
    BY <1>3, <1>6, <2>2, <2>3, <2>4, <2>5 DEF TotalsInv, Same
<1>7. QED
  BY <1>5, <1>6 DEF Op

LEMMA TotalsInvNext == Inv /\ TotalsInv /\ [Next]_vars => TotalsInv'
<1> SUFFICES ASSUME Inv, TotalsInv, [Next]_vars PROVE TotalsInv'
  OBVIOUS
<1> USE DEF serveVars, chanVars, readVars, confVars
<1>0. TypeInv /\ QueueInv /\ CallInv
  BY DEF Inv, AcceptInv
<1>1. ASSUME val' = val, applied' = applied PROVE TotalsInv'
  BY <1>1 DEF TotalsInv, Exact
<1>2. ASSUME NEW o \in Op, ReceiveBuffered(o) PROVE TotalsInv'
  <2>1. CalculateAndRecord(o, Head(numCh[o])) /\ numCh[o] # <<>>
    BY <1>2 DEF ReceiveBuffered
  <2>2. Head(numCh[o]) \in Calls /\ Head(numCh[o]) \in Queued(o)
    BY <1>0, <2>1, Dequeued DEF TypeInv, QueueInv, Queued
  <2>3. Head(numCh[o]) \notin applied[o]
    BY <1>0, <2>2 DEF QueueInv
  <2>4. QED
    BY <1>0, <2>1, <2>2, <2>3, RecordTotals
<1>3. ASSUME NEW o \in Op, NEW c \in Calls, ReceiveFromSender(o, c) PROVE TotalsInv'
  <2>1. CalculateAndRecord(o, c) /\ call[c] = o
    BY <1>3 DEF ReceiveFromSender
  <2>2. c \notin applied[o]
    BY <1>0, <2>1, NotYetAccepted DEF Accepted
  <2>3. QED
    BY <1>0, <2>1, <2>2, RecordTotals
<1>4. ASSUME NEW c \in Calls, CallCalculate(c) PROVE TotalsInv'
  BY <1>1, <1>4 DEF CallCalculate
<1>5. ASSUME NEW c \in Calls, Calculate(c) PROVE TotalsInv'
  BY <1>1, <1>5 DEF Calculate, Send, Overloaded, SendPanics
<1>6. ASSUME NEW o \in Op, ReceiveTick(o) \/ ReceiveClosed(o) \/ Flush(o)
                          \/ CloseValCh(o) \/ CloseDone(o)
      PROVE  TotalsInv'
  BY <1>1, <1>6 DEF ReceiveTick, ReceiveClosed, Flush, CloseValCh, CloseDone
<1>7. ASSUME NEW r \in Readers, CallValues(r) PROVE TotalsInv'
  BY <1>1, <1>7 DEF CallValues
<1>8. ASSUME NEW r \in Readers, NEW o \in Op, Value(r, o) PROVE TotalsInv'
  BY <1>1, <1>8 DEF Value
<1>9. CASE CallStop \/ SumStopped \/ SubStopped
  BY <1>1, <1>9 DEF CallStop, SumStopped, SubStopped
<1>10. CASE UNCHANGED vars
  BY <1>1, <1>10 DEF vars
<1>11. QED
  BY <1>2, <1>3, <1>4, <1>5, <1>6, <1>7, <1>8, <1>9, <1>10 DEF Next, Serve

(* Either total is the sum of the numbers applied (negated for Sub) modulo *)
(* the width, for any numbers in any order.                                *)
THEOREM ExactTotals == Spec => []TotalsOfApplied
<1>1. Init => TotalsInv
  BY TotalsInvInit
<1>2. Inv /\ TotalsInv /\ [Next]_vars => TotalsInv'
  BY TotalsInvNext
<1>3. TotalsInv => TotalsOfApplied
  BY DEF TotalsInv, TotalsOfApplied, Same, Exact, Width, SumFunctionOnSet
<1>4. QED
  BY <1>1, <1>2, <1>3, InvAlways, PTL DEF Spec

(* The totals agree when both servers have applied the same numbers.       *)
LEMMA SameNumbersAgree ==
  ASSUME TypeInv, QueueInv, TotalsInv, applied["sum"] = applied["sub"]
  PROVE  Agree(Totals)
<1> DEFINE s == val["sum"]
           d == val["sub"]
           t == Exact("sum")
<1>1. s \in Int64 /\ d \in Int64 /\ s \in Int /\ d \in Int /\ t \in Int
  BY ExactInt, MaxIntAssumption DEF TypeInv, TypeOK, Op, Int64, MinInt
<1>2. (s - t) % Width = 0 /\ (d - (-t)) % Width = 0
  BY DEF TotalsInv, Same, Exact
<1>3. sub(0, s) \in Int64 /\ sub(0, s) = Wrap(0 - s)
  BY <1>1, MaxIntAssumption DEF sub, Wrap, Int64, MinInt
<1>4. Same(sub(0, s), -t)
  <2> HIDE DEF s, t
  <2>1. 0 - s \in Int /\ -t \in Int /\ (-t) - (0 - s) = s - t
    BY <1>1
  <2>2. Same(t, s)
    <3>1. t - s = 0 - (s - t) /\ s - t \in Int /\ 0 \in Int
      BY <1>1
    <3>2. QED
      BY <1>2, <3>1, WidthNat, WholeWidths, ModuloAdd DEF Same
  <2>3. QED
    BY <1>1, <1>3, <2>1, <2>2, SameStep
<1> HIDE DEF s, d, t
<1>5. Same(d, sub(0, s))
  <2>1. (sub(0, s) - (-t)) % Width = 0 /\ sub(0, s) \in Int
    BY <1>3, <1>4, MaxIntAssumption DEF Same, Int64, MinInt
  <2>2. d - sub(0, s) = (d - (-t)) - (sub(0, s) - (-t))
    BY <1>1, <2>1
  <2>3. d - (-t) \in Int /\ sub(0, s) - (-t) \in Int
    BY <1>1, <2>1
  <2>4. QED
    BY <1>2, <2>1, <2>2, <2>3, WidthNat, ModuloAdd DEF Same
<1>6. d = sub(0, s)
  BY <1>1, <1>3, <1>5, SameInt64
<1>7. QED
  BY <1>6 DEF Agree, Totals, s, d

(* With nothing on its way, and after a Stop behind the last handler, the  *)
(* totals agree, and the final ones include every accepted number.         *)
THEOREM AgreementAtRest == Spec => []AgreeAtRest
<1>1. ASSUME Inv, TotalsInv PROVE AgreeAtRest
  <2>0. TypeInv /\ ControlInv /\ QueueInv /\ CallInv /\ Op = {"sum", "sub"}
        /\ \A o \in Op : applied[o] \subseteq Calls
    BY <1>1 DEF Inv, AcceptInv, TypeInv, TypeOK, Op
  <2>1. ASSUME graceful, InFlight = {}, \A o \in Op : numCh[o] = <<>>
        PROVE  \A o \in Op : applied[o] = {c \in Calls : call[c] = "ok"}
    <3>1. \A o \in Op : Accepted(o) = applied[o]
      BY <2>1 DEF Accepted, Queued, Range
    <3>2. \A c \in Calls : call[c] \notin {"sum", "sub", "panicked"}
      BY <2>0, <2>1 DEF InFlight, ControlInv
    <3>3. \A c \in Calls : \A o \in Op : c \in applied[o] <=> call[c] = "ok"
      BY <2>0, <3>1, <3>2 DEF CallInv
    <3>4. QED
      BY <2>0, <3>3
  <2>2. ASSUME graceful, InFlight = {}, \A o \in Op : numCh[o] = <<>>
        PROVE  Agree(Totals)
    <3>1. applied["sum"] = applied["sub"]
      BY <2>0, <2>1, <2>2
    <3>2. QED
      BY <1>1, <2>0, <3>1, SameNumbersAgree
  <2>3. ASSUME graceful, stop = "returned"
        PROVE  InFlight = {} /\ \A o \in Op : numCh[o] = <<>>
    <3>1. done["sum"] /\ done["sub"]
      BY <2>0, <2>3 DEF ControlInv
    <3>2. \A o \in Op : pc[o] = "ended"
      BY <2>0, <3>1 DEF ControlInv
    <3>3. QED
      BY <2>0, <2>3, <3>2 DEF ControlInv, InFlight
  <2>4. QED
    BY <2>1, <2>2, <2>3 DEF AgreeAtRest
<1>2. QED
  BY <1>1, InvAlways, TotalsInvInit, TotalsInvNext, PTL DEF Spec

=============================================================================

------------------------ MODULE AsyncCalculatorProofs ------------------------
(***************************************************************************)
(* Theorems about calculators.Async for any clients, readers, numbers,     *)
(* queue sizes, batch size and width of the integers.                      *)
(***************************************************************************)
EXTENDS AsyncCalculator, TLAPS

(***************************************************************************)
(* The native operators stay within int64, and the totals keep agreeing:   *)
(* adding to one what is subtracted from the other preserves Agree even    *)
(* when either result wraps around.                                        *)
(***************************************************************************)
LEMMA OperatorsTyped ==
  ASSUME NEW a \in Int64, NEW b \in Int64
  PROVE  add(a, b) \in Int64 /\ sub(a, b) \in Int64
BY MaxIntAssumption DEF Int64, MinInt, add, sub, Wrap

LEMMA ZeroTyped == ZeroValues \in Values /\ Agree(ZeroValues) /\ 0 \in Int64
BY MaxIntAssumption DEF ZeroValues, Values, Int64, MinInt, Agree, sub, Wrap

LEMMA CalculatedTyped ==
  ASSUME NEW v \in Values, NEW num \in Int64
  PROVE  Calculated(v, num) \in Values
BY OperatorsTyped DEF Calculated, Values

LEMMA CalculatedAgrees ==
  ASSUME NEW v \in Values, NEW num \in Int64, Agree(v)
  PROVE  Agree(Calculated(v, num))
<1>1. v.Sum \in Int64 /\ v.Sub \in Int64
  BY DEF Values
<1>2. v.Sub = sub(0, v.Sum)
  BY DEF Agree
<1>3. sub(v.Sub, num) = sub(0, add(v.Sum, num))
  BY <1>1, <1>2, MaxIntAssumption DEF Int64, MinInt, add, sub, Wrap
<1>4. QED
  BY <1>3 DEF Agree, Calculated

(***************************************************************************)
(* The history of accepted numbers only grows, and what it says of the     *)
(* totals after earlier numbers stays.                                     *)
(***************************************************************************)
LEMMA ValuesAfterTyped ==
  ASSUME NEW l \in Seq(Entry), NEW i \in 0 .. Len(l)
  PROVE  ValuesAfter(l, i) \in Values
<1>1. CASE i = 0
  BY <1>1, ZeroTyped DEF ValuesAfter
<1>2. CASE i # 0
  <2>1. l[i] \in Entry
    BY <1>2
  <2>2. l[i].vals \in Values
    BY <2>1 DEF Entry
  <2>3. QED
    BY <1>2, <2>2 DEF ValuesAfter
<1>3. QED
  BY <1>1, <1>2

LEMMA ExtendedTyped ==
  ASSUME NEW l \in Seq(Entry), NEW num \in Nums
  PROVE  Extended(l, num) \in Seq(Entry)
<1>1. ValuesAfter(l, Len(l)) \in Values
  BY ValuesAfterTyped
<1>2. num \in Int64
  BY AsyncAssumption
<1>3. [num |-> num, vals |-> Calculated(ValuesAfter(l, Len(l)), num)] \in Entry
  BY <1>1, <1>2, CalculatedTyped DEF Entry
<1>4. QED
  BY <1>3 DEF Extended

LEMMA ExtendedGrows ==
  ASSUME NEW l \in Seq(Entry), NEW num \in Nums
  PROVE  /\ Len(Extended(l, num)) = Len(l) + 1
         /\ \A i \in 1 .. Len(l) : Extended(l, num)[i] = l[i]
         /\ \A i \in 0 .. Len(l) :
              ValuesAfter(Extended(l, num), i) = ValuesAfter(l, i)
         /\ Extended(l, num)[Len(l) + 1].num = num
         /\ ValuesAfter(Extended(l, num), Len(l) + 1)
              = Calculated(ValuesAfter(l, Len(l)), num)
<1> DEFINE e == [num |-> num, vals |-> Calculated(ValuesAfter(l, Len(l)), num)]
<1>1. Extended(l, num) = Append(l, e)
  BY DEF Extended
<1>2. ValuesAfter(l, Len(l)) \in Values
  BY ValuesAfterTyped
<1>3. e \in Entry
  BY <1>2, AsyncAssumption, CalculatedTyped DEF Entry
<1>4. /\ Len(Append(l, e)) = Len(l) + 1
      /\ \A i \in 1 .. Len(l) : Append(l, e)[i] = l[i]
      /\ Append(l, e)[Len(l) + 1] = e
  BY <1>3
<1>5. \A i \in 0 .. Len(l) : ValuesAfter(Append(l, e), i) = ValuesAfter(l, i)
  BY <1>4 DEF ValuesAfter
<1>6. e.num = num /\ e.vals = Calculated(ValuesAfter(l, Len(l)), num)
  OBVIOUS
<1>7. ValuesAfter(Append(l, e), Len(l) + 1) = e.vals
  BY <1>4, Len(l) + 1 # 0 DEF ValuesAfter
<1>8. QED
  BY <1>1, <1>4, <1>5, <1>6, <1>7

-----------------------------------------------------------------------------
(***************************************************************************)
(* Type correctness.  TypeOK is not inductive: an append to the batch      *)
(* needs a number received before it and room left, a rendezvous needs the *)
(* blocked client to hold a number.                                        *)
(***************************************************************************)
TypeInv ==
  /\ TypeOK
  /\ pc \in {"add", "sub", "record"} => cur \in Nums
  /\ \A c \in Clients : client[c] = "sending" => arg[c] \in Nums
  /\ pc \in {"select", "add", "sub", "record"} => Len(batch) < BatchSize

LEMMA TypeInvInit == Init => TypeInv
<1> SUFFICES ASSUME Init PROVE TypeInv
  OBVIOUS
<1>1. /\ numCh \in Seq(Nums) /\ batch \in Seq(Nums) /\ recorded \in Seq(Nums)
      /\ log \in Seq(Entry)
      /\ Len(numCh) = 0 /\ Len(batch) = 0
  BY DEF Init
<1>2. queueSize \in Nat /\ queueSize \in QueueSizes
  BY AsyncAssumption DEF Init
<1>3. /\ client \in [Clients -> {"idle", "sending", "panicked"}]
      /\ arg \in [Clients -> Nums \cup {0}]
      /\ reading \in [Readers -> BOOLEAN]
      /\ seen \in [Readers -> Values]
      /\ \A c \in Clients : client[c] = "idle"
  BY ZeroTyped DEF Init
<1>4. calls \in 0 .. MaxCalls /\ 0 < BatchSize
  BY AsyncAssumption DEF Init
<1>5. /\ Len(numCh) <= queueSize /\ Len(batch) < BatchSize
      /\ Len(batch) <= BatchSize
  BY <1>1, <1>2, <1>4, AsyncAssumption
<1>6. /\ recording \in BOOLEAN /\ closed = FALSE /\ valClosed = FALSE
      /\ done = FALSE /\ pc = "select" /\ cur = 0 /\ vals \in Values
      /\ timer = "off" /\ stop = "no"
  BY ZeroTyped DEF Init
<1>7. QED
  BY <1>1, <1>2, <1>3, <1>4, <1>5, <1>6 DEF TypeInv, TypeOK

LEMMA TypeInvNext == TypeInv /\ [Next]_vars => TypeInv'
<1> SUFFICES ASSUME TypeInv, [Next]_vars PROVE TypeInv'
  OBVIOUS
<1> USE AsyncAssumption
<1>1. ASSUME NEW c \in Clients, NEW num \in Nums, Enqueue(c, num)
      PROVE  TypeInv'
  <2>1. log' \in Seq(Entry)
    BY <1>1, ExtendedTyped DEF TypeInv, TypeOK, Enqueue
  <2>2. numCh' \in Seq(Nums) /\ Len(numCh') <= queueSize
    <3>1. numCh \in Seq(Nums) /\ queueSize \in Nat
      BY DEF TypeInv, TypeOK
    <3>2. numCh' = Append(numCh, num) /\ Len(numCh) < queueSize
      BY <1>1 DEF Enqueue
    <3>3. QED
      BY <3>1, <3>2
  <2>3. calls' \in 0 .. MaxCalls
    BY <1>1 DEF TypeInv, TypeOK, Enqueue, Calling
  <2>4. QED
    BY <1>1, <2>1, <2>2, <2>3
    DEF TypeInv, TypeOK, Enqueue, serveVars, recVars, readVars, confVars
<1>2. ASSUME NEW c \in Clients, Overloaded(c) PROVE TypeInv'
  BY <1>2 DEF TypeInv, TypeOK, Overloaded, Calling, chanVars, serveVars, recVars,
     readVars, confVars
<1>3. ASSUME NEW c \in Clients, NEW num \in Nums, BlockInSend(c, num)
      PROVE  TypeInv'
  BY <1>3 DEF TypeInv, TypeOK, BlockInSend, Calling, chanVars, serveVars, recVars,
     readVars, confVars
<1>4. ASSUME NEW c \in Clients, SendPanics(c) PROVE TypeInv'
  BY <1>4 DEF TypeInv, TypeOK, SendPanics, Calling, chanVars, serveVars, recVars,
     readVars, confVars
<1>5. CASE ReceiveTick
  BY <1>5 DEF TypeInv, TypeOK, ReceiveTick, chanVars, clientVars, readVars, confVars
<1>6. CASE ReceiveBuffered
  BY <1>6 DEF TypeInv, TypeOK, ReceiveBuffered, recVars, clientVars, readVars,
     confVars
<1>7. ASSUME NEW c \in Clients, ReceiveFromSender(c) PROVE TypeInv'
  BY <1>7, ExtendedTyped DEF TypeInv, TypeOK, ReceiveFromSender, chanVars, recVars,
     readVars, confVars
<1>8. CASE ReceiveClosed
  BY <1>8 DEF TypeInv, TypeOK, ReceiveClosed, chanVars, recVars, clientVars,
     readVars, confVars
<1>9. CASE CallAdd
  <2>1. vals' \in Values
    BY <1>9, OperatorsTyped DEF TypeInv, TypeOK, CallAdd, Values
  <2>2. QED
    BY <1>9, <2>1 DEF TypeInv, TypeOK, CallAdd, chanVars, recVars, clientVars,
       readVars, confVars
<1>10. CASE CallSub
  <2>1. vals' \in Values
    BY <1>10, OperatorsTyped DEF TypeInv, TypeOK, CallSub, Values
  <2>2. QED
    BY <1>10, <2>1 DEF TypeInv, TypeOK, CallSub, chanVars, recVars, clientVars,
       readVars, confVars
<1>11. CASE Record
  <2>1. /\ batch' \in Seq(Nums) /\ Len(batch') <= BatchSize
        /\ pc' \in {"select", "flush"}
        /\ pc' = "select" => Len(batch') < BatchSize
        /\ timer' \in {"off", "armed", "fired"}
    <3>1. /\ batch \in Seq(Nums) /\ Len(batch) < BatchSize /\ cur \in Nums
          /\ timer \in {"off", "armed", "fired"}
      BY <1>11 DEF TypeInv, TypeOK, Record
    <3>2. CASE recording
      <4>1. /\ batch' = Append(batch, cur)
            /\ timer' = IF batch = <<>> THEN "armed" ELSE timer
            /\ pc' = IF Len(batch') >= BatchSize THEN "flush" ELSE "select"
        BY <1>11, <3>2 DEF Record
      <4>2. batch' \in Seq(Nums) /\ Len(batch') = Len(batch) + 1
        BY <3>1, <4>1
      <4>3. QED
        BY <3>1, <4>1, <4>2
    <3>3. CASE ~recording
      BY <1>11, <3>1, <3>3 DEF Record
    <3>4. QED
      BY <3>2, <3>3
  <2>2. QED
    BY <1>11, <2>1 DEF TypeInv, TypeOK, Record, chanVars, clientVars, readVars,
       confVars
<1>12. CASE Flush
  BY <1>12 DEF TypeInv, TypeOK, Flush, chanVars, clientVars, readVars, confVars
<1>13. CASE ExitFlush
  BY <1>13 DEF TypeInv, TypeOK, ExitFlush, chanVars, clientVars, readVars, confVars
<1>14. CASE CloseValCh
  BY <1>14 DEF TypeInv, TypeOK, CloseValCh, recVars, clientVars, readVars, confVars
<1>15. CASE CloseDone
  BY <1>15 DEF TypeInv, TypeOK, CloseDone, recVars, clientVars, readVars, confVars
<1>16. ASSUME NEW r \in Readers, SendValues(r) PROVE TypeInv'
  BY <1>16 DEF TypeInv, TypeOK, SendValues, chanVars, serveVars, recVars,
     clientVars, confVars
<1>17. ASSUME NEW r \in Readers, CallValues(r) PROVE TypeInv'
  BY <1>17 DEF TypeInv, TypeOK, CallValues, chanVars, serveVars, recVars,
     clientVars, confVars
<1>18. ASSUME NEW r \in Readers, ReadFinalValues(r) PROVE TypeInv'
  BY <1>18 DEF TypeInv, TypeOK, ReadFinalValues, chanVars, serveVars, recVars,
     clientVars, confVars
<1>19. CASE Expire
  BY <1>19 DEF TypeInv, TypeOK, Expire, chanVars, serveVars, clientVars, readVars,
     confVars
<1>20. CASE CallStop
  BY <1>20 DEF TypeInv, TypeOK, CallStop, serveVars, recVars, readVars, confVars
<1>21. CASE StopReturns
  BY <1>21 DEF TypeInv, TypeOK, StopReturns, chanVars, serveVars, recVars,
     clientVars, readVars, confVars
<1>22. CASE UNCHANGED vars
  BY <1>22 DEF TypeInv, TypeOK, vars, chanVars, serveVars, recVars, clientVars,
     readVars, confVars
<1>23. QED
  BY <1>1, <1>2, <1>3, <1>4, <1>5, <1>6, <1>7, <1>8, <1>9, <1>10, <1>11, <1>12,
     <1>13, <1>14, <1>15, <1>16, <1>17, <1>18, <1>19, <1>20, <1>21, <1>22
  DEF Next, Calculate, Receive, Serve

(* Async keeps its types: in particular the queue never exceeds its        *)
(* capacity, a batch never its size, and both totals remain int64 values.  *)
THEOREM Typing == Spec => []TypeOK
<1>1. TypeInv => TypeOK
  BY DEF TypeInv
<1>2. QED
  BY <1>1, TypeInvInit, TypeInvNext, PTL DEF Spec

-----------------------------------------------------------------------------
(***************************************************************************)
(* Where serve is, what the channels say and what the timer does agree     *)
(* with each other.                                                        *)
(***************************************************************************)
ControlInv ==
  /\ pc \in {"exit", "closeValCh", "closeDone", "ended"} => closed /\ numCh = <<>>
  /\ valClosed <=> pc \in {"closeDone", "ended"}
  /\ done <=> pc = "ended"
  /\ closed <=> stop # "no"
  /\ stop = "returned" => done
  /\ closed => \A c \in Clients : client[c] # "sending"
  /\ \A c \in Clients : client[c] = "sending" => queueSize = 0
  /\ pc \in {"closeValCh", "closeDone", "ended"} => batch = <<>>
  /\ pc \in {"select", "add", "sub", "record"} => (batch = <<>> <=> timer = "off")

LEMMA ControlInvInit == Init => ControlInv
BY DEF Init, ControlInv

LEMMA ControlInvNext ==
  TypeInv /\ ControlInv /\ [Next]_vars => ControlInv'
<1> SUFFICES ASSUME TypeInv, ControlInv, [Next]_vars PROVE ControlInv'
  OBVIOUS
<1> USE DEF TypeInv, TypeOK, ControlInv, chanVars, serveVars, recVars, clientVars,
            readVars, confVars
<1>1. ASSUME NEW c \in Clients, NEW num \in Nums, Enqueue(c, num) PROVE ControlInv'
  BY <1>1 DEF Enqueue, Calling
<1>2. ASSUME NEW c \in Clients, Overloaded(c) PROVE ControlInv'
  BY <1>2 DEF Overloaded, Calling
<1>3. ASSUME NEW c \in Clients, NEW num \in Nums, BlockInSend(c, num) PROVE ControlInv'
  BY <1>3 DEF BlockInSend, Calling, ignoreOverload
<1>4. ASSUME NEW c \in Clients, SendPanics(c) PROVE ControlInv'
  BY <1>4 DEF SendPanics, Calling
<1>5. CASE ReceiveTick
  BY <1>5 DEF ReceiveTick
<1>6. CASE ReceiveBuffered
  BY <1>6 DEF ReceiveBuffered
<1>7. ASSUME NEW c \in Clients, ReceiveFromSender(c) PROVE ControlInv'
  BY <1>7 DEF ReceiveFromSender
<1>8. CASE ReceiveClosed
  BY <1>8 DEF ReceiveClosed
<1>9. CASE CallAdd
  BY <1>9 DEF CallAdd
<1>10. CASE CallSub
  BY <1>10 DEF CallSub
<1>11. CASE Record
  BY <1>11 DEF Record
<1>12. CASE Flush
  BY <1>12 DEF Flush
<1>13. CASE ExitFlush
  BY <1>13 DEF ExitFlush
<1>14. CASE CloseValCh
  BY <1>14 DEF CloseValCh
<1>15. CASE CloseDone
  BY <1>15 DEF CloseDone
<1>16. ASSUME NEW r \in Readers, SendValues(r) PROVE ControlInv'
  BY <1>16 DEF SendValues
<1>17. ASSUME NEW r \in Readers, CallValues(r) PROVE ControlInv'
  BY <1>17 DEF CallValues
<1>18. ASSUME NEW r \in Readers, ReadFinalValues(r) PROVE ControlInv'
  BY <1>18 DEF ReadFinalValues
<1>19. CASE Expire
  BY <1>19 DEF Expire
<1>20. CASE CallStop
  BY <1>20 DEF CallStop
<1>21. CASE StopReturns
  BY <1>21 DEF StopReturns
<1>22. CASE UNCHANGED vars
  BY <1>22 DEF vars
<1>23. QED
  BY <1>1, <1>2, <1>3, <1>4, <1>5, <1>6, <1>7, <1>8, <1>9, <1>10, <1>11, <1>12,
     <1>13, <1>14, <1>15, <1>16, <1>17, <1>18, <1>19, <1>20, <1>21, <1>22
  DEF Next, Calculate, Receive, Serve

-----------------------------------------------------------------------------
(***************************************************************************)
(* What waits in the queue and in serve's hands are the last numbers       *)
(* accepted, in order; the totals are those of the numbers before, except  *)
(* between the two native calls, when Sum is one number ahead.             *)
(***************************************************************************)
QueueInv ==
  /\ Len(numCh) + InHand <= Len(log)
  /\ \A i \in 1 .. Len(numCh) : numCh[i] = log[Len(log) - Len(numCh) + i].num
  /\ InHand = 1 => cur = log[Applied + 1].num

LogInv ==
  /\ \A i \in 0 .. Len(log) - 1 :
       ValuesAfter(log, i + 1) = Calculated(ValuesAfter(log, i), log[i + 1].num)
  /\ \A i \in 0 .. Len(log) : Agree(ValuesAfter(log, i))

TotalsInv ==
  IF pc = "sub"
  THEN vals = [Sum |-> ValuesAfter(log, Applied + 1).Sum,
               Sub |-> ValuesAfter(log, Applied).Sub]
  ELSE vals = ValuesAfter(log, Applied)

HistoryInv == QueueInv /\ LogInv /\ TotalsInv /\ ReadsAgree

LEMMA HistoryInvInit == Init => HistoryInv
<1> SUFFICES ASSUME Init PROVE HistoryInv
  OBVIOUS
<1>0. Len(log) = 0 /\ Len(numCh) = 0 /\ InHand = 0
  BY DEF Init, InHand
<1>1. Len(log) = 0 /\ Len(numCh) = 0 /\ InHand = 0 /\ Applied = 0
  BY <1>0 DEF Applied
<1>2. QueueInv
  BY <1>1 DEF QueueInv
<1>3. ValuesAfter(log, 0) = ZeroValues
  BY DEF ValuesAfter
<1>4. LogInv
  BY <1>1, <1>3, ZeroTyped DEF LogInv
<1>5. TotalsInv
  BY <1>1, <1>3 DEF TotalsInv, Init
<1>6. ReadsAgree
  BY ZeroTyped DEF ReadsAgree, Init
<1>7. QED
  BY <1>2, <1>4, <1>5, <1>6 DEF HistoryInv

(* Accepting a number extends the history consistently. *)
LEMMA ExtendedLogInv ==
  ASSUME TypeInv, LogInv, NEW num \in Nums, log' = Extended(log, num)
  PROVE  LogInv'
<1>1. log \in Seq(Entry) /\ num \in Int64
  BY AsyncAssumption DEF TypeInv, TypeOK
<1>2. /\ Len(log') = Len(log) + 1
      /\ \A i \in 1 .. Len(log) : log'[i] = log[i]
      /\ \A i \in 0 .. Len(log) : ValuesAfter(log', i) = ValuesAfter(log, i)
      /\ log'[Len(log) + 1].num = num
      /\ ValuesAfter(log', Len(log) + 1) = Calculated(ValuesAfter(log, Len(log)), num)
  BY <1>1, ExtendedGrows
<1>3. Len(log) \in Nat
  BY <1>1
<1>4. ASSUME NEW i \in 0 .. Len(log') - 1
      PROVE  ValuesAfter(log', i + 1)
               = Calculated(ValuesAfter(log', i), log'[i + 1].num)
  <2>1. CASE i \in 0 .. Len(log) - 1
    <3>1. i \in 0 .. Len(log) /\ i + 1 \in 0 .. Len(log) /\ i + 1 \in 1 .. Len(log)
      BY <1>3, <2>1
    <3>2. ValuesAfter(log, i + 1) = Calculated(ValuesAfter(log, i), log[i + 1].num)
      BY <2>1 DEF LogInv
    <3>3. QED
      BY <1>2, <3>1, <3>2
  <2>2. CASE i = Len(log)
    BY <1>2, <1>3, <2>2
  <2>3. QED
    BY <1>2, <1>3, <2>1, <2>2
<1>5. ASSUME NEW i \in 0 .. Len(log') PROVE Agree(ValuesAfter(log', i))
  <2>1. CASE i \in 0 .. Len(log)
    BY <1>2, <2>1 DEF LogInv
  <2>2. CASE i = Len(log) + 1
    <3>1. ValuesAfter(log, Len(log)) \in Values
      BY <1>1, <1>3, ValuesAfterTyped
    <3>2. Agree(ValuesAfter(log, Len(log)))
      BY <1>3 DEF LogInv
    <3>3. QED
      BY <1>1, <1>2, <2>2, <3>1, <3>2, CalculatedAgrees
  <2>3. QED
    BY <1>2, <1>3, <2>1, <2>2
<1>6. QED
  BY <1>4, <1>5 DEF LogInv

(* A step that leaves the queue, the hand, the totals and the history as   *)
(* they are, and gives no reader an answer, preserves HistoryInv.          *)
LEMMA HistoryInvFrame ==
  ASSUME HistoryInv, numCh' = numCh, log' = log, vals' = vals, cur' = cur,
         seen' = seen, InHand' = InHand, pc = "sub" <=> pc' = "sub"
  PROVE  HistoryInv'
<1>1. Applied' = Applied
  BY DEF Applied
<1>2. QED
  BY <1>1 DEF HistoryInv, QueueInv, LogInv, TotalsInv, ReadsAgree, ValuesAfter

LEMMA HistoryInvNext ==
  TypeInv /\ ControlInv /\ HistoryInv /\ [Next]_vars => HistoryInv'
<1> SUFFICES ASSUME TypeInv, ControlInv, HistoryInv, [Next]_vars
             PROVE  HistoryInv'
  OBVIOUS
<1> USE DEF chanVars, serveVars, recVars, clientVars, readVars, confVars
<1>0. /\ numCh \in Seq(Nums) /\ log \in Seq(Entry)
      /\ Len(numCh) \in Nat /\ Len(log) \in Nat /\ InHand \in {0, 1}
      /\ Applied \in Nat /\ Applied = Len(log) - Len(numCh) - InHand
      /\ vals \in Values
  BY DEF TypeInv, TypeOK, HistoryInv, QueueInv, InHand, Applied
<1>1. ASSUME NEW c \in Clients, NEW num \in Nums, Enqueue(c, num) PROVE HistoryInv'
  <2>1. /\ log' = Extended(log, num) /\ numCh' = Append(numCh, num)
        /\ pc' = pc /\ cur' = cur /\ vals' = vals /\ seen' = seen
    BY <1>1 DEF Enqueue
  <2>2. /\ Len(log') = Len(log) + 1
        /\ \A i \in 1 .. Len(log) : log'[i] = log[i]
        /\ \A i \in 0 .. Len(log) : ValuesAfter(log', i) = ValuesAfter(log, i)
        /\ log'[Len(log) + 1].num = num
    BY <1>0, <2>1, ExtendedGrows
  <2>3. /\ Len(numCh') = Len(numCh) + 1
        /\ \A i \in 1 .. Len(numCh) : numCh'[i] = numCh[i]
        /\ numCh'[Len(numCh) + 1] = num
    BY <1>0, <2>1
  <2>4. InHand' = InHand /\ Applied' = Applied
    BY <1>0, <2>1, <2>2, <2>3 DEF InHand, Applied
  <2>5. QueueInv'
    <3>1. Len(numCh') + InHand' <= Len(log')
      BY <1>0, <2>2, <2>3, <2>4 DEF HistoryInv, QueueInv
    <3>2. ASSUME NEW i \in 1 .. Len(numCh')
          PROVE  numCh'[i] = log'[Len(log') - Len(numCh') + i].num
      <4>1. CASE i \in 1 .. Len(numCh)
        <5>1. Len(log) - Len(numCh) + i \in 1 .. Len(log)
          BY <1>0, <4>1
        <5>2. Len(log') - Len(numCh') + i = Len(log) - Len(numCh) + i
          BY <1>0, <2>2, <2>3
        <5>3. numCh[i] = log[Len(log) - Len(numCh) + i].num
          BY <4>1 DEF HistoryInv, QueueInv
        <5>4. numCh'[i] = numCh[i]
          BY <2>3, <4>1
        <5>5. log'[Len(log) - Len(numCh) + i] = log[Len(log) - Len(numCh) + i]
          BY <2>2, <5>1
        <5>6. QED
          BY <5>2, <5>3, <5>4, <5>5
      <4>2. CASE i = Len(numCh) + 1
        BY <1>0, <2>2, <2>3, <4>2
      <4>3. QED
        BY <1>0, <2>3, <4>1, <4>2
    <3>3. InHand' = 1 => cur' = log'[Applied' + 1].num
      BY <1>0, <2>1, <2>2, <2>4 DEF HistoryInv, QueueInv
    <3>4. QED
      BY <3>1, <3>2, <3>3 DEF QueueInv
  <2>6. LogInv'
    BY <2>1, ExtendedLogInv DEF HistoryInv
  <2>7. TotalsInv'
    <3>1. pc = "sub" => Applied + 1 \in 0 .. Len(log)
      BY <1>0 DEF InHand
    <3>2. QED
      BY <1>0, <2>1, <2>2, <2>4, <3>1 DEF HistoryInv, TotalsInv
  <2>8. QED
    BY <2>1, <2>5, <2>6, <2>7 DEF HistoryInv, ReadsAgree
<1>2. ASSUME NEW c \in Clients, Overloaded(c) PROVE HistoryInv'
  BY <1>2, HistoryInvFrame DEF Overloaded, InHand
<1>3. ASSUME NEW c \in Clients, NEW num \in Nums, BlockInSend(c, num)
      PROVE  HistoryInv'
  BY <1>3, HistoryInvFrame DEF BlockInSend, InHand
<1>4. ASSUME NEW c \in Clients, SendPanics(c) PROVE HistoryInv'
  BY <1>4, HistoryInvFrame DEF SendPanics, InHand
<1>5. CASE ReceiveTick
  BY <1>5, HistoryInvFrame DEF ReceiveTick, InHand
<1>6. CASE ReceiveBuffered
  <2>1. /\ numCh # <<>> /\ cur' = Head(numCh) /\ numCh' = Tail(numCh)
        /\ pc = "select" /\ pc' = "add"
        /\ log' = log /\ vals' = vals /\ seen' = seen
    BY <1>6 DEF ReceiveBuffered
  <2>2. /\ Len(numCh) > 0 /\ Len(numCh') = Len(numCh) - 1
        /\ cur' = numCh[1]
        /\ \A i \in 1 .. Len(numCh') : numCh'[i] = numCh[i + 1]
    BY <1>0, <2>1
  <2>3. InHand = 0 /\ InHand' = 1
    BY <2>1 DEF InHand
  <2>4. Applied' = Applied
    BY <1>0, <2>1, <2>2, <2>3 DEF Applied
  <2>5. QueueInv'
    <3>1. Len(numCh') + InHand' <= Len(log')
      BY <1>0, <2>1, <2>2, <2>3 DEF HistoryInv, QueueInv
    <3>2. ASSUME NEW i \in 1 .. Len(numCh')
          PROVE  numCh'[i] = log'[Len(log') - Len(numCh') + i].num
      <4>1. i + 1 \in 1 .. Len(numCh) /\ numCh'[i] = numCh[i + 1]
        BY <1>0, <2>2
      <4>2. Len(log) - Len(numCh) + (i + 1) = Len(log') - Len(numCh') + i
        BY <1>0, <2>1, <2>2
      <4>3. QED
        BY <2>1, <4>1, <4>2 DEF HistoryInv, QueueInv
    <3>3. cur' = log'[Applied' + 1].num
      <4>1. numCh[1] = log[Len(log) - Len(numCh) + 1].num
        BY <1>0, <2>2 DEF HistoryInv, QueueInv
      <4>2. Len(log) - Len(numCh) + 1 = Applied' + 1
        BY <1>0, <2>3, <2>4
      <4>3. QED
        BY <2>1, <2>2, <4>1, <4>2
    <3>4. QED
      BY <3>1, <3>2, <3>3 DEF QueueInv
  <2>6. QED
    BY <2>1, <2>4, <2>5
    DEF HistoryInv, LogInv, TotalsInv, ReadsAgree, ValuesAfter
<1>7. ASSUME NEW c \in Clients, ReceiveFromSender(c) PROVE HistoryInv'
  <2> DEFINE num == arg[c]
  <2>1. /\ log' = Extended(log, num) /\ cur' = num /\ numCh' = numCh
        /\ pc = "select" /\ pc' = "add" /\ vals' = vals /\ seen' = seen
        /\ num \in Nums
    BY <1>7 DEF ReceiveFromSender, TypeInv
  <2>2. Len(numCh) = 0 /\ InHand = 0 /\ InHand' = 1
    <3>1. queueSize = 0
      BY <1>7 DEF ReceiveFromSender, ControlInv
    <3>2. QED
      BY <1>0, <2>1, <3>1 DEF TypeInv, TypeOK, InHand
  <2>3. /\ Len(log') = Len(log) + 1
        /\ \A i \in 0 .. Len(log) : ValuesAfter(log', i) = ValuesAfter(log, i)
        /\ log'[Len(log) + 1].num = num
    BY <1>0, <2>1, ExtendedGrows
  <2>4. Applied = Len(log) /\ Applied' = Applied
    BY <1>0, <2>1, <2>2, <2>3 DEF Applied
  <2>5. QueueInv'
    BY <1>0, <2>1, <2>2, <2>3, <2>4 DEF QueueInv
  <2>6. LogInv'
    BY <2>1, ExtendedLogInv DEF HistoryInv
  <2>7. TotalsInv'
    BY <1>0, <2>1, <2>3, <2>4 DEF HistoryInv, TotalsInv
  <2>8. QED
    BY <2>1, <2>5, <2>6, <2>7 DEF HistoryInv, ReadsAgree
<1>8. CASE ReceiveClosed
  BY <1>8, HistoryInvFrame DEF ReceiveClosed, InHand
<1>9. CASE CallAdd
  <2>1. /\ pc = "add" /\ pc' = "sub" /\ vals' = [vals EXCEPT !.Sum = add(vals.Sum, cur)]
        /\ log' = log /\ numCh' = numCh /\ cur' = cur /\ seen' = seen
    BY <1>9 DEF CallAdd
  <2>2. InHand = 1 /\ InHand' = 1 /\ Applied' = Applied
    BY <2>1 DEF InHand, Applied
  <2>3. /\ Applied \in 0 .. Len(log) - 1
        /\ cur = log[Applied + 1].num
    BY <1>0, <2>2 DEF HistoryInv, QueueInv
  <2>4. ValuesAfter(log, Applied + 1) = Calculated(ValuesAfter(log, Applied), cur)
    BY <2>3 DEF HistoryInv, LogInv
  <2>5. vals = ValuesAfter(log, Applied)
    BY <2>1 DEF HistoryInv, TotalsInv
  <2>6. vals' = [Sum |-> ValuesAfter(log, Applied + 1).Sum,
                 Sub |-> ValuesAfter(log, Applied).Sub]
    BY <1>0, <2>1, <2>4, <2>5 DEF Calculated, Values
  <2>7. TotalsInv'
    BY <2>1, <2>2, <2>6 DEF TotalsInv
  <2>8. QED
    BY <2>1, <2>2, <2>7 DEF HistoryInv, QueueInv, LogInv, ReadsAgree
<1>10. CASE CallSub
  <2>1. /\ pc = "sub" /\ pc' = "record" /\ vals' = [vals EXCEPT !.Sub = sub(vals.Sub, cur)]
        /\ log' = log /\ numCh' = numCh /\ cur' = cur /\ seen' = seen
    BY <1>10 DEF CallSub
  <2>2. InHand = 1 /\ InHand' = 0 /\ Applied' = Applied + 1
    BY <1>0, <2>1 DEF InHand, Applied
  <2>3. /\ Applied \in 0 .. Len(log) - 1
        /\ cur = log[Applied + 1].num
    BY <1>0, <2>2 DEF HistoryInv, QueueInv
  <2>4. ValuesAfter(log, Applied + 1) = Calculated(ValuesAfter(log, Applied), cur)
    BY <2>3 DEF HistoryInv, LogInv
  <2>5. vals = [Sum |-> ValuesAfter(log, Applied + 1).Sum,
                Sub |-> ValuesAfter(log, Applied).Sub]
    BY <2>1 DEF HistoryInv, TotalsInv
  <2>6. vals' = ValuesAfter(log, Applied + 1)
    BY <2>1, <2>4, <2>5 DEF Calculated
  <2>7. TotalsInv'
    BY <2>1, <2>2, <2>6 DEF TotalsInv, ValuesAfter
  <2>8. QueueInv'
    BY <1>0, <2>1, <2>2 DEF HistoryInv, QueueInv
  <2>9. QED
    BY <2>1, <2>7, <2>8 DEF HistoryInv, LogInv, ReadsAgree, ValuesAfter
<1>11. CASE Record
  BY <1>11, HistoryInvFrame DEF Record, InHand
<1>12. CASE Flush
  BY <1>12, HistoryInvFrame DEF Flush, InHand
<1>13. CASE ExitFlush
  BY <1>13, HistoryInvFrame DEF ExitFlush, InHand
<1>14. CASE CloseValCh
  BY <1>14, HistoryInvFrame DEF CloseValCh, InHand
<1>15. CASE CloseDone
  BY <1>15, HistoryInvFrame DEF CloseDone, InHand
<1>16. ASSUME NEW r \in Readers, SendValues(r) \/ ReadFinalValues(r)
       PROVE  HistoryInv'
  <2>1. /\ log' = log /\ numCh' = numCh /\ cur' = cur /\ vals' = vals /\ pc' = pc
        /\ seen' = [seen EXCEPT ![r] = vals]
    BY <1>16 DEF SendValues, ReadFinalValues
  <2>2. pc # "sub"
    BY <1>16 DEF SendValues, ReadFinalValues, ControlInv
  <2>3. Agree(vals)
    BY <1>0, <2>2 DEF HistoryInv, TotalsInv, LogInv
  <2>4. ReadsAgree'
    BY <2>1, <2>3 DEF HistoryInv, ReadsAgree, TypeInv, TypeOK
  <2>5. InHand' = InHand /\ Applied' = Applied
    BY <2>1 DEF InHand, Applied
  <2>6. QED
    BY <2>1, <2>4, <2>5 DEF HistoryInv, QueueInv, LogInv, TotalsInv, ValuesAfter
<1>17. ASSUME NEW r \in Readers, CallValues(r) PROVE HistoryInv'
  BY <1>17, HistoryInvFrame DEF CallValues, InHand
<1>18. CASE Expire
  BY <1>18, HistoryInvFrame DEF Expire, InHand
<1>19. CASE CallStop
  BY <1>19, HistoryInvFrame DEF CallStop, InHand
<1>20. CASE StopReturns
  BY <1>20, HistoryInvFrame DEF StopReturns, InHand
<1>21. CASE UNCHANGED vars
  BY <1>21, HistoryInvFrame DEF vars, InHand
<1>22. QED
  BY <1>1, <1>2, <1>3, <1>4, <1>5, <1>6, <1>7, <1>8, <1>9, <1>10, <1>11, <1>12,
     <1>13, <1>14, <1>15, <1>16, <1>17, <1>18, <1>19, <1>20, <1>21
  DEF Next, Calculate, Receive, Serve

-----------------------------------------------------------------------------
(***************************************************************************)
(* Samples: no step loses, doubles or reorders one.                        *)
(***************************************************************************)
LEMMA SamplesInit == Init => SamplesComplete
<1> SUFFICES ASSUME Init PROVE SamplesComplete
  OBVIOUS
<1>1. Len(log) = 0 /\ Len(numCh) = 0 /\ InHand = 0
      /\ Len(recorded) = 0 /\ Len(Pending) = 0
  BY DEF Init, InHand, Pending
<1>2. Applied = 0
  BY <1>1 DEF Applied
<1>3. QED
  BY <1>1, <1>2 DEF SamplesComplete

(* Accepting more numbers says nothing of the samples taken. *)
LEMMA SamplesFrame ==
  ASSUME SamplesComplete, Applied <= Len(log), Applied \in Nat, Len(log) \in Nat,
         Len(recorded) \in Nat, Len(Pending) \in Nat,
         recording' = recording, recorded' = recorded, Pending' = Pending,
         Applied' = Applied,
         \A i \in 1 .. Len(log) : log'[i] = log[i]
  PROVE  SamplesComplete'
<1> SUFFICES ASSUME recording PROVE SamplesComplete'
  BY DEF SamplesComplete
<1>1. Len(recorded) + Len(Pending) = Applied
  BY DEF SamplesComplete
<1>2. ASSUME NEW i \in 1 .. Len(recorded) PROVE recorded'[i] = log'[i].num
  <2>1. i \in 1 .. Len(log)
    BY <1>1
  <2>2. QED
    BY <2>1 DEF SamplesComplete
<1>3. ASSUME NEW i \in 1 .. Len(Pending)
      PROVE  Pending'[i] = log'[Len(recorded) + i].num
  <2>1. Len(recorded) + i \in 1 .. Len(log)
    BY <1>1
  <2>2. QED
    BY <2>1 DEF SamplesComplete
<1>4. QED
  BY <1>1, <1>2, <1>3 DEF SamplesComplete

(* Handing the batch to recordFn moves its samples, in order. *)
LEMMA SamplesFlushed ==
  ASSUME TypeInv, SamplesComplete, pc # "record", pc' # "record",
         recording' = recording, recorded' = recorded \o batch, batch' = <<>>,
         Applied' = Applied, log' = log
  PROVE  SamplesComplete'
<1>1. recorded \in Seq(Nums) /\ batch \in Seq(Nums)
  BY DEF TypeInv, TypeOK
<1>2. Pending = batch /\ Pending' = <<>>
  BY DEF Pending
<1>3. /\ Len(recorded') = Len(recorded) + Len(batch)
      /\ \A i \in 1 .. Len(recorded) : recorded'[i] = recorded[i]
      /\ \A i \in 1 .. Len(batch) : recorded'[Len(recorded) + i] = batch[i]
      /\ Len(recorded) \in Nat /\ Len(batch) \in Nat
  BY <1>1
<1> SUFFICES ASSUME recording PROVE SamplesComplete'
  BY DEF SamplesComplete
<1>4. /\ Len(recorded) + Len(batch) = Applied
      /\ \A i \in 1 .. Len(recorded) : recorded[i] = log[i].num
      /\ \A i \in 1 .. Len(batch) : batch[i] = log[Len(recorded) + i].num
  BY <1>2 DEF SamplesComplete
<1>5. ASSUME NEW i \in 1 .. Len(recorded') PROVE recorded'[i] = log[i].num
  <2>1. CASE i \in 1 .. Len(recorded)
    BY <1>3, <1>4, <2>1
  <2>2. CASE i > Len(recorded)
    <3> DEFINE j == i - Len(recorded)
    <3>1. j \in 1 .. Len(batch) /\ i = Len(recorded) + j
      BY <1>3, <2>2
    <3>2. QED
      BY <1>3, <1>4, <3>1
  <2>3. QED
    BY <1>3, <2>1, <2>2
<1>6. Len(Pending') = 0
  BY <1>2
<1>7. QED
  BY <1>3, <1>4, <1>5, <1>6 DEF SamplesComplete

LEMMA SamplesNext ==
  TypeInv /\ ControlInv /\ HistoryInv /\ SamplesComplete /\ [Next]_vars
    => SamplesComplete'
<1> SUFFICES ASSUME TypeInv, ControlInv, HistoryInv, SamplesComplete, [Next]_vars
             PROVE  SamplesComplete'
  OBVIOUS
<1> USE DEF chanVars, serveVars, recVars, clientVars, readVars, confVars
<1>0. /\ numCh \in Seq(Nums) /\ log \in Seq(Entry)
      /\ batch \in Seq(Nums) /\ recorded \in Seq(Nums) /\ Pending \in Seq(Nums)
      /\ Len(numCh) \in Nat /\ Len(log) \in Nat /\ InHand \in {0, 1}
      /\ Applied \in Nat /\ Applied = Len(log) - Len(numCh) - InHand
      /\ Len(recorded) \in Nat /\ Len(batch) \in Nat /\ Len(Pending) \in Nat
      /\ Applied <= Len(log)
  <2>1. /\ numCh \in Seq(Nums) /\ log \in Seq(Entry)
        /\ batch \in Seq(Nums) /\ recorded \in Seq(Nums) /\ Pending \in Seq(Nums)
    BY DEF TypeInv, TypeOK, Pending
  <2>2. InHand \in {0, 1} /\ Len(numCh) + InHand <= Len(log)
    BY DEF InHand, HistoryInv, QueueInv
  <2>3. QED
    BY <2>1, <2>2 DEF Applied
<1>1. ASSUME NEW c \in Clients, NEW num \in Nums, Enqueue(c, num)
      PROVE  SamplesComplete'
  <2>1. /\ log' = Extended(log, num) /\ numCh' = Append(numCh, num)
        /\ pc' = pc /\ cur' = cur /\ batch' = batch /\ recorded' = recorded
        /\ recording' = recording
    BY <1>1 DEF Enqueue
  <2>2. /\ Len(log') = Len(log) + 1 /\ Len(numCh') = Len(numCh) + 1
        /\ \A i \in 1 .. Len(log) : log'[i] = log[i]
    BY <1>0, <2>1, ExtendedGrows
  <2>3. Applied' = Applied /\ Pending' = Pending
    BY <1>0, <2>1, <2>2 DEF Applied, InHand, Pending
  <2>4. QED
    BY <1>0, <2>1, <2>2, <2>3, SamplesFrame
<1>2. ASSUME NEW c \in Clients, Overloaded(c) PROVE SamplesComplete'
  BY <1>0, <1>2, SamplesFrame DEF Overloaded, Applied, InHand, Pending
<1>3. ASSUME NEW c \in Clients, NEW num \in Nums, BlockInSend(c, num)
      PROVE  SamplesComplete'
  BY <1>0, <1>3, SamplesFrame DEF BlockInSend, Applied, InHand, Pending
<1>4. ASSUME NEW c \in Clients, SendPanics(c) PROVE SamplesComplete'
  BY <1>0, <1>4, SamplesFrame DEF SendPanics, Applied, InHand, Pending
<1>5. CASE ReceiveTick
  BY <1>0, <1>5, SamplesFrame DEF ReceiveTick, Applied, InHand, Pending
<1>6. CASE ReceiveBuffered
  <2>1. /\ numCh' = Tail(numCh) /\ numCh # <<>> /\ pc = "select" /\ pc' = "add"
        /\ log' = log /\ batch' = batch /\ recorded' = recorded
        /\ recording' = recording
    BY <1>6 DEF ReceiveBuffered
  <2>2. Len(numCh') = Len(numCh) - 1 /\ InHand = 0 /\ InHand' = 1
    BY <1>0, <2>1 DEF InHand
  <2>3. Applied' = Applied /\ Pending' = Pending
    BY <1>0, <2>1, <2>2 DEF Applied, Pending
  <2>4. QED
    BY <1>0, <2>1, <2>3, SamplesFrame
<1>7. ASSUME NEW c \in Clients, ReceiveFromSender(c) PROVE SamplesComplete'
  <2>1. /\ log' = Extended(log, arg[c]) /\ arg[c] \in Nums /\ numCh' = numCh
        /\ pc = "select" /\ pc' = "add" /\ batch' = batch
        /\ recorded' = recorded /\ recording' = recording
    BY <1>7 DEF ReceiveFromSender, TypeInv
  <2>2. /\ Len(log') = Len(log) + 1 /\ InHand = 0 /\ InHand' = 1
        /\ \A i \in 1 .. Len(log) : log'[i] = log[i]
    BY <1>0, <2>1, ExtendedGrows DEF InHand
  <2>3. Applied' = Applied /\ Pending' = Pending
    BY <1>0, <2>1, <2>2 DEF Applied, Pending
  <2>4. QED
    BY <1>0, <2>1, <2>2, <2>3, SamplesFrame
<1>8. CASE ReceiveClosed
  BY <1>0, <1>8, SamplesFrame DEF ReceiveClosed, Applied, InHand, Pending
<1>9. CASE CallAdd
  BY <1>0, <1>9, SamplesFrame DEF CallAdd, Applied, InHand, Pending
<1>10. CASE CallSub
  <2>1. /\ pc = "sub" /\ pc' = "record" /\ log' = log /\ numCh' = numCh
        /\ cur' = cur /\ batch' = batch /\ recorded' = recorded
        /\ recording' = recording
    BY <1>10 DEF CallSub
  <2>2. cur \in Nums /\ cur = log[Applied + 1].num
    BY <1>10 DEF CallSub, TypeInv, HistoryInv, QueueInv, InHand
  <2>3. InHand = 1 /\ InHand' = 0 /\ Pending = batch
    BY <2>1 DEF InHand, Pending
  <2>4. Applied' = Applied + 1 /\ Pending' = Append(batch, cur)
    BY <1>0, <2>1, <2>3 DEF Applied, Pending
  <2>5. /\ Len(Pending') = Len(batch) + 1
        /\ \A i \in 1 .. Len(batch) : Pending'[i] = batch[i]
        /\ Pending'[Len(batch) + 1] = cur
    BY <1>0, <2>2, <2>4
  <2>6. SUFFICES ASSUME recording PROVE SamplesComplete'
    BY <2>1 DEF SamplesComplete
  <2>7. /\ Len(recorded) + Len(batch) = Applied
        /\ \A i \in 1 .. Len(recorded) : recorded[i] = log[i].num
        /\ \A i \in 1 .. Len(batch) : batch[i] = log[Len(recorded) + i].num
    BY <2>3, <2>6 DEF SamplesComplete
  <2>8. ASSUME NEW i \in 1 .. Len(Pending')
        PROVE  Pending'[i] = log[Len(recorded) + i].num
    <3>1. CASE i \in 1 .. Len(batch)
      BY <2>5, <2>7, <3>1
    <3>2. CASE i = Len(batch) + 1
      <4>1. Len(recorded) + (Len(batch) + 1) = Applied + 1
        <5>1. /\ Len(recorded) \in Nat /\ Len(batch) \in Nat
              /\ Len(recorded) + Len(batch) = Applied
          BY <1>0, <2>7
        <5>2. QED
          BY <5>1
      <4>2. QED
        BY <2>2, <2>5, <3>2, <4>1
    <3>3. QED
      BY <1>0, <2>5, <3>1, <3>2
  <2>9. QED
    BY <1>0, <2>1, <2>4, <2>5, <2>7, <2>8 DEF SamplesComplete
<1>11. CASE Record
  <2>1. CASE recording
    <3>1. Pending' = Pending /\ Applied' = Applied
      BY <1>11, <2>1 DEF Record, Pending, Applied, InHand
    <3>2. QED
      BY <1>0, <1>11, <3>1, SamplesFrame DEF Record
  <2>2. CASE ~recording
    BY <1>11, <2>2 DEF Record, SamplesComplete
  <2>3. QED
    BY <2>1, <2>2
<1>12. CASE Flush
  BY <1>12, SamplesFlushed DEF Flush, Applied, InHand
<1>13. CASE ExitFlush
  BY <1>13, SamplesFlushed DEF ExitFlush, Applied, InHand
<1>14. CASE CloseValCh
  BY <1>0, <1>14, SamplesFrame DEF CloseValCh, Applied, InHand, Pending
<1>15. CASE CloseDone
  BY <1>0, <1>15, SamplesFrame DEF CloseDone, Applied, InHand, Pending
<1>16. ASSUME NEW r \in Readers,
              SendValues(r) \/ CallValues(r) \/ ReadFinalValues(r)
       PROVE  SamplesComplete'
  BY <1>0, <1>16, SamplesFrame
  DEF SendValues, CallValues, ReadFinalValues, Applied, InHand, Pending
<1>17. CASE Expire
  BY <1>0, <1>17, SamplesFrame DEF Expire, Applied, InHand, Pending
<1>18. CASE CallStop
  BY <1>0, <1>18, SamplesFrame DEF CallStop, Applied, InHand, Pending
<1>19. CASE StopReturns
  BY <1>0, <1>19, SamplesFrame DEF StopReturns, Applied, InHand, Pending
<1>20. CASE UNCHANGED vars
  BY <1>0, <1>20, SamplesFrame DEF vars, Applied, InHand, Pending
<1>21. QED
  BY <1>1, <1>2, <1>3, <1>4, <1>5, <1>6, <1>7, <1>8, <1>9, <1>10, <1>11, <1>12,
     <1>13, <1>14, <1>15, <1>16, <1>17, <1>18, <1>19, <1>20
  DEF Next, Calculate, Receive, Serve

-----------------------------------------------------------------------------
(***************************************************************************)
(* The inductive invariant, and what follows from it.                      *)
(***************************************************************************)
IInv == TypeInv /\ ControlInv /\ HistoryInv /\ SamplesComplete

LEMMA Inductive == Spec => []IInv
<1>1. Init => IInv
  BY TypeInvInit, ControlInvInit, HistoryInvInit, SamplesInit DEF IInv
<1>2. IInv /\ [Next]_vars => IInv'
  BY TypeInvNext, ControlInvNext, HistoryInvNext, SamplesNext DEF IInv
<1>3. QED
  BY <1>1, <1>2, PTL DEF Spec

(* Every calculation is timed exactly once, and recordFn gets the samples  *)
(* in the order of the calculations.                                       *)
THEOREM SamplesAreComplete == Spec => []SamplesComplete
<1>1. IInv => SamplesComplete
  BY DEF IInv
<1>2. QED
  BY <1>1, Inductive, PTL

(* No batch is left without its timer, no timer without its batch, and no  *)
(* full batch waits.                                                       *)
THEOREM BatchesAreTimed == Spec => []BatchIsTimed
<1>1. IInv => BatchIsTimed
  BY DEF IInv, TypeInv, ControlInv, BatchIsTimed
<1>2. QED
  BY <1>1, Inductive, PTL

(* Values never returns a Sum and a Sub of different numbers.              *)
THEOREM ReadsAlwaysAgree == Spec => []ReadsAgree
<1>1. IInv => ReadsAgree
  BY DEF IInv, HistoryInv
<1>2. QED
  BY <1>1, Inductive, PTL

(* Once Stop has returned, the totals and the recorded samples cover every *)
(* accepted number and Values needs serve no more.                         *)
THEOREM StopIsFinal == Spec => []FinalAfterStop
<1>1. IInv => FinalAfterStop
  <2> SUFFICES ASSUME IInv, stop = "returned" PROVE FinalAfterStop
    BY DEF FinalAfterStop
  <2>1. pc = "ended" /\ valClosed /\ numCh = <<>> /\ batch = <<>>
    <3>1. done
      BY DEF IInv, ControlInv
    <3>2. pc = "ended"
      BY <3>1 DEF IInv, ControlInv
    <3>3. QED
      BY <3>2 DEF IInv, ControlInv
  <2>2. Len(numCh) = 0 /\ InHand = 0 /\ Len(Pending) = 0 /\ Len(log) \in Nat
        /\ Len(recorded) \in Nat
    BY <2>1 DEF InHand, Pending, IInv, TypeInv, TypeOK
  <2>3. Applied = Len(log)
    BY <2>2 DEF Applied
  <2>4. vals = ValuesAfter(log, Len(log))
    BY <2>1, <2>3 DEF IInv, HistoryInv, TotalsInv
  <2>5. recording => Len(recorded) = Len(log)
    BY <2>2, <2>3 DEF IInv, SamplesComplete
  <2>6. QED
    BY <2>1, <2>4, <2>5 DEF FinalAfterStop
<1>2. QED
  BY <1>1, Inductive, PTL

-----------------------------------------------------------------------------
(***************************************************************************)
(* Async implements the abstract calculator.  A number is accepted when it *)
(* enters the channel and applied when `sub` returns; every other step of  *)
(* serve is a stutter.                                                     *)
(***************************************************************************)
LEMMA SameHistory ==
  ASSUME NEW l, NEW i, NEW num
  PROVE  /\ Promise!ValuesAfter(l, i) = ValuesAfter(l, i)
         /\ Promise!Extended(l, num) = Extended(l, num)
BY DEF Promise!ValuesAfter, ValuesAfter, Promise!Extended, Extended,
       Promise!Calculated, Calculated, Promise!add, add, Promise!sub, sub,
       Promise!Wrap, Wrap, Promise!ZeroValues, ZeroValues, Promise!MinInt, MinInt

LEMMA PromiseStep == IInv /\ [Next]_vars => [Promise!Next]_(Promise!vars)
<1> SUFFICES ASSUME IInv, [Next]_vars PROVE [Promise!Next]_(Promise!vars)
  OBVIOUS
<1> USE DEF chanVars, serveVars, recVars, clientVars, readVars, confVars
<1>0. /\ numCh \in Seq(Nums) /\ log \in Seq(Entry)
      /\ Len(numCh) \in Nat /\ Len(log) \in Nat /\ InHand \in {0, 1}
      /\ Applied \in Nat /\ Applied = Len(log) - Len(numCh) - InHand
  BY DEF IInv, TypeInv, TypeOK, HistoryInv, QueueInv, InHand, Applied
<1>1. ASSUME NEW c \in Clients, NEW num \in Nums, Enqueue(c, num)
      PROVE  Promise!Accept(num)
  <2>1. /\ ~closed /\ closed' = closed /\ seen' = seen /\ stop' = stop
        /\ log' = Extended(log, num) /\ numCh' = Append(numCh, num) /\ pc' = pc
    BY <1>1 DEF Enqueue
  <2>2. Len(log') = Len(log) + 1 /\ Len(numCh') = Len(numCh) + 1
    BY <1>0, <2>1, ExtendedGrows
  <2>3. Applied' = Applied
    BY <1>0, <2>1, <2>2 DEF Applied, InHand
  <2>4. QED
    BY <2>1, <2>3, SameHistory DEF Promise!Accept
<1>2. ASSUME NEW c \in Clients, Overloaded(c) PROVE UNCHANGED Promise!vars
  BY <1>2 DEF Overloaded, Applied, InHand, Promise!vars
<1>3. ASSUME NEW c \in Clients, NEW num \in Nums, BlockInSend(c, num)
      PROVE  UNCHANGED Promise!vars
  BY <1>3 DEF BlockInSend, Applied, InHand, Promise!vars
<1>4. ASSUME NEW c \in Clients, SendPanics(c) PROVE UNCHANGED Promise!vars
  BY <1>4 DEF SendPanics, Applied, InHand, Promise!vars
<1>5. CASE ReceiveTick
  BY <1>5 DEF ReceiveTick, Applied, InHand, Promise!vars
<1>6. CASE ReceiveBuffered
  <2>1. /\ numCh' = Tail(numCh) /\ numCh # <<>> /\ pc = "select" /\ pc' = "add"
        /\ log' = log /\ seen' = seen /\ closed' = closed /\ stop' = stop
    BY <1>6 DEF ReceiveBuffered
  <2>2. Len(numCh') = Len(numCh) - 1 /\ InHand = 0 /\ InHand' = 1
    BY <1>0, <2>1 DEF InHand
  <2>3. Applied' = Applied
    BY <1>0, <2>1, <2>2 DEF Applied
  <2>4. UNCHANGED Promise!vars
    BY <2>1, <2>3 DEF Promise!vars
  <2>5. QED
    BY <2>4
<1>7. ASSUME NEW c \in Clients, ReceiveFromSender(c)
      PROVE  \E num \in Nums : Promise!Accept(num)
  <2>1. /\ log' = Extended(log, arg[c]) /\ arg[c] \in Nums /\ numCh' = numCh
        /\ pc = "select" /\ pc' = "add" /\ seen' = seen /\ closed' = closed
        /\ stop' = stop
    BY <1>7 DEF ReceiveFromSender, IInv, TypeInv
  <2>2. Len(log') = Len(log) + 1 /\ InHand = 0 /\ InHand' = 1
    BY <1>0, <2>1, ExtendedGrows DEF InHand
  <2>3. Applied' = Applied
    BY <1>0, <2>1, <2>2 DEF Applied
  <2>4. ~closed
    BY <1>7 DEF ReceiveFromSender, IInv, ControlInv
  <2>5. Promise!Accept(arg[c])
    BY <2>1, <2>3, <2>4, SameHistory DEF Promise!Accept
  <2>6. QED
    BY <2>1, <2>5
<1>8. CASE ReceiveClosed
  BY <1>8 DEF ReceiveClosed, Applied, InHand, Promise!vars
<1>9. CASE CallAdd
  BY <1>9 DEF CallAdd, Applied, InHand, Promise!vars
<1>10. CASE CallSub
  <2>1. /\ pc = "sub" /\ pc' = "record" /\ log' = log /\ numCh' = numCh
        /\ seen' = seen /\ closed' = closed /\ stop' = stop
    BY <1>10 DEF CallSub
  <2>2. InHand = 1 /\ InHand' = 0
    BY <2>1 DEF InHand
  <2>3. Applied' = Applied + 1 /\ Applied < Len(log)
    BY <1>0, <2>1, <2>2 DEF Applied
  <2>4. QED
    BY <2>1, <2>3 DEF Promise!Apply, Promise!Next
<1>11. CASE Record
  BY <1>11 DEF Record, Applied, InHand, Promise!vars
<1>12. CASE Flush
  BY <1>12 DEF Flush, Applied, InHand, Promise!vars
<1>13. CASE ExitFlush
  BY <1>13 DEF ExitFlush, Applied, InHand, Promise!vars
<1>14. CASE CloseValCh
  BY <1>14 DEF CloseValCh, Applied, InHand, Promise!vars
<1>15. CASE CloseDone
  BY <1>15 DEF CloseDone, Applied, InHand, Promise!vars
<1>16. ASSUME NEW r \in Readers, SendValues(r) \/ ReadFinalValues(r)
       PROVE  Promise!Read(r)
  <2>1. /\ log' = log /\ numCh' = numCh /\ vals' = vals /\ pc' = pc
        /\ closed' = closed /\ stop' = stop /\ seen' = [seen EXCEPT ![r] = vals]
    BY <1>16 DEF SendValues, ReadFinalValues
  <2>2. pc # "sub"
    BY <1>16 DEF SendValues, ReadFinalValues, IInv, ControlInv
  <2>3. vals = ValuesAfter(log, Applied)
    BY <2>2 DEF IInv, HistoryInv, TotalsInv
  <2>4. Applied' = Applied
    BY <2>1 DEF Applied, InHand
  <2>5. QED
    BY <2>1, <2>3, <2>4, SameHistory DEF Promise!Read
<1>17. ASSUME NEW r \in Readers, CallValues(r) PROVE UNCHANGED Promise!vars
  BY <1>17 DEF CallValues, Applied, InHand, Promise!vars
<1>18. CASE Expire
  BY <1>18 DEF Expire, Applied, InHand, Promise!vars
<1>19. CASE CallStop
  <2>1. /\ log' = log /\ numCh' = numCh /\ pc' = pc /\ seen' = seen
        /\ closed' = TRUE /\ stop = "no" /\ stop' = "waiting"
    BY <1>19 DEF CallStop
  <2>2. ~closed
    BY <2>1 DEF IInv, ControlInv
  <2>3. Applied' = Applied
    BY <2>1 DEF Applied, InHand
  <2>4. QED
    BY <2>1, <2>2, <2>3 DEF Promise!Close, Promise!Next
<1>20. CASE StopReturns
  <2>1. /\ log' = log /\ numCh' = numCh /\ pc' = pc /\ seen' = seen
        /\ closed' = closed /\ done /\ stop = "waiting" /\ stop' = "returned"
    BY <1>20 DEF StopReturns
  <2>2. pc = "ended" /\ closed /\ numCh = <<>>
    BY <2>1 DEF IInv, ControlInv
  <2>3. Applied = Len(log) /\ Applied' = Applied
    BY <1>0, <2>1, <2>2 DEF Applied, InHand
  <2>4. QED
    BY <2>1, <2>2, <2>3 DEF Promise!Return, Promise!Next
<1>21. CASE UNCHANGED vars
  BY <1>21 DEF vars, Applied, InHand, Promise!vars
<1>22. QED
  BY <1>1, <1>2, <1>3, <1>4, <1>5, <1>6, <1>7, <1>8, <1>9, <1>10, <1>11, <1>12,
     <1>13, <1>14, <1>15, <1>16, <1>17, <1>18, <1>19, <1>20, <1>21
  DEF Next, Calculate, Receive, Serve, Promise!Next

(* Every behaviour of Async, through the refinement mapping, is one of the *)
(* abstract calculator: acceptance order, atomic application, reads of     *)
(* prefixes that never go back, nothing left over when Stop returns.       *)
THEOREM Implementation == Spec => ImplementsCalculator
<1>1. Init => Promise!Init
  <2> SUFFICES ASSUME Init PROVE Promise!Init
    OBVIOUS
  <2>1. Len(log) = 0 /\ Len(numCh) = 0 /\ InHand = 0
    BY DEF Init, InHand
  <2>2. Applied = 0
    BY <2>1 DEF Applied
  <2>3. QED
    BY <2>2 DEF Init, Promise!Init, ZeroValues, Promise!ZeroValues
<1>2. QED
  BY <1>1, PromiseStep, Inductive, PTL DEF Spec, ImplementsCalculator, Promise!Spec

=============================================================================

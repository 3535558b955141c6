------------------------ MODULE SyncCalculatorProofs ------------------------
(***************************************************************************)
(* Theorems about calculators.Sync for any calls, readers, numbers and     *)
(* width of the integers.                                                  *)
(***************************************************************************)
EXTENDS SyncCalculator, TLAPS

Entry == [num : Int64, vals : Values]

(***************************************************************************)
(* The operators and the history of the calls in line order.               *)
(***************************************************************************)
LEMMA OperatorsTyped ==
  ASSUME NEW a \in Int64, NEW b \in Int64
  PROVE  add(a, b) \in Int64 /\ sub(a, b) \in Int64
BY MaxIntAssumption DEF Int64, MinInt, add, sub, Wrap

LEMMA ZeroTyped == ZeroValues \in Values
BY MaxIntAssumption DEF ZeroValues, Values, Int64, MinInt

LEMMA ValuesAfterTyped ==
  ASSUME NEW l \in Seq(Entry), NEW i \in 0 .. Len(l)
  PROVE  ValuesAfter(l, i) \in Values
<1>1. CASE i = 0
  BY <1>1, ZeroTyped DEF ValuesAfter
<1>2. CASE i # 0
  <2>1. l[i] \in Entry
    BY <1>2
  <2>2. QED
    BY <1>2, <2>1 DEF ValuesAfter, Entry
<1>3. QED
  BY <1>1, <1>2

LEMMA ExtendedGrows ==
  ASSUME NEW l \in Seq(Entry), NEW n \in Int64
  PROVE  /\ Extended(l, n) \in Seq(Entry)
         /\ Len(Extended(l, n)) = Len(l) + 1
         /\ \A i \in 1 .. Len(l) : Extended(l, n)[i] = l[i]
         /\ \A i \in 0 .. Len(l) : ValuesAfter(Extended(l, n), i) = ValuesAfter(l, i)
         /\ Extended(l, n)[Len(l) + 1].num = n
         /\ Extended(l, n)[Len(l) + 1].vals = Calculated(ValuesAfter(l, Len(l)), n)
<1> DEFINE e == [num |-> n, vals |-> Calculated(ValuesAfter(l, Len(l)), n)]
<1>1. ValuesAfter(l, Len(l)) \in Values
  BY ValuesAfterTyped
<1>2. Calculated(ValuesAfter(l, Len(l)), n) \in Values
  BY <1>1, OperatorsTyped DEF Calculated, Values
<1>3. e \in Entry
  BY <1>2 DEF Entry
<1>4. /\ Append(l, e) \in Seq(Entry)
      /\ Len(Append(l, e)) = Len(l) + 1
      /\ \A i \in 1 .. Len(l) : Append(l, e)[i] = l[i]
      /\ Append(l, e)[Len(l) + 1] = e
  BY <1>3
<1>5. \A i \in 0 .. Len(l) : ValuesAfter(Append(l, e), i) = ValuesAfter(l, i)
  BY <1>4 DEF ValuesAfter
<1>6. QED
  BY <1>4, <1>5 DEF Extended

-----------------------------------------------------------------------------
(***************************************************************************)
(* Type correctness.  The plain ranges are not inductive by themselves: a  *)
(* Tail needs a line that is not empty.  The line gives that and more: it  *)
(* holds the goroutines between lock and unlock, each once, and whoever    *)
(* has begun to work on the totals heads it.                               *)
(***************************************************************************)
Types ==
  /\ lock \in Seq(Calls \cup Readers)
  /\ pc \in [Calls -> {"new", "add", "sub", "unlock", "record", "returned"}]
  /\ reading \in [Readers -> {"out", "lock", "unlock"}]
  /\ vals \in Values
  /\ got \in [Readers -> Values]
  /\ log \in Seq([num : Int64, vals : Values])
  /\ applied \in Nat
  /\ recorded \subseteq Calls

InLine(g) == \E i \in 1 .. Len(lock) : lock[i] = g

LineInv ==
  /\ \A i, j \in 1 .. Len(lock) : lock[i] = lock[j] => i = j
  /\ \A c \in Calls : pc[c] \in {"add", "sub", "unlock"} <=> InLine(c)
  /\ \A r \in Readers : reading[r] # "out" <=> InLine(r)
  /\ \A c \in Calls : pc[c] \in {"sub", "unlock"} => Holds(c)
  /\ \A r \in Readers : reading[r] = "unlock" => Holds(r)

LEMMA Held ==
  ASSUME lock \in Seq(Calls \cup Readers), NEW g, Holds(g)
  PROVE  /\ Len(lock) \in Nat /\ Len(lock) > 0 /\ lock[1] = g /\ InLine(g)
         /\ Tail(lock) \in Seq(Calls \cup Readers)
         /\ Len(Tail(lock)) = Len(lock) - 1
         /\ \A i \in 1 .. Len(lock) - 1 : Tail(lock)[i] = lock[i + 1]
<1>1. lock # <<>> /\ Len(lock) \in Nat /\ Len(lock) > 0 /\ Head(lock) = g
  BY DEF Holds
<1>2. lock[1] = g
  BY <1>1
<1>3. QED
  BY <1>1, <1>2 DEF InLine

(* Whoever leaves the line leaves the others in it, in their order. *)
LEMMA LeavesLine ==
  ASSUME Types, LineInv, NEW g, Holds(g), lock' = Tail(lock)
  PROVE  /\ lock' \in Seq(Calls \cup Readers)
         /\ \A i, j \in 1 .. Len(lock') : lock'[i] = lock'[j] => i = j
         /\ ~InLine(g)'
         /\ \A h : h # g => (InLine(h)' <=> InLine(h))
<1>1. /\ Len(lock) \in Nat /\ Len(lock) > 0 /\ lock[1] = g
      /\ lock' \in Seq(Calls \cup Readers)
      /\ Len(lock') = Len(lock) - 1
      /\ \A i \in 1 .. Len(lock) - 1 : lock'[i] = lock[i + 1]
  BY Held DEF Types
<1>2. ASSUME NEW i \in 1 .. Len(lock'), NEW j \in 1 .. Len(lock'), lock'[i] = lock'[j]
      PROVE  i = j
  <2>1. i + 1 \in 1 .. Len(lock) /\ j + 1 \in 1 .. Len(lock) /\ lock[i + 1] = lock[j + 1]
    BY <1>1, <1>2
  <2>2. i + 1 = j + 1
    BY <2>1 DEF LineInv
  <2>3. QED
    BY <2>2
<1>3. ASSUME NEW i \in 1 .. Len(lock'), lock'[i] = g PROVE FALSE
  <2>1. i + 1 \in 1 .. Len(lock) /\ 1 \in 1 .. Len(lock) /\ lock[i + 1] = lock[1]
    BY <1>1, <1>3
  <2>2. i + 1 = 1
    BY <2>1 DEF LineInv
  <2>3. QED
    BY <2>2
<1>4. ASSUME NEW h, h # g PROVE InLine(h)' <=> InLine(h)
  <2>1. ASSUME NEW i \in 1 .. Len(lock'), lock'[i] = h PROVE InLine(h)
    <3>1. i + 1 \in 1 .. Len(lock) /\ lock[i + 1] = h
      BY <1>1, <2>1
    <3>2. QED
      BY <3>1 DEF InLine
  <2>2. ASSUME NEW i \in 1 .. Len(lock), lock[i] = h PROVE InLine(h)'
    <3>1. i # 1
      BY <1>1, <1>4, <2>2
    <3>2. i - 1 \in 1 .. Len(lock') /\ i - 1 \in 1 .. Len(lock) - 1
      BY <1>1, <3>1
    <3>3. lock'[i - 1] = lock[(i - 1) + 1]
      BY <1>1, <3>2
    <3>4. lock'[i - 1] = h
      BY <1>1, <2>2, <3>3, (i - 1) + 1 = i
    <3>5. QED
      BY <3>2, <3>4 DEF InLine
  <2>3. QED
    BY <2>1, <2>2 DEF InLine
<1>5. QED
  BY <1>1, <1>2, <1>3, <1>4 DEF InLine

(* Whoever joins the line comes last. *)
LEMMA JoinsLine ==
  ASSUME Types, LineInv, NEW g \in Calls \cup Readers, ~InLine(g),
         lock' = Append(lock, g)
  PROVE  /\ lock' \in Seq(Calls \cup Readers)
         /\ Len(lock) \in Nat /\ Len(lock') = Len(lock) + 1
         /\ \A i \in 1 .. Len(lock) : lock'[i] = lock[i]
         /\ lock'[Len(lock) + 1] = g
         /\ \A i, j \in 1 .. Len(lock') : lock'[i] = lock'[j] => i = j
         /\ \A h : InLine(h)' <=> (InLine(h) \/ h = g)
         /\ \A h : Holds(h) => Holds(h)'
<1>1. /\ lock \in Seq(Calls \cup Readers) /\ lock' \in Seq(Calls \cup Readers)
      /\ Len(lock) \in Nat /\ Len(lock') = Len(lock) + 1
      /\ \A i \in 1 .. Len(lock) : lock'[i] = lock[i]
      /\ lock'[Len(lock) + 1] = g
  BY DEF Types
<1>2. ASSUME NEW i \in 1 .. Len(lock'), NEW j \in 1 .. Len(lock'), lock'[i] = lock'[j]
      PROVE  i = j
  BY <1>1, <1>2 DEF LineInv, InLine
<1>3. ASSUME NEW h PROVE InLine(h)' <=> (InLine(h) \/ h = g)
  <2>1. ASSUME InLine(h) PROVE InLine(h)'
    BY <1>1, <2>1 DEF InLine
  <2>2. ASSUME h = g PROVE InLine(h)'
    BY <1>1, <2>2 DEF InLine
  <2>3. ASSUME InLine(h)', h # g PROVE InLine(h)
    BY <1>1, <2>3 DEF InLine
  <2>4. QED
    BY <2>1, <2>2, <2>3
<1>4. ASSUME NEW h, Holds(h) PROVE Holds(h)'
  <2>1. Len(lock) > 0 /\ lock[1] = h
    BY <1>1, <1>4, Held
  <2>2. lock'[1] = h /\ Len(lock') > 0
    BY <1>1, <2>1
  <2>3. QED
    BY <1>1, <2>2 DEF Holds
<1>5. QED
  BY <1>1, <1>2, <1>3, <1>4

TypeInv == Types /\ LineInv

LEMMA TypeInvInit == Init => TypeInv
<1> SUFFICES ASSUME Init PROVE TypeInv
  OBVIOUS
<1>1. Types
  BY ZeroTyped DEF Init, Types
<1>2. Len(lock) = 0
  BY DEF Init
<1>3. LineInv
  BY <1>2 DEF Init, LineInv, InLine
<1>4. QED
  BY <1>1, <1>3 DEF TypeInv

LEMMA TypeInvNext == TypeInv /\ [Next]_vars => TypeInv'
<1> SUFFICES ASSUME TypeInv, [Next]_vars PROVE TypeInv'
  OBVIOUS
<1>0. /\ Types /\ LineInv /\ lock \in Seq(Calls \cup Readers)
      /\ Calls \cap Readers = {}
  BY SyncAssumption DEF TypeInv, Types
<1>1. ASSUME NEW c \in Calls, CallCalculate(c) PROVE TypeInv'
  <2>1. log' \in Seq(Entry)
    <3>1. num[c] \in Int64 /\ log \in Seq(Entry)
      BY <1>0, SyncAssumption DEF Types, Entry
    <3>2. QED
      BY <1>1, <3>1, ExtendedGrows DEF CallCalculate
  <2>2. ~InLine(c)
    BY <1>0, <1>1 DEF CallCalculate, LineInv
  <2>3. /\ lock' \in Seq(Calls \cup Readers)
        /\ \A i, j \in 1 .. Len(lock') : lock'[i] = lock'[j] => i = j
        /\ \A h : InLine(h)' <=> (InLine(h) \/ h = c)
        /\ \A h : Holds(h) => Holds(h)'
    BY <1>0, <1>1, <2>2, JoinsLine DEF CallCalculate
  <2>4. Types'
    BY <1>0, <1>1, <2>1, <2>3 DEF Types, CallCalculate, Entry
  <2>5. LineInv'
    BY <1>0, <1>1, <2>3 DEF Types, CallCalculate, LineInv
  <2>6. QED
    BY <2>4, <2>5 DEF TypeInv
<1>2. ASSUME NEW c \in Calls, CallAdd(c) PROVE TypeInv'
  <2>1. Types'
    <3>1. vals' \in Values
      BY <1>0, <1>2, OperatorsTyped, SyncAssumption DEF Types, CallAdd, Values
    <3>2. QED
      BY <1>0, <1>2, <3>1 DEF Types, CallAdd
  <2>2. LineInv'
    BY <1>0, <1>2 DEF Types, LineInv, InLine, Holds, CallAdd
  <2>3. QED
    BY <2>1, <2>2 DEF TypeInv
<1>3. ASSUME NEW c \in Calls, CallSub(c) PROVE TypeInv'
  <2>1. Types'
    <3>1. vals' \in Values
      BY <1>0, <1>3, OperatorsTyped, SyncAssumption DEF Types, CallSub, Values
    <3>2. QED
      BY <1>0, <1>3, <3>1 DEF Types, CallSub
  <2>2. LineInv'
    BY <1>0, <1>3 DEF Types, LineInv, InLine, Holds, CallSub
  <2>3. QED
    BY <2>1, <2>2 DEF TypeInv
<1>4. ASSUME NEW c \in Calls, Unlock(c) PROVE TypeInv'
  <2>1. Holds(c)
    BY <1>0, <1>4 DEF LineInv, Unlock
  <2>2. /\ lock' \in Seq(Calls \cup Readers)
        /\ \A i, j \in 1 .. Len(lock') : lock'[i] = lock'[j] => i = j
        /\ ~InLine(c)'
        /\ \A h : h # c => (InLine(h)' <=> InLine(h))
    BY <1>0, <1>4, <2>1, LeavesLine DEF Unlock
  <2>3. Types'
    BY <1>0, <1>4, <2>2 DEF Types, Unlock
  <2>4. /\ \A d \in Calls : d # c => pc[d] \notin {"sub", "unlock"}
        /\ \A r \in Readers : reading[r] # "unlock"
    BY <1>0, <2>1 DEF LineInv, Holds
  <2>5. LineInv'
    BY <1>0, <1>4, <2>2, <2>4 DEF Types, Unlock, LineInv
  <2>6. QED
    BY <2>3, <2>5 DEF TypeInv
<1>5. ASSUME NEW c \in Calls, Record(c) PROVE TypeInv'
  BY <1>0, <1>5 DEF TypeInv, Types, LineInv, InLine, Holds, Record
<1>6. ASSUME NEW r \in Readers, CallValues(r) PROVE TypeInv'
  <2>1. ~InLine(r)
    BY <1>0, <1>6 DEF CallValues, LineInv
  <2>2. /\ lock' \in Seq(Calls \cup Readers)
        /\ \A i, j \in 1 .. Len(lock') : lock'[i] = lock'[j] => i = j
        /\ \A h : InLine(h)' <=> (InLine(h) \/ h = r)
        /\ \A h : Holds(h) => Holds(h)'
    BY <1>0, <1>6, <2>1, JoinsLine DEF CallValues
  <2>3. Types'
    BY <1>0, <1>6, <2>2 DEF Types, CallValues
  <2>4. LineInv'
    BY <1>0, <1>6, <2>2 DEF Types, CallValues, LineInv
  <2>5. QED
    BY <2>3, <2>4 DEF TypeInv
<1>7. ASSUME NEW r \in Readers, Copy(r) PROVE TypeInv'
  <2>1. Types'
    BY <1>0, <1>7 DEF Types, Copy
  <2>2. LineInv'
    BY <1>0, <1>7 DEF Types, LineInv, InLine, Holds, Copy
  <2>3. QED
    BY <2>1, <2>2 DEF TypeInv
<1>8. ASSUME NEW r \in Readers, ReturnValues(r) PROVE TypeInv'
  <2>1. Holds(r)
    BY <1>0, <1>8 DEF LineInv, ReturnValues
  <2>2. /\ lock' \in Seq(Calls \cup Readers)
        /\ \A i, j \in 1 .. Len(lock') : lock'[i] = lock'[j] => i = j
        /\ ~InLine(r)'
        /\ \A h : h # r => (InLine(h)' <=> InLine(h))
    BY <1>0, <1>8, <2>1, LeavesLine DEF ReturnValues
  <2>3. Types'
    BY <1>0, <1>8, <2>2 DEF Types, ReturnValues
  <2>4. /\ \A c \in Calls : pc[c] \notin {"sub", "unlock"}
        /\ \A q \in Readers : q # r => reading[q] # "unlock"
    BY <1>0, <2>1 DEF LineInv, Holds
  <2>5. LineInv'
    BY <1>0, <1>8, <2>2, <2>4 DEF Types, ReturnValues, LineInv
  <2>6. QED
    BY <2>3, <2>5 DEF TypeInv
<1>9. CASE UNCHANGED vars
  BY <1>0, <1>9 DEF TypeInv, Types, LineInv, InLine, Holds, vars
<1>10. QED
  BY <1>1, <1>2, <1>3, <1>4, <1>5, <1>6, <1>7, <1>8, <1>9
  DEF Next, Calculate, ReadValues

(* Sync keeps its types: both totals remain int64 values, and the line of  *)
(* the lock holds whoever is between lock and unlock, each once.           *)
THEOREM Typing == Spec => []TypeOK
<1>1. TypeInv => TypeOK
  <2> SUFFICES ASSUME TypeInv PROVE TypeOK
    OBVIOUS
  <2>1. Types /\ LineInv /\ DOMAIN lock = 1 .. Len(lock)
    BY DEF TypeInv, Types
  <2>2. IsInjective(lock)
    BY <2>1 DEF IsInjective, LineInv
  <2>3. ASSUME NEW g \in Calls \cup Readers
        PROVE  g \in Range(lock) <=> g \in Waiting
    <3>1. g \in Range(lock) <=> InLine(g)
      BY <2>1 DEF Range, InLine
    <3>2. g \in Waiting <=> InLine(g)
      BY <2>1, SyncAssumption DEF Waiting, LineInv
    <3>3. QED
      BY <3>1, <3>2
  <2>4. Range(lock) \subseteq Calls \cup Readers /\ Waiting \subseteq Calls \cup Readers
    BY <2>1 DEF Types, Range, Waiting
  <2>5. QED
    BY <2>1, <2>2, <2>3, <2>4 DEF Types, TypeOK
<1>2. QED
  BY <1>1, TypeInvInit, TypeInvNext, PTL DEF Spec

(* The channel of capacity 1 is a lock: of all goroutines that have come   *)
(* out of `c.lock <- struct{}{}` and have not received from it again, one  *)
(* at most has begun to work on the totals or to copy them.                *)
Inside(g) ==
  \/ g \in Calls /\ pc[g] \in {"sub", "unlock"}
  \/ g \in Readers /\ reading[g] = "unlock"

MutualExclusion ==
  \A g, h \in Calls \cup Readers : Inside(g) /\ Inside(h) => g = h

(* The lock excludes: no goroutine works on the totals, or copies them,    *)
(* while another does.                                                     *)
THEOREM LockExcludes == Spec => []MutualExclusion
<1>1. TypeInv => MutualExclusion
  BY DEF TypeInv, LineInv, Inside, MutualExclusion, Holds
<1>2. QED
  BY <1>1, TypeInvInit, TypeInvNext, PTL DEF Spec

-----------------------------------------------------------------------------
(***************************************************************************)
(* The calls in line whose numbers are not applied yet are the last ones   *)
(* of the history, in the order of the line; `at` says where each of them  *)
(* is.  The totals are those of the numbers before, except between the two *)
(* native calls, when Sum is one number ahead.                             *)
(***************************************************************************)
Pending(c) == pc[c] \in {"add", "sub"}

IsPlace(at) ==
  /\ \A c \in Calls :
       Pending(c) => at[c] \in applied + 1 .. Len(log) /\ log[at[c]].num = num[c]
  /\ \A k \in applied + 1 .. Len(log) : \E c \in Calls : Pending(c) /\ at[c] = k
  /\ \A i, j \in 1 .. Len(lock) :
       i < j /\ lock[i] \in Calls /\ lock[j] \in Calls /\ Pending(lock[i])
         => at[lock[i]] < at[lock[j]]

OrderInv ==
  /\ applied <= Len(log)
  /\ \E at \in [Calls -> 0 .. Len(log)] : IsPlace(at)

LogInv ==
  \A i \in 1 .. Len(log) : log[i].vals = Calculated(ValuesAfter(log, i - 1), log[i].num)

TotalsInv ==
  /\ (\A c \in Calls : pc[c] # "sub") => vals = ValuesAfter(log, applied)
  /\ \A c \in Calls : pc[c] = "sub" =>
       vals = [Sum |-> add(ValuesAfter(log, applied).Sum, num[c]),
               Sub |-> ValuesAfter(log, applied).Sub]

IInv == TypeInv /\ OrderInv /\ LogInv /\ TotalsInv

LEMMA IInvInit == Init => IInv
<1> SUFFICES ASSUME Init PROVE IInv
  OBVIOUS
<1>1. TypeInv /\ Len(log) = 0 /\ applied = 0 /\ Len(lock) = 0 /\ vals = ZeroValues
  BY TypeInvInit DEF Init
<1>2. \A c \in Calls : pc[c] = "new"
  BY DEF Init
<1>3. IsPlace([c \in Calls |-> 0])
  BY <1>1, <1>2 DEF IsPlace, Pending
<1>4. OrderInv
  <2>1. [c \in Calls |-> 0] \in [Calls -> 0 .. Len(log)]
    BY <1>1
  <2>2. QED
    BY <1>1, <1>3, <2>1 DEF OrderInv
<1>5. LogInv
  BY <1>1 DEF LogInv
<1>6. TotalsInv
  BY <1>1, <1>2 DEF TotalsInv, ValuesAfter
<1>7. QED
  BY <1>1, <1>4, <1>5, <1>6 DEF IInv

(* The call that heads the line has the first number not applied yet.      *)
LEMMA HeadIsNext ==
  ASSUME IInv, NEW at \in [Calls -> 0 .. Len(log)], IsPlace(at),
         NEW c \in Calls, Holds(c), Pending(c)
  PROVE  applied < Len(log) /\ at[c] = applied + 1 /\ log[applied + 1].num = num[c]
<1>1. /\ lock \in Seq(Calls \cup Readers) /\ log \in Seq(Entry) /\ applied \in Nat
      /\ Len(log) \in Nat
  BY DEF IInv, TypeInv, Types, Entry
<1>2. Len(lock) \in Nat /\ Len(lock) > 0 /\ lock[1] = c
  BY <1>1, Held
<1>3. at[c] \in applied + 1 .. Len(log) /\ log[at[c]].num = num[c]
  BY DEF IsPlace
<1>4. applied + 1 \in applied + 1 .. Len(log)
  BY <1>1, <1>3
<1>5. PICK d \in Calls : Pending(d) /\ at[d] = applied + 1
  BY <1>4 DEF IsPlace
<1>6. d = c
  <2>1. PICK j \in 1 .. Len(lock) : lock[j] = d
    BY <1>5 DEF Pending, IInv, TypeInv, LineInv, InLine
  <2>2. CASE j = 1
    BY <1>2, <2>1, <2>2
  <2>3. CASE j # 1
    <3>1. 1 \in 1 .. Len(lock) /\ 1 < j
      BY <1>2, <2>1, <2>3
    <3>2. at[c] < at[d]
      BY <1>2, <2>1, <3>1 DEF IsPlace
    <3>3. QED
      BY <1>1, <1>3, <1>5, <3>2
  <2>4. QED
    BY <2>2, <2>3
<1>7. QED
  BY <1>1, <1>3, <1>5, <1>6

(* Steps that change neither the history nor who is pending.               *)
LEMMA OrderFrame ==
  ASSUME OrderInv, log' = log, applied' = applied,
         \A c \in Calls : Pending(c)' <=> Pending(c),
         \A i, j \in 1 .. Len(lock') :
           i < j /\ lock'[i] \in Calls /\ lock'[j] \in Calls /\ Pending(lock[i])'
           => \E k, n \in 1 .. Len(lock) : /\ k < n /\ lock[k] = lock'[i]
                                          /\ lock[n] = lock'[j]
  PROVE  OrderInv'
<1>1. PICK at \in [Calls -> 0 .. Len(log)] : IsPlace(at)
  BY DEF OrderInv
<1>2. ASSUME NEW i \in 1 .. Len(lock'), NEW j \in 1 .. Len(lock'), i < j,
             lock'[i] \in Calls, lock'[j] \in Calls, Pending(lock[i])'
      PROVE  at[lock'[i]] < at[lock'[j]]
  <2>1. PICK k \in 1 .. Len(lock), n \in 1 .. Len(lock) :
          k < n /\ lock[k] = lock'[i] /\ lock[n] = lock'[j]
    BY <1>2
  <2>2. Pending(lock[k])
    BY <1>2, <2>1 DEF Pending
  <2>3. QED
    BY <1>1, <1>2, <2>1, <2>2 DEF IsPlace
<1>3. \A c \in Calls :
        Pending(c)' => at[c] \in applied' + 1 .. Len(log') /\ log'[at[c]].num = num[c]
  BY <1>1 DEF IsPlace
<1>4. \A k \in applied' + 1 .. Len(log') : \E c \in Calls : Pending(c)' /\ at[c] = k
  BY <1>1 DEF IsPlace
<1>5. IsPlace(at)'
  BY <1>2, <1>3, <1>4 DEF IsPlace
<1>6. QED
  BY <1>1, <1>5 DEF OrderInv

(* A call joins the line, and its number the history.                      *)
LEMMA OrderJoin ==
  ASSUME IInv, NEW c \in Calls, CallCalculate(c) PROVE OrderInv'
<1>1. /\ Types /\ LineInv /\ applied \in Nat /\ log \in Seq(Entry) /\ Len(log) \in Nat
      /\ num[c] \in Int64 /\ applied <= Len(log) /\ lock \in Seq(Calls \cup Readers)
      /\ pc \in [Calls -> {"new", "add", "sub", "unlock", "record", "returned"}]
  BY SyncAssumption DEF IInv, TypeInv, Types, OrderInv, Entry
<1>2. /\ lock' = Append(lock, c) /\ log' = Extended(log, num[c]) /\ applied' = applied
      /\ pc[c] = "new" /\ pc' = [pc EXCEPT ![c] = "add"]
  BY DEF CallCalculate
<1>3. PICK at \in [Calls -> 0 .. Len(log)] : IsPlace(at)
  BY DEF IInv, OrderInv
<1>4. /\ Len(log') = Len(log) + 1 /\ log'[Len(log) + 1].num = num[c]
      /\ \A i \in 1 .. Len(log) : log'[i] = log[i]
  BY <1>1, <1>2, ExtendedGrows
<1>5. /\ Len(lock) \in Nat /\ Len(lock') = Len(lock) + 1
      /\ \A i \in 1 .. Len(lock) : lock'[i] = lock[i]
      /\ lock'[Len(lock) + 1] = c
  BY <1>1, <1>2
<1>6. ~InLine(c)
  BY <1>1, <1>2 DEF LineInv
<1>7. [at EXCEPT ![c] = Len(log) + 1] \in [Calls -> 0 .. Len(log) + 1]
  BY <1>1
<1>8. PICK new \in [Calls -> 0 .. Len(log) + 1] : new = [at EXCEPT ![c] = Len(log) + 1]
  BY <1>7
<1>9. new \in [Calls -> 0 .. Len(log')] /\ new[c] = Len(log) + 1
  BY <1>4, <1>8
<1>10. \A d \in Calls : d # c => new[d] = at[d] /\ (Pending(d)' <=> Pending(d))
  BY <1>1, <1>2, <1>8 DEF Pending
<1>11. ASSUME NEW d \in Calls, Pending(d)'
      PROVE  new[d] \in applied' + 1 .. Len(log') /\ log'[new[d]].num = num[d]
  <2>1. CASE d = c
    BY <1>1, <1>2, <1>4, <1>9, <2>1
  <2>2. CASE d # c
    <3>1. new[d] = at[d] /\ at[d] \in applied + 1 .. Len(log) /\ log[at[d]].num = num[d]
      BY <1>3, <1>10, <1>11, <2>2 DEF IsPlace
    <3>2. at[d] \in 1 .. Len(log) /\ log'[at[d]] = log[at[d]]
      BY <1>1, <1>4, <3>1
    <3>3. QED
      BY <1>1, <1>2, <1>4, <3>1, <3>2
  <2>3. QED
    BY <2>1, <2>2
<1>12. ASSUME NEW k \in applied' + 1 .. Len(log')
       PROVE  \E d \in Calls : Pending(d)' /\ new[d] = k
  <2>1. CASE k = Len(log) + 1
    BY <1>1, <1>2, <1>9, <2>1 DEF Pending
  <2>2. CASE k # Len(log) + 1
    <3>1. k \in applied + 1 .. Len(log)
      BY <1>1, <1>2, <1>4, <2>2
    <3>2. PICK d \in Calls : Pending(d) /\ at[d] = k
      BY <1>3, <3>1 DEF IsPlace
    <3>3. d # c
      BY <1>2, <3>2 DEF Pending
    <3>4. QED
      BY <1>10, <3>2, <3>3
  <2>3. QED
    BY <2>1, <2>2
<1>13. ASSUME NEW i \in 1 .. Len(lock'), NEW j \in 1 .. Len(lock'), i < j,
              lock'[i] \in Calls, lock'[j] \in Calls, Pending(lock[i])'
       PROVE  new[lock'[i]] < new[lock'[j]]
  <2>1. i \in 1 .. Len(lock) /\ lock'[i] = lock[i] /\ lock[i] # c
    <3>1. i \in 1 .. Len(lock)
      BY <1>5, <1>13
    <3>2. QED
      BY <1>5, <1>6, <3>1 DEF InLine
  <2>2. new[lock[i]] = at[lock[i]] /\ Pending(lock[i])
    BY <1>2, <1>10, <1>13, <2>1 DEF Pending
  <2>3. at[lock[i]] \in applied + 1 .. Len(log)
    BY <1>3, <1>13, <2>1, <2>2 DEF IsPlace
  <2>4. CASE j = Len(lock) + 1
    BY <1>1, <1>5, <1>9, <2>1, <2>2, <2>3, <2>4
  <2>5. CASE j # Len(lock) + 1
    <3>1. j \in 1 .. Len(lock) /\ lock'[j] = lock[j]
      BY <1>5, <2>5
    <3>2. lock[j] # c
      BY <1>6, <3>1 DEF InLine
    <3>3. at[lock[i]] < at[lock[j]]
      BY <1>3, <1>13, <2>1, <2>2, <3>1 DEF IsPlace
    <3>4. new[lock[j]] = at[lock[j]]
      BY <1>10, <1>13, <3>1, <3>2
    <3>5. QED
      BY <2>1, <2>2, <3>1, <3>3, <3>4
  <2>6. QED
    BY <2>4, <2>5
<1>14. IsPlace(new)'
  BY <1>11, <1>12, <1>13 DEF IsPlace
<1>15. applied' <= Len(log')
  BY <1>1, <1>2, <1>4
<1>16. QED
  BY <1>14, <1>15, <1>9 DEF OrderInv

(* The head of the line has its number applied.                            *)
LEMMA OrderApply ==
  ASSUME IInv, NEW c \in Calls, CallSub(c)
  PROVE  OrderInv' /\ applied < Len(log) /\ log[applied + 1].num = num[c]
<1>1. /\ Types /\ LineInv /\ applied \in Nat /\ log \in Seq(Entry) /\ Len(log) \in Nat
      /\ applied <= Len(log) /\ lock \in Seq(Calls \cup Readers)
      /\ pc \in [Calls -> {"new", "add", "sub", "unlock", "record", "returned"}]
  BY DEF IInv, TypeInv, Types, OrderInv, Entry
<1>2. /\ lock' = lock /\ log' = log /\ applied' = applied + 1
      /\ pc[c] = "sub" /\ pc' = [pc EXCEPT ![c] = "unlock"]
  BY DEF CallSub
<1>3. PICK at \in [Calls -> 0 .. Len(log)] : IsPlace(at)
  BY DEF IInv, OrderInv
<1>4. Holds(c) /\ Pending(c)
  BY <1>1, <1>2 DEF LineInv, Pending
<1>5. applied < Len(log) /\ at[c] = applied + 1 /\ log[applied + 1].num = num[c]
  BY <1>3, <1>4, HeadIsNext
<1>6. Len(lock) \in Nat /\ Len(lock) > 0 /\ lock[1] = c
  BY <1>1, <1>4, Held
<1>7. \A d \in Calls : (Pending(d)' <=> Pending(d) /\ d # c)
  BY <1>1, <1>2 DEF Pending
<1>8. ASSUME NEW d \in Calls, Pending(d)'
      PROVE  at[d] \in applied' + 1 .. Len(log') /\ log'[at[d]].num = num[d]
  <2>1. Pending(d) /\ d # c
    BY <1>7, <1>8
  <2>2. at[d] \in applied + 1 .. Len(log) /\ log[at[d]].num = num[d]
    BY <1>3, <2>1 DEF IsPlace
  <2>3. PICK j \in 1 .. Len(lock) : lock[j] = d
    BY <1>1, <2>1 DEF Pending, LineInv, InLine
  <2>4. 1 \in 1 .. Len(lock) /\ 1 < j
    BY <1>6, <2>1, <2>3
  <2>5. at[c] < at[d]
    BY <1>3, <1>4, <1>6, <2>3, <2>4 DEF IsPlace
  <2>6. QED
    BY <1>1, <1>2, <1>5, <2>2, <2>5
<1>9. ASSUME NEW k \in applied' + 1 .. Len(log')
      PROVE  \E d \in Calls : Pending(d)' /\ at[d] = k
  <2>1. k \in applied + 1 .. Len(log) /\ k # applied + 1
    BY <1>1, <1>2, <1>9
  <2>2. PICK d \in Calls : Pending(d) /\ at[d] = k
    BY <1>3, <2>1 DEF IsPlace
  <2>3. QED
    BY <1>5, <1>7, <2>1, <2>2
<1>10. ASSUME NEW i \in 1 .. Len(lock'), NEW j \in 1 .. Len(lock'), i < j,
              lock'[i] \in Calls, lock'[j] \in Calls, Pending(lock[i])'
       PROVE  at[lock'[i]] < at[lock'[j]]
  <2>1. Pending(lock[i])
    BY <1>2, <1>7, <1>10 DEF Pending
  <2>2. QED
    BY <1>2, <1>3, <1>10, <2>1 DEF IsPlace
<1>11. IsPlace(at)'
  BY <1>8, <1>9, <1>10 DEF IsPlace
<1>12. QED
  BY <1>1, <1>2, <1>3, <1>5, <1>11 DEF OrderInv

LEMMA LogInvJoin ==
  ASSUME IInv, NEW c \in Calls, CallCalculate(c) PROVE LogInv'
<1>1. log \in Seq(Entry) /\ Len(log) \in Nat /\ num[c] \in Int64
  BY SyncAssumption DEF IInv, TypeInv, Types, Entry
<1>2. log' = Extended(log, num[c])
  BY DEF CallCalculate
<1>3. /\ Len(log') = Len(log) + 1
      /\ \A i \in 1 .. Len(log) : log'[i] = log[i]
      /\ \A i \in 0 .. Len(log) : ValuesAfter(log', i) = ValuesAfter(log, i)
      /\ log'[Len(log) + 1].num = num[c]
      /\ log'[Len(log) + 1].vals = Calculated(ValuesAfter(log, Len(log)), num[c])
  BY <1>1, <1>2, ExtendedGrows
<1>4. ASSUME NEW i \in 1 .. Len(log')
      PROVE  log'[i].vals = Calculated(ValuesAfter(log', i - 1), log'[i].num)
  <2>1. CASE i = Len(log) + 1
    BY <1>1, <1>3, <2>1, i - 1 = Len(log)
  <2>2. CASE i # Len(log) + 1
    <3>1. i \in 1 .. Len(log) /\ i - 1 \in 0 .. Len(log)
      BY <1>1, <1>3, <2>2
    <3>2. log[i].vals = Calculated(ValuesAfter(log, i - 1), log[i].num)
      BY <3>1 DEF IInv, LogInv
    <3>3. QED
      BY <1>3, <3>1, <3>2
  <2>3. QED
    BY <2>1, <2>2
<1>5. QED
  BY <1>4 DEF LogInv

LEMMA IInvNext == IInv /\ [Next]_vars => IInv'
<1> SUFFICES ASSUME IInv, [Next]_vars PROVE IInv'
  OBVIOUS
<1>0. /\ TypeInv' /\ Types /\ LineInv /\ OrderInv /\ LogInv /\ TotalsInv
      /\ lock \in Seq(Calls \cup Readers) /\ Len(lock) \in Nat
      /\ log \in Seq(Entry) /\ Len(log) \in Nat
      /\ applied \in Nat /\ applied <= Len(log) /\ vals \in Values
      /\ pc \in [Calls -> {"new", "add", "sub", "unlock", "record", "returned"}]
      /\ Calls \cap Readers = {}
  BY TypeInvNext, SyncAssumption DEF IInv, TypeInv, Types, OrderInv, Entry
<1>1. ASSUME NEW c \in Calls, CallCalculate(c) PROVE IInv'
  <2>1. num[c] \in Int64 /\ log' = Extended(log, num[c]) /\ applied' = applied
        /\ vals' = vals /\ pc' = [pc EXCEPT ![c] = "add"] /\ pc[c] = "new"
    BY <1>1, SyncAssumption DEF CallCalculate
  <2>2. ValuesAfter(log', applied) = ValuesAfter(log, applied)
    BY <1>0, <2>1, ExtendedGrows
  <2>3. TotalsInv'
    BY <1>0, <2>1, <2>2 DEF TotalsInv
  <2>4. QED
    BY <1>0, <1>1, <2>3, OrderJoin, LogInvJoin DEF IInv
<1>2. ASSUME NEW c \in Calls, CallAdd(c) PROVE IInv'
  <2>1. /\ lock' = lock /\ log' = log /\ applied' = applied /\ Holds(c)
        /\ vals' = [vals EXCEPT !.Sum = add(vals.Sum, num[c])]
        /\ pc' = [pc EXCEPT ![c] = "sub"] /\ pc[c] = "add"
    BY <1>2 DEF CallAdd
  <2>2. \A d \in Calls : pc[d] # "sub"
    BY <1>0, <2>1 DEF LineInv, Holds
  <2>3. vals = ValuesAfter(log, applied)
    BY <1>0, <2>2 DEF TotalsInv
  <2>4. vals' = [Sum |-> add(ValuesAfter(log, applied).Sum, num[c]),
                 Sub |-> ValuesAfter(log, applied).Sub]
    BY <1>0, <2>1, <2>3 DEF Values
  <2>5. \A d \in Calls : pc'[d] = "sub" <=> d = c
    BY <1>0, <2>1, <2>2
  <2>6. TotalsInv'
    BY <2>1, <2>4, <2>5 DEF TotalsInv
  <2>7. OrderInv'
    BY <1>0, <2>1, OrderFrame DEF Pending
  <2>8. QED
    BY <1>0, <2>1, <2>6, <2>7 DEF IInv, LogInv
<1>3. ASSUME NEW c \in Calls, CallSub(c) PROVE IInv'
  <2>1. /\ log' = log /\ applied' = applied + 1
        /\ vals' = [vals EXCEPT !.Sub = sub(vals.Sub, num[c])]
        /\ pc' = [pc EXCEPT ![c] = "unlock"] /\ pc[c] = "sub"
    BY <1>3 DEF CallSub
  <2>2. OrderInv' /\ applied < Len(log) /\ log[applied + 1].num = num[c]
    BY <1>3, OrderApply
  <2>3. \A d \in Calls : pc'[d] # "sub"
    BY <1>0, <2>1 DEF LineInv, Holds
  <2>4. vals = [Sum |-> add(ValuesAfter(log, applied).Sum, num[c]),
                Sub |-> ValuesAfter(log, applied).Sub]
    BY <1>0, <2>1 DEF TotalsInv
  <2>5. vals' = Calculated(ValuesAfter(log, applied), num[c])
    BY <2>1, <2>4 DEF Calculated
  <2>6. applied + 1 \in 1 .. Len(log) /\ (applied + 1) - 1 = applied
    BY <1>0, <2>2
  <2>7. log[applied + 1].vals = Calculated(ValuesAfter(log, applied), num[c])
    BY <1>0, <2>2, <2>6 DEF LogInv
  <2>8. vals' = ValuesAfter(log, applied + 1)
    BY <1>0, <2>5, <2>6, <2>7 DEF ValuesAfter
  <2>9. TotalsInv'
    BY <2>1, <2>3, <2>8 DEF TotalsInv
  <2>10. QED
    BY <1>0, <2>1, <2>2, <2>9 DEF IInv, LogInv
<1>4. ASSUME NEW g, Holds(g), lock' = Tail(lock), log' = log, applied' = applied,
             vals' = vals,
             \A c \in Calls : (pc'[c] \in {"add", "sub"} <=> pc[c] \in {"add", "sub"})
                             /\ (pc'[c] = "sub" <=> pc[c] = "sub")
      PROVE  IInv'
  <2>1. /\ Len(lock') = Len(lock) - 1
        /\ \A i \in 1 .. Len(lock) - 1 : lock'[i] = lock[i + 1]
    BY <1>0, <1>4, Held
  <2>2. ASSUME NEW i \in 1 .. Len(lock'), NEW j \in 1 .. Len(lock'), i < j
        PROVE  \E k, n \in 1 .. Len(lock) : /\ k < n /\ lock[k] = lock'[i]
                                            /\ lock[n] = lock'[j]
    <3>1. i + 1 \in 1 .. Len(lock) /\ j + 1 \in 1 .. Len(lock) /\ i + 1 < j + 1
      BY <1>0, <2>1, <2>2
    <3>2. lock'[i] = lock[i + 1] /\ lock'[j] = lock[j + 1]
      BY <1>0, <2>1, <2>2
    <3>3. QED
      BY <3>1, <3>2
  <2>3. \A c \in Calls : Pending(c)' <=> Pending(c)
    BY <1>4 DEF Pending
  <2>4. OrderInv'
    BY <1>0, <1>4, <2>2, <2>3, OrderFrame
  <2>5. LogInv' /\ TotalsInv'
    BY <1>0, <1>4 DEF LogInv, TotalsInv
  <2>6. QED
    BY <1>0, <2>4, <2>5 DEF IInv
<1>5. ASSUME NEW c \in Calls, Unlock(c) PROVE IInv'
  <2>1. Holds(c)
    BY <1>0, <1>5 DEF LineInv, Unlock
  <2>2. QED
    BY <1>0, <1>4, <1>5, <2>1 DEF Unlock
<1>6. ASSUME NEW r \in Readers, ReturnValues(r) PROVE IInv'
  <2>1. Holds(r)
    BY <1>0, <1>6 DEF LineInv, ReturnValues
  <2>2. QED
    BY <1>0, <1>4, <1>6, <2>1 DEF ReturnValues
<1>7. ASSUME NEW c \in Calls, Record(c) PROVE IInv'
  <2>1. OrderInv'
    BY <1>0, <1>7, OrderFrame DEF Record, Pending
  <2>2. LogInv' /\ TotalsInv'
    BY <1>0, <1>7 DEF Record, LogInv, TotalsInv
  <2>3. QED
    BY <1>0, <2>1, <2>2 DEF IInv
<1>8. ASSUME NEW r \in Readers, CallValues(r) PROVE IInv'
  <2>1. /\ lock' = Append(lock, r) /\ UNCHANGED <<pc, vals, log, applied>>
        /\ r \notin Calls
    BY <1>0, <1>8 DEF CallValues
  <2>2. ASSUME NEW i \in 1 .. Len(lock'), NEW j \in 1 .. Len(lock'), i < j,
               lock'[j] \in Calls
        PROVE  i \in 1 .. Len(lock) /\ j \in 1 .. Len(lock)
                 /\ lock[i] = lock'[i] /\ lock[j] = lock'[j]
    BY <1>0, <2>1, <2>2
  <2>3. OrderInv'
    BY <1>0, <2>1, <2>2, OrderFrame DEF Pending
  <2>4. LogInv' /\ TotalsInv'
    BY <1>0, <2>1 DEF LogInv, TotalsInv
  <2>5. QED
    BY <1>0, <2>3, <2>4 DEF IInv
<1>9. ASSUME NEW r \in Readers, Copy(r) PROVE IInv'
  <2>1. OrderInv'
    BY <1>0, <1>9, OrderFrame DEF Copy, Pending
  <2>2. LogInv' /\ TotalsInv'
    BY <1>0, <1>9 DEF Copy, LogInv, TotalsInv
  <2>3. QED
    BY <1>0, <2>1, <2>2 DEF IInv
<1>10. CASE UNCHANGED vars
  <2>1. OrderInv'
    BY <1>0, <1>10, OrderFrame DEF vars, Pending
  <2>2. LogInv' /\ TotalsInv'
    BY <1>0, <1>10 DEF vars, LogInv, TotalsInv
  <2>3. QED
    BY <1>0, <2>1, <2>2 DEF IInv
<1>11. QED
  BY <1>1, <1>2, <1>3, <1>5, <1>6, <1>7, <1>8, <1>9, <1>10
  DEF Next, Calculate, ReadValues

LEMMA Inductive == Spec => []IInv
BY IInvInit, IInvNext, PTL DEF Spec

-----------------------------------------------------------------------------
(***************************************************************************)
(* Sync implements the abstract calculator.  A number is accepted when its *)
(* call joins the line and applied when `sub` returns; a read takes effect *)
(* when the totals are copied, which no call can be in the middle of.      *)
(***************************************************************************)
LEMMA SameHistory ==
  ASSUME NEW l, NEW i, NEW n
  PROVE  /\ Promise!ValuesAfter(l, i) = ValuesAfter(l, i)
         /\ Promise!Extended(l, n) = Extended(l, n)
BY DEF Promise!ValuesAfter, ValuesAfter, Promise!Extended, Extended,
       Promise!Calculated, Calculated, Promise!add, add, Promise!sub, sub,
       Promise!Wrap, Wrap, Promise!ZeroValues, ZeroValues, Promise!MinInt, MinInt

LEMMA PromiseStep == IInv /\ [Next]_vars => [Promise!Next]_(Promise!vars)
<1> SUFFICES ASSUME IInv, [Next]_vars PROVE [Promise!Next]_(Promise!vars)
  OBVIOUS
<1>1. ASSUME NEW c \in Calls, CallCalculate(c)
      PROVE  \E n \in Range(num) : Promise!Accept(n)
  <2>1. num[c] \in Range(num)
    BY SyncAssumption DEF Range
  <2>2. Promise!Accept(num[c])
    BY <1>1, SameHistory DEF CallCalculate, Promise!Accept
  <2>3. QED
    BY <2>1, <2>2
<1>2. ASSUME NEW c \in Calls, CallAdd(c) PROVE UNCHANGED Promise!vars
  BY <1>2 DEF CallAdd, Promise!vars
<1>3. ASSUME NEW c \in Calls, CallSub(c) PROVE Promise!Apply
  BY <1>3, OrderApply DEF CallSub, Promise!Apply
<1>4. ASSUME NEW c \in Calls, Unlock(c) \/ Record(c) PROVE UNCHANGED Promise!vars
  BY <1>4 DEF Unlock, Record, Promise!vars
<1>5. ASSUME NEW r \in Readers, CallValues(r) \/ ReturnValues(r)
      PROVE  UNCHANGED Promise!vars
  BY <1>5 DEF CallValues, ReturnValues, Promise!vars
<1>6. ASSUME NEW r \in Readers, Copy(r) PROVE Promise!Read(r)
  <2>1. /\ Holds(r) /\ got' = [got EXCEPT ![r] = vals]
        /\ UNCHANGED <<log, applied>>
    BY <1>6 DEF Copy
  <2>2. \A c \in Calls : pc[c] # "sub"
    BY <2>1, SyncAssumption DEF IInv, TypeInv, LineInv, Holds
  <2>3. vals = ValuesAfter(log, applied)
    BY <2>2 DEF IInv, TotalsInv
  <2>4. QED
    BY <2>1, <2>3, SameHistory DEF Promise!Read
<1>7. CASE UNCHANGED vars
  BY <1>7 DEF vars, Promise!vars
<1>8. QED
  BY <1>1, <1>2, <1>3, <1>4, <1>5, <1>6, <1>7
  DEF Next, Calculate, ReadValues, Promise!Next

(* Every behaviour of Sync is one of the abstract calculator: numbers take *)
(* effect in the order their callers came for the lock, each on both       *)
(* totals at once for every reader, and no reader goes back.               *)
THEOREM Implementation == Spec => ImplementsCalculator
<1>1. Init => Promise!Init
  BY DEF Init, Promise!Init, ZeroValues, Promise!ZeroValues
<1>2. QED
  BY <1>1, PromiseStep, Inductive, PTL DEF Spec, ImplementsCalculator, Promise!Spec

=============================================================================

--------------------------- MODULE SyncCalculator ---------------------------
(***************************************************************************)
(* calculators.Sync: every caller computes both totals itself, under a     *)
(* lock made of a channel of capacity 1.  The runtime keeps the senders    *)
(* blocked on such a channel in a FIFO queue and gives the slot a receive  *)
(* frees to the first of them in the same step, so the lock is a line: its *)
(* head holds the lock, the others wait in the order they came.  The       *)
(* sample is recorded after the lock is released.                          *)
(***************************************************************************)
EXTENDS Operators, Sequences, FiniteSets, Functions

CONSTANTS
  Calls,        \* The calls of Calculate, each in a goroutine of its own.
  Readers,      \* Goroutines that call Values.
  num           \* The number of each call.

ASSUME SyncAssumption ==
  /\ num \in [Calls -> Int64]
  /\ Calls \cap Readers = {}

VARIABLES
  lock,         \* The line of the lock.
  pc,           \* Where each call is.
  reading,      \* Where each reader is: out of Values, in line, or unlocking.
  vals,         \* dualState.vals.
  got,          \* The values a reader copied, which its Values returns.
  log,          \* History: the calls in line order, as the abstract log.
  applied,      \* History: how many of them the totals include.
  recorded      \* History: the calls whose samples recordFn was given.

vars == <<lock, pc, reading, vals, got, log, applied, recorded>>

-----------------------------------------------------------------------------
ValuesAfter(l, i) == IF i = 0 THEN ZeroValues ELSE l[i].vals

Extended(l, n) ==
  Append(l, [num |-> n, vals |-> Calculated(ValuesAfter(l, Len(l)), n)])

Init ==
  /\ lock = <<>>
  /\ pc = [c \in Calls |-> "new"]
  /\ reading = [r \in Readers |-> "out"]
  /\ vals = ZeroValues
  /\ got = [r \in Readers |-> ZeroValues]
  /\ log = <<>>
  /\ applied = 0
  /\ recorded = {}

Holds(g) == lock # <<>> /\ Head(lock) = g

-----------------------------------------------------------------------------
(***************************************************************************)
(* Calculate: c.lock <- struct{}{}, add, sub, <-c.lock, record.            *)
(***************************************************************************)
CallCalculate(c) ==
  /\ pc[c] = "new"
  /\ lock' = Append(lock, c)
  /\ log' = Extended(log, num[c])
  /\ pc' = [pc EXCEPT ![c] = "add"]
  /\ UNCHANGED <<reading, vals, got, applied, recorded>>

(* A bug to tell apart: the sum is computed before the lock is taken. *)
CallAddUnlocked(c) ==
  /\ pc[c] = "add"
  /\ vals' = [vals EXCEPT !.Sum = add(vals.Sum, num[c])]
  /\ pc' = [pc EXCEPT ![c] = "sub"]
  /\ UNCHANGED <<lock, reading, got, log, applied, recorded>>

CallAdd(c) ==
  /\ pc[c] = "add"
  /\ Holds(c)
  /\ vals' = [vals EXCEPT !.Sum = add(vals.Sum, num[c])]
  /\ pc' = [pc EXCEPT ![c] = "sub"]
  /\ UNCHANGED <<lock, reading, got, log, applied, recorded>>

CallSub(c) ==
  /\ pc[c] = "sub"
  /\ vals' = [vals EXCEPT !.Sub = sub(vals.Sub, num[c])]
  /\ applied' = applied + 1
  /\ pc' = [pc EXCEPT ![c] = "unlock"]
  /\ UNCHANGED <<lock, reading, got, log, recorded>>

(* A bug to tell apart: the lock is kept. *)
UnlockForgotten(c) ==
  /\ pc[c] = "unlock"
  /\ pc' = [pc EXCEPT ![c] = "record"]
  /\ UNCHANGED <<lock, reading, vals, got, log, applied, recorded>>

Unlock(c) ==
  /\ pc[c] = "unlock"
  /\ lock' = Tail(lock)
  /\ pc' = [pc EXCEPT ![c] = "record"]
  /\ UNCHANGED <<reading, vals, got, log, applied, recorded>>

Record(c) ==
  /\ pc[c] = "record"
  /\ recorded' = recorded \cup {c}
  /\ pc' = [pc EXCEPT ![c] = "returned"]
  /\ UNCHANGED <<lock, reading, vals, got, log, applied>>

-----------------------------------------------------------------------------
(***************************************************************************)
(* Values: the same lock around a copy of the totals.                      *)
(***************************************************************************)
CallValues(r) ==
  /\ reading[r] = "out"
  /\ lock' = Append(lock, r)
  /\ reading' = [reading EXCEPT ![r] = "lock"]
  /\ UNCHANGED <<pc, vals, got, log, applied, recorded>>

Copy(r) ==
  /\ reading[r] = "lock"
  /\ Holds(r)
  /\ got' = [got EXCEPT ![r] = vals]
  /\ reading' = [reading EXCEPT ![r] = "unlock"]
  /\ UNCHANGED <<lock, pc, vals, log, applied, recorded>>

(* A bug to tell apart: Values returns with the lock. *)
ReturnValuesLocked(r) ==
  /\ reading[r] = "unlock"
  /\ reading' = [reading EXCEPT ![r] = "out"]
  /\ UNCHANGED <<lock, pc, vals, got, log, applied, recorded>>

ReturnValues(r) ==
  /\ reading[r] = "unlock"
  /\ lock' = Tail(lock)
  /\ reading' = [reading EXCEPT ![r] = "out"]
  /\ UNCHANGED <<pc, vals, got, log, applied, recorded>>

-----------------------------------------------------------------------------
Calculate(c) == CallAdd(c) \/ CallSub(c) \/ Unlock(c) \/ Record(c)

ReadValues(r) == Copy(r) \/ ReturnValues(r)

Next ==
  \/ \E c \in Calls : CallCalculate(c) \/ Calculate(c)
  \/ \E r \in Readers : CallValues(r) \/ ReadValues(r)

Spec == Init /\ [][Next]_vars

(* A goroutine that is not waiting for the lock runs on; nobody has to     *)
(* call anything.                                                          *)
FairSpec ==
  /\ Spec
  /\ \A c \in Calls : WF_vars(Calculate(c))
  /\ \A r \in Readers : WF_vars(ReadValues(r))

-----------------------------------------------------------------------------
(***************************************************************************)
(* Properties.                                                             *)
(***************************************************************************)
(* The goroutines that have asked for the lock and not released it. *)
Waiting ==
  {c \in Calls : pc[c] \in {"add", "sub", "unlock"}} \cup
  {r \in Readers : reading[r] # "out"}

(* The line holds exactly those between lock and unlock, each once. *)
TypeOK ==
  /\ lock \in Seq(Calls \cup Readers)
  /\ IsInjective(lock) /\ Range(lock) = Waiting
  /\ pc \in [Calls -> {"new", "add", "sub", "unlock", "record", "returned"}]
  /\ reading \in [Readers -> {"out", "lock", "unlock"}]
  /\ vals \in Values
  /\ got \in [Readers -> Values]
  /\ log \in Seq([num : Int64, vals : Values])
  /\ applied \in Nat
  /\ recorded \subseteq Calls

(* Sync is a calculator that is never stopped: numbers are applied in the  *)
(* order their callers queued for the lock, both totals at once for every  *)
(* reader.  A read takes effect when the totals are copied.                *)
Promise == INSTANCE Calculator
             WITH Nums <- Range(num), seen <- got, closed <- FALSE,
                  stopped <- FALSE

ImplementsCalculator == Promise!Spec

(* The lock is fair: every call gets it and returns, however often the     *)
(* readers come back for it.                                               *)
CallsReturn == \A c \in Calls : pc[c] = "add" ~> pc[c] = "returned"

=============================================================================

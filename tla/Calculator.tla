------------------------------ MODULE Calculator ------------------------------
(***************************************************************************)
(* What a consistent calculator (calculators.Sync, calculators.Async)      *)
(* promises, whatever goroutines and channels it is made of:               *)
(*                                                                         *)
(*   - accepted numbers are applied one by one, in the order of acceptance,*)
(*     each of them to both totals at once;                                *)
(*   - Values returns the totals of some prefix of the accepted numbers,   *)
(*     never of fewer numbers than an earlier Values returned;             *)
(*   - once Stop has returned, every accepted number has been applied, and *)
(*     nothing is accepted or applied any more.                            *)
(***************************************************************************)
EXTENDS Operators, Sequences

CONSTANTS Nums,      \* The numbers clients send.
          Readers    \* The goroutines that call Values.

VARIABLES log,       \* What was accepted: each number with the totals after it.
          applied,   \* How many of them the totals include.
          seen,      \* What each reader's last Values returned.
          closed,    \* Stop was called.
          stopped    \* Stop has returned.

vars == <<log, applied, seen, closed, stopped>>

(* The totals after the first i numbers of a log. *)
ValuesAfter(l, i) == IF i = 0 THEN ZeroValues ELSE l[i].vals

(* A log with one more number. *)
Extended(l, num) ==
  Append(l, [num |-> num, vals |-> Calculated(ValuesAfter(l, Len(l)), num)])

Init ==
  /\ log = <<>>
  /\ applied = 0
  /\ seen = [r \in Readers |-> ZeroValues]
  /\ closed = FALSE
  /\ stopped = FALSE

Accept(num) ==
  /\ ~closed
  /\ log' = Extended(log, num)
  /\ UNCHANGED <<applied, seen, closed, stopped>>

Apply ==
  /\ applied < Len(log)
  /\ applied' = applied + 1
  /\ UNCHANGED <<log, seen, closed, stopped>>

Read(r) ==
  /\ seen' = [seen EXCEPT ![r] = ValuesAfter(log, applied)]
  /\ UNCHANGED <<log, applied, closed, stopped>>

Close ==
  /\ ~closed
  /\ closed' = TRUE
  /\ UNCHANGED <<log, applied, seen, stopped>>

Return ==
  /\ closed
  /\ applied = Len(log)
  /\ stopped' = TRUE
  /\ UNCHANGED <<log, applied, seen, closed>>

Next ==
  \/ \E num \in Nums : Accept(num)
  \/ Apply
  \/ \E r \in Readers : Read(r)
  \/ Close
  \/ Return

Spec == Init /\ [][Next]_vars

=============================================================================

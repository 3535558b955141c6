---------------------------- MODULE AbstractDeque ----------------------------
(***************************************************************************)
(* What queue.Deque promises: a sequence that grows and shrinks at both    *)
(* ends, with access by index.  `ret` is what the last call returned, as a *)
(* sequence, and `panicked` whether it panicked; a call that panics        *)
(* changes nothing.                                                        *)
(***************************************************************************)
EXTENDS Integers, Sequences

CONSTANTS Elem,     \* The values of the type parameter.
          Args      \* The integer arguments of the calls.

VARIABLES items, ret, panicked

vars == <<items, ret, panicked>>

Returns(s) == ret' = s /\ panicked' = FALSE

Panics == UNCHANGED items /\ ret' = <<>> /\ panicked' = TRUE

Init == items \in Seq(Elem) /\ ret = <<>> /\ panicked = FALSE

PushBack(v) == items' = Append(items, v) /\ Returns(<<>>)

PushFront(v) == items' = <<v>> \o items /\ Returns(<<>>)

Front ==
  IF items = <<>> THEN Panics ELSE UNCHANGED items /\ Returns(<<items[1]>>)

Back ==
  IF items = <<>> THEN Panics
                  ELSE UNCHANGED items /\ Returns(<<items[Len(items)]>>)

PopFront ==
  IF items = <<>> THEN Panics ELSE items' = Tail(items) /\ Returns(<<items[1]>>)

PopBack ==
  IF items = <<>> THEN Panics
                  ELSE /\ items' = SubSeq(items, 1, Len(items) - 1)
                       /\ Returns(<<items[Len(items)]>>)

At(idx) ==
  IF idx \in 0 .. Len(items) - 1
  THEN UNCHANGED items /\ Returns(<<items[idx + 1]>>)
  ELSE Panics

Set(idx, v) ==
  IF idx \in 0 .. Len(items) - 1
  THEN items' = [items EXCEPT ![idx + 1] = v] /\ Returns(<<>>)
  ELSE Panics

ToSlice == UNCHANGED items /\ Returns(items)

Reset == items' = <<>> /\ Returns(<<>>)

Grow(n) == IF n < 0 THEN Panics ELSE UNCHANGED items /\ Returns(<<>>)

Next ==
  \/ \E v \in Elem : PushBack(v) \/ PushFront(v) \/ \E idx \in Args : Set(idx, v)
  \/ Front \/ Back \/ PopFront \/ PopBack
  \/ \E n \in Args : At(n) \/ Grow(n)
  \/ ToSlice \/ Reset

Spec == Init /\ [][Next]_vars

=============================================================================

------------------------------- MODULE MCDeque -------------------------------
(***************************************************************************)
(* Deque with a first capacity of 2: up to four elements, at every         *)
(* rotation of buffers of 2, 3, 4 and more slots.                          *)
(***************************************************************************)
EXTENDS Deque

CONSTANTS a, b, zero    \* Model values.

MCElem == {a, b}
MCArgs == -1 .. 3
MCSlices == {<<>>, <<a>>, <<a, b, a>>}

=============================================================================

-------------------------------- MODULE Deque --------------------------------
(***************************************************************************)
(* queue.Deque: the ring buffer behind the metrics history.  A call is one *)
(* step: the deque has one owner, the aggregator's goroutine.              *)
(***************************************************************************)
EXTENDS Integers, Sequences

CONSTANTS
  Elem,         \* The values of the type parameter T.
  Zero,         \* The zero value of T.
  Args,         \* The integer arguments of At, Set and Grow.
  Slices,       \* The slices NewDequeFrom is given; <<>>: a Deque{}.
  MinCap,       \* The first capacity: 16 in the code.
  MaxSize       \* Bound of the model: nothing is pushed on so many elements.

ASSUME DequeAssumption ==
  /\ Args \subseteq Int
  /\ Slices \subseteq Seq(Elem)
  /\ MinCap \in Nat \ {0}
  /\ MaxSize \in Nat

VARIABLES
  cap,          \* len(d.buf)
  buf,          \* d.buf
  front,        \* d.front
  size,         \* d.size
  ret,          \* What the last call returned.
  panicked      \* Whether the last call panicked.

dequeVars == <<cap, buf, front, size>>
vars == <<cap, buf, front, size, ret, panicked>>

-----------------------------------------------------------------------------
Returns(s) == ret' = s /\ panicked' = FALSE

Panics == UNCHANGED dequeVars /\ ret' = <<>> /\ panicked' = TRUE

(* `if pos >= len(d.buf) { pos -= len(d.buf) }` *)
Wrapped(pos, len) == IF pos >= len THEN pos - len ELSE pos

(* The slot of the element with index i. *)
Pos(i) == Wrapped(front + i, cap)

(* NewDequeFrom, or the zero value. *)
Init ==
  \E slice \in Slices :
    /\ cap = Len(slice)
    /\ buf = [j \in 0 .. Len(slice) - 1 |-> slice[j + 1]]
    /\ front = 0
    /\ size = Len(slice)
    /\ ret = <<>>
    /\ panicked = FALSE

-----------------------------------------------------------------------------
(***************************************************************************)
(* grow: a larger buffer, with the elements copied to its start in one     *)
(* piece or, when they wrap around the end of the old one, in two.         *)
(***************************************************************************)
Greater(a, b) == IF a >= b THEN a ELSE b

(* A bug to tell apart: the second piece is not moved behind the first. *)
CopiedInPlace(j) ==
  IF front + size <= cap THEN buf[front + j]
  ELSE LET n == cap - front
       IN  IF j < n THEN buf[front + j] ELSE buf[j]

Copied(j) ==
  IF front + size <= cap THEN buf[front + j]
  ELSE LET n == cap - front
       IN  IF j < n THEN buf[front + j] ELSE buf[j - n]

grow(need) ==
  IF cap = 0
  THEN LET newCap == Greater(need, MinCap)
       IN  [cap |-> newCap, buf |-> [j \in 0 .. newCap - 1 |-> Zero], front |-> front]
  ELSE LET newCap == Greater(cap * 2, size + need)
       IN  [cap   |-> newCap,
            buf   |-> [j \in 0 .. newCap - 1 |-> IF j < size THEN Copied(j) ELSE Zero],
            front |-> 0]

(* The deque a push finds: reallocated when it is full. *)
Roomy == IF size = cap THEN grow(1) ELSE [cap |-> cap, buf |-> buf, front |-> front]

PushBack(v) ==
  /\ size < MaxSize
  /\ LET d == Roomy
         back == Wrapped(d.front + size, d.cap)
     IN  /\ cap' = d.cap
         /\ buf' = [d.buf EXCEPT ![back] = v]
         /\ front' = d.front
         /\ size' = size + 1
  /\ Returns(<<>>)

PushFront(v) ==
  /\ size < MaxSize
  /\ LET d == Roomy
         first == IF d.front = 0 THEN d.cap - 1 ELSE d.front - 1
     IN  /\ cap' = d.cap
         /\ buf' = [d.buf EXCEPT ![first] = v]
         /\ front' = first
         /\ size' = size + 1
  /\ Returns(<<>>)

Grow(n) ==
  \/ n < 0 /\ Panics
  \/ /\ n >= 0 /\ cap - size < n
     /\ cap' = grow(n).cap
     /\ buf' = grow(n).buf
     /\ front' = grow(n).front
     /\ UNCHANGED size
     /\ Returns(<<>>)
  \/ n >= 0 /\ cap - size >= n /\ UNCHANGED dequeVars /\ Returns(<<>>)

-----------------------------------------------------------------------------
Front ==
  \/ size = 0 /\ Panics
  \/ size > 0 /\ UNCHANGED dequeVars /\ Returns(<<buf[front]>>)

Back ==
  \/ size = 0 /\ Panics
  \/ size > 0 /\ UNCHANGED dequeVars /\ Returns(<<buf[Pos(size - 1)]>>)

(* A bug to tell apart: the vacated slot keeps its element. *)
PopFrontUncleared ==
  \/ size = 0 /\ Panics
  \/ /\ size > 0
     /\ front' = IF front + 1 = cap THEN 0 ELSE front + 1
     /\ size' = size - 1
     /\ UNCHANGED <<cap, buf>>
     /\ Returns(<<buf[front]>>)

(* A bug to tell apart: the front runs off the end of the buffer. *)
PopFrontUnwrapped ==
  \/ size = 0 /\ Panics
  \/ /\ size > 0
     /\ buf' = [buf EXCEPT ![front] = Zero]
     /\ front' = front + 1
     /\ size' = size - 1
     /\ UNCHANGED cap
     /\ Returns(<<buf[front]>>)

PopFront ==
  \/ size = 0 /\ Panics
  \/ /\ size > 0
     /\ buf' = [buf EXCEPT ![front] = Zero]
     /\ front' = IF front + 1 = cap THEN 0 ELSE front + 1
     /\ size' = size - 1
     /\ UNCHANGED cap
     /\ Returns(<<buf[front]>>)

PopBack ==
  \/ size = 0 /\ Panics
  \/ /\ size > 0
     /\ buf' = [buf EXCEPT ![Pos(size - 1)] = Zero]
     /\ size' = size - 1
     /\ UNCHANGED <<cap, front>>
     /\ Returns(<<buf[Pos(size - 1)]>>)

At(idx) ==
  \/ (idx < 0 \/ idx >= size) /\ Panics
  \/ /\ idx >= 0 /\ idx < size
     /\ UNCHANGED dequeVars
     /\ Returns(<<buf[Pos(idx)]>>)

Set(idx, v) ==
  \/ (idx < 0 \/ idx >= size) /\ Panics
  \/ /\ idx >= 0 /\ idx < size
     /\ buf' = [buf EXCEPT ![Pos(idx)] = v]
     /\ UNCHANGED <<cap, front, size>>
     /\ Returns(<<>>)

(* One copy when the elements lie between front and back, else two; back   *)
(* is 0, not len(d.buf), for elements that end with the buffer.            *)
ToSlice ==
  /\ UNCHANGED dequeVars
  /\ IF size = 0 THEN Returns(<<>>)
     ELSE LET back == Wrapped(front + size, cap)
              n == cap - front
          IN  IF front < back
              THEN Returns([i \in 1 .. size |-> buf[front + i - 1]])
              ELSE Returns([i \in 1 .. size |-> IF i <= n THEN buf[front + i - 1]
                                                          ELSE buf[i - 1 - n]])

(* The slots that clear() covers, in one piece or in two. *)
Cleared ==
  IF front + size <= cap
  THEN front .. front + size - 1
  ELSE front .. cap - 1 \cup 0 .. front + size - cap - 1

Reset ==
  \/ size = 0 /\ UNCHANGED dequeVars /\ Returns(<<>>)
  \/ /\ size > 0
     /\ buf' = [j \in 0 .. cap - 1 |-> IF j \in Cleared THEN Zero ELSE buf[j]]
     /\ front' = 0
     /\ size' = 0
     /\ UNCHANGED cap
     /\ Returns(<<>>)

-----------------------------------------------------------------------------
Next ==
  \/ \E v \in Elem : PushBack(v) \/ PushFront(v) \/ \E idx \in Args : Set(idx, v)
  \/ Front \/ Back \/ PopFront \/ PopBack
  \/ \E n \in Args : At(n) \/ Grow(n)
  \/ ToSlice \/ Reset

Spec == Init /\ [][Next]_vars

-----------------------------------------------------------------------------
(***************************************************************************)
(* Properties.                                                             *)
(***************************************************************************)
TypeOK ==
  /\ cap \in Nat
  /\ buf \in [0 .. cap - 1 -> Elem \cup {Zero}]
  /\ size \in 0 .. cap
  /\ front \in 0 .. cap /\ (front < cap \/ cap = 0)
  /\ ret \in Seq(Elem)
  /\ panicked \in BOOLEAN

(* A slot outside the window of elements holds the zero value: what was    *)
(* popped or reset is not kept alive, through every growth, wrap-around    *)
(* and reset that leaves front where it is.                                *)
VacatedCleared ==
  \A j \in 0 .. cap - 1 : (\A i \in 0 .. size - 1 : j # Pos(i)) => buf[j] = Zero

(* The elements, in order. *)
Items == [i \in 1 .. size |-> buf[Pos(i - 1)]]

(* The ring buffer is a double-ended queue: through wrap-around at either  *)
(* end, full and empty buffers and reallocation, every call returns and    *)
(* leaves what it would on a plain sequence.                               *)
Sequence == INSTANCE AbstractDeque WITH items <- Items

ImplementsSequence == Sequence!Spec

=============================================================================

----------------------------- MODULE DequeProofs -----------------------------
(***************************************************************************)
(* Theorems about queue.Deque for any element type, initial slice, first   *)
(* capacity and sequence of calls.  The lemmas speak of a ring with given  *)
(* capacity c, buffer b, front f and size s, so that they apply to the     *)
(* deque before, inside and after a call.                                  *)
(***************************************************************************)
EXTENDS Deque, SequenceTheorems, TLAPS

(* A well-formed ring: the window holds elements, every other slot Zero. *)
Ring(c, b, f, s) ==
  /\ c \in Nat /\ s \in 0 .. c /\ f \in 0 .. c /\ (f < c \/ c = 0)
  /\ b \in [0 .. c - 1 -> Elem \cup {Zero}]
  /\ \A i \in 0 .. s - 1 : b[Wrapped(f + i, c)] \in Elem
  /\ \A j \in 0 .. c - 1 : (\A i \in 0 .. s - 1 : j # Wrapped(f + i, c)) => b[j] = Zero

(* The elements of a ring, in order. *)
Window(c, b, f, s) == [i \in 1 .. s |-> b[Wrapped(f + (i - 1), c)]]

LEMMA SlotInRange ==
  ASSUME NEW c \in Nat, NEW f \in 0 .. c - 1, NEW i \in 0 .. c - 1
  PROVE  Wrapped(f + i, c) \in 0 .. c - 1
BY DEF Wrapped

LEMMA SlotsDiffer ==
  ASSUME NEW c \in Nat, NEW f \in 0 .. c - 1, NEW i \in 0 .. c - 1,
         NEW j \in 0 .. c - 1, i # j
  PROVE  Wrapped(f + i, c) # Wrapped(f + j, c)
BY DEF Wrapped

LEMMA WindowIsSeq ==
  ASSUME NEW c, NEW b, NEW f, NEW s, Ring(c, b, f, s)
  PROVE  /\ Window(c, b, f, s) \in Seq(Elem)
         /\ Len(Window(c, b, f, s)) = s
         /\ \A i \in 1 .. s : Window(c, b, f, s)[i] = b[Wrapped(f + (i - 1), c)]
<1>1. s \in Nat
  BY DEF Ring
<1>2. ASSUME NEW i \in 1 .. s PROVE b[Wrapped(f + (i - 1), c)] \in Elem
  <2>1. i - 1 \in 0 .. s - 1
    BY <1>1
  <2>2. QED
    BY <2>1 DEF Ring
<1>3. Window(c, b, f, s) \in [1 .. s -> Elem]
  BY <1>2 DEF Window
<1>4. QED
  BY <1>1, <1>3 DEF Window

-----------------------------------------------------------------------------
(***************************************************************************)
(* What each kind of access does to a ring and to its window.              *)
(***************************************************************************)
(* b2 is b with v in slot p. *)
Written(c, b, b2, p, v) ==
  /\ b2 \in [0 .. c - 1 -> Elem \cup {Zero}]
  /\ b2[p] = v
  /\ \A j \in 0 .. c - 1 : j # p => b2[j] = b[j]

LEMMA ExceptWrites ==
  ASSUME NEW c \in Nat, NEW b \in [0 .. c - 1 -> Elem \cup {Zero}],
         NEW p \in 0 .. c - 1, NEW v \in Elem \cup {Zero}
  PROVE  Written(c, b, [b EXCEPT ![p] = v], p, v)
BY DEF Written

LEMMA PushBackRing ==
  ASSUME NEW c, NEW b, NEW f, NEW s, Ring(c, b, f, s), s < c, NEW v \in Elem,
         NEW b2, Written(c, b, b2, Wrapped(f + s, c), v), NEW s2, s2 = s + 1
  PROVE  /\ Ring(c, b2, f, s2)
         /\ Window(c, b2, f, s2) = Append(Window(c, b, f, s), v)
<1>1. c \in Nat /\ s \in Nat /\ s \in 0 .. c - 1 /\ f \in 0 .. c - 1
      /\ b \in [0 .. c - 1 -> Elem \cup {Zero}]
  BY DEF Ring
<1> DEFINE back == Wrapped(f + s, c)
<1>2. back \in 0 .. c - 1
  BY <1>1, SlotInRange
<1>3. b2 \in [0 .. c - 1 -> Elem \cup {Zero}] /\ b2[back] = v
      /\ \A j \in 0 .. c - 1 : j # back => b2[j] = b[j]
  BY <1>1, <1>2 DEF Written
<1>4. ASSUME NEW i \in 0 .. s - 1
      PROVE  /\ Wrapped(f + i, c) \in 0 .. c - 1
             /\ b2[Wrapped(f + i, c)] = b[Wrapped(f + i, c)]
             /\ b[Wrapped(f + i, c)] \in Elem
  <2>1. i \in 0 .. c - 1 /\ i # s
    BY <1>1
  <2>2. Wrapped(f + i, c) \in 0 .. c - 1 /\ Wrapped(f + i, c) # back
    BY <1>1, <2>1, SlotInRange, SlotsDiffer
  <2>3. QED
    BY <1>3, <2>2 DEF Ring
<1>5. ASSUME NEW i \in 0 .. s2 - 1 PROVE b2[Wrapped(f + i, c)] \in Elem
  <2>1. CASE i = s
    BY <1>3, <2>1
  <2>2. CASE i # s
    <3>1. i \in 0 .. s - 1
      BY <1>1, <2>2
    <3>2. QED
      BY <1>4, <3>1
  <2>3. QED
    BY <2>1, <2>2
<1>6. ASSUME NEW j \in 0 .. c - 1, \A i \in 0 .. s2 - 1 : j # Wrapped(f + i, c)
      PROVE  b2[j] = Zero
  <2>1. s \in 0 .. s2 - 1 /\ \A i \in 0 .. s - 1 : i \in 0 .. s2 - 1
    BY <1>1
  <2>2. j # back /\ \A i \in 0 .. s - 1 : j # Wrapped(f + i, c)
    BY <1>6, <2>1
  <2>3. QED
    BY <1>3, <2>2 DEF Ring
<1>7. s2 \in 0 .. c /\ f \in 0 .. c /\ f < c
  BY <1>1
<1>8. Ring(c, b2, f, s2)
  BY <1>1, <1>3, <1>5, <1>6, <1>7 DEF Ring
<1> DEFINE w == Window(c, b, f, s)
           w2 == Window(c, b2, f, s2)
<1>9. w \in Seq(Elem) /\ Len(w) = s
      /\ \A i \in 1 .. s : w[i] = b[Wrapped(f + (i - 1), c)]
  BY WindowIsSeq
<1>10. w2 \in Seq(Elem) /\ Len(w2) = s2
       /\ \A i \in 1 .. s2 : w2[i] = b2[Wrapped(f + (i - 1), c)]
  BY <1>8, WindowIsSeq
<1>11. Append(w, v) \in Seq(Elem) /\ Len(Append(w, v)) = s2
       /\ (\A i \in 1 .. s : Append(w, v)[i] = w[i]) /\ Append(w, v)[s2] = v
  BY <1>9, AppendProperties
<1>12. ASSUME NEW i \in 1 .. s2 PROVE w2[i] = Append(w, v)[i]
  <2>1. CASE i = s2
    <3>1. f + (i - 1) = f + s
      BY <1>1, <2>1
    <3>2. w2[i] = b2[Wrapped(f + (i - 1), c)]
      BY <1>10
    <3>3. w2[i] = b2[back]
      BY <3>1, <3>2
    <3>4. QED
      BY <1>3, <1>11, <2>1, <3>3
  <2>2. CASE i # s2
    <3>1. i \in 1 .. s /\ i - 1 \in 0 .. s - 1
      BY <1>1, <2>2
    <3>2. b2[Wrapped(f + (i - 1), c)] = b[Wrapped(f + (i - 1), c)]
      BY <1>4, <3>1
    <3>3. QED
      BY <1>9, <1>10, <1>11, <3>1, <3>2
  <2>3. QED
    BY <2>1, <2>2
<1>13. w2 = Append(w, v)
  <2> HIDE DEF w, w2
  <2>1. QED
    BY <1>10, <1>11, <1>12, SeqEqual
<1>14. QED
  BY <1>8, <1>13

(* The slot before the front. *)
Before(f, c) == IF f = 0 THEN c - 1 ELSE f - 1

LEMMA PushFrontRing ==
  ASSUME NEW c, NEW b, NEW f, NEW s, Ring(c, b, f, s), s < c, NEW v \in Elem,
         NEW f2, f2 = Before(f, c),
         NEW b2, Written(c, b, b2, f2, v), NEW s2, s2 = s + 1
  PROVE  /\ Ring(c, b2, f2, s2)
         /\ Window(c, b2, f2, s2) = <<v>> \o Window(c, b, f, s)
<1>1. c \in Nat /\ s \in Nat /\ s \in 0 .. c - 1 /\ f \in 0 .. c - 1
      /\ b \in [0 .. c - 1 -> Elem \cup {Zero}]
  BY DEF Ring
<1>2. f2 \in 0 .. c - 1 /\ s2 \in 0 .. c /\ Wrapped(f2 + 0, c) = f2
      /\ f2 = IF f = 0 THEN c - 1 ELSE f - 1
  BY <1>1 DEF Wrapped, Before
<1>3. b2 \in [0 .. c - 1 -> Elem \cup {Zero}] /\ b2[f2] = v
      /\ \A j \in 0 .. c - 1 : j # f2 => b2[j] = b[j]
  BY DEF Written
<1>4. ASSUME NEW i \in 0 .. s - 1
      PROVE  /\ Wrapped(f2 + (i + 1), c) = Wrapped(f + i, c)
             /\ b2[Wrapped(f2 + (i + 1), c)] = b[Wrapped(f + i, c)]
             /\ b[Wrapped(f + i, c)] \in Elem
  <2>1. i \in 0 .. c - 1 /\ i + 1 \in 0 .. c - 1 /\ i + 1 # 0 /\ 0 \in 0 .. c - 1
    BY <1>1
  <2>2. Wrapped(f2 + (i + 1), c) = Wrapped(f + i, c)
    BY <1>1, <1>2, <2>1 DEF Wrapped
  <2>3. /\ Wrapped(f2 + (i + 1), c) \in 0 .. c - 1
        /\ Wrapped(f2 + (i + 1), c) # Wrapped(f2 + 0, c)
    BY <1>1, <1>2, <2>1, SlotInRange, SlotsDiffer
  <2>4. QED
    BY <1>2, <1>3, <2>2, <2>3 DEF Ring
<1>5. ASSUME NEW i \in 0 .. s2 - 1 PROVE b2[Wrapped(f2 + i, c)] \in Elem
  <2>1. CASE i = 0
    BY <1>2, <1>3, <2>1
  <2>2. CASE i # 0
    <3>1. i - 1 \in 0 .. s - 1 /\ (i - 1) + 1 = i
      BY <1>1, <2>2
    <3>2. /\ b2[Wrapped(f2 + ((i - 1) + 1), c)] = b[Wrapped(f + (i - 1), c)]
          /\ b[Wrapped(f + (i - 1), c)] \in Elem
      BY <1>4, <3>1
    <3>3. QED
      BY <3>1, <3>2
  <2>3. QED
    BY <2>1, <2>2
<1>6. ASSUME NEW j \in 0 .. c - 1, \A i \in 0 .. s2 - 1 : j # Wrapped(f2 + i, c)
      PROVE  b2[j] = Zero
  <2>1. j # f2
    <3>1. 0 \in 0 .. s2 - 1
      BY <1>1
    <3>2. QED
      BY <1>2, <1>6, <3>1
  <2>2. ASSUME NEW i \in 0 .. s - 1 PROVE j # Wrapped(f + i, c)
    <3>1. i + 1 \in 0 .. s2 - 1
      BY <1>1
    <3>2. QED
      BY <1>4, <1>6, <3>1
  <2>3. QED
    BY <1>3, <2>1, <2>2 DEF Ring
<1>7. Ring(c, b2, f2, s2)
  BY <1>1, <1>2, <1>3, <1>5, <1>6 DEF Ring
<1> DEFINE w == Window(c, b, f, s)
           w2 == Window(c, b2, f2, s2)
<1>8. w \in Seq(Elem) /\ Len(w) = s
      /\ \A i \in 1 .. s : w[i] = b[Wrapped(f + (i - 1), c)]
  BY WindowIsSeq
<1>9. w2 \in Seq(Elem) /\ Len(w2) = s2
      /\ \A i \in 1 .. s2 : w2[i] = b2[Wrapped(f2 + (i - 1), c)]
  BY <1>7, WindowIsSeq
<1>10. <<v>> \in Seq(Elem) /\ Len(<<v>>) = 1 /\ <<v>>[1] = v
  OBVIOUS
<1>11. <<v>> \o w \in Seq(Elem) /\ Len(<<v>> \o w) = s2
       /\ \A i \in 1 .. s2 : (<<v>> \o w)[i] = IF i <= 1 THEN v ELSE w[i - 1]
  <2> HIDE DEF w
  <2>1. /\ <<v>> \o w \in Seq(Elem)
        /\ Len(<<v>> \o w) = 1 + s
        /\ \A i \in 1 .. 1 + s :
             (<<v>> \o w)[i] = IF i <= 1 THEN <<v>>[i] ELSE w[i - 1]
    BY <1>8, <1>10, ConcatProperties
  <2>2. 1 + s = s2
    BY <1>1
  <2>3. QED
    BY <2>1, <2>2, <1>10
<1>12. ASSUME NEW i \in 1 .. s2 PROVE w2[i] = (<<v>> \o w)[i]
  <2>1. CASE i = 1
    <3>1. f2 + (i - 1) = f2 + 0
      BY <2>1
    <3>2. w2[i] = b2[f2]
      BY <1>2, <1>9, <3>1
    <3>3. QED
      BY <1>3, <1>11, <2>1, <3>2
  <2>2. CASE i # 1
    <3> DEFINE k == i - 2
    <3>1. k \in 0 .. s - 1 /\ i - 1 = k + 1 /\ i - 1 \in 1 .. s /\ (i - 1) - 1 = k
          /\ ~(i <= 1)
      BY <1>1, <2>2
    <3>2. w2[i] = b2[Wrapped(f2 + (k + 1), c)]
      BY <1>9, <3>1
    <3>3. w[i - 1] = b[Wrapped(f + k, c)]
      BY <1>8, <3>1
    <3>4. b2[Wrapped(f2 + (k + 1), c)] = b[Wrapped(f + k, c)]
      BY <1>4, <3>1
    <3>5. (<<v>> \o w)[i] = w[i - 1]
      BY <1>11, <3>1
    <3>6. QED
      BY <3>2, <3>3, <3>4, <3>5
  <2>3. QED
    BY <2>1, <2>2
<1>13. w2 = <<v>> \o w
  <2> HIDE DEF w, w2
  <2>1. QED
    BY <1>9, <1>11, <1>12, SeqEqual
<1>14. QED
  BY <1>7, <1>13

(* The slot after the front. *)
After(f, c) == IF f + 1 = c THEN 0 ELSE f + 1

LEMMA PopFrontRing ==
  ASSUME NEW c, NEW b, NEW f, NEW s, Ring(c, b, f, s), s > 0,
         NEW f2, f2 = After(f, c),
         NEW b2, Written(c, b, b2, f, Zero), NEW s2, s2 = s - 1
  PROVE  /\ Ring(c, b2, f2, s2)
         /\ Window(c, b2, f2, s2) = Tail(Window(c, b, f, s))
         /\ Window(c, b, f, s)[1] = b[f] /\ b[f] \in Elem
<1>1. c \in Nat \ {0} /\ s \in 1 .. c /\ f \in 0 .. c - 1 /\ f < c
      /\ b \in [0 .. c - 1 -> Elem \cup {Zero}]
  BY DEF Ring
<1>2. f2 \in 0 .. c - 1 /\ s2 \in 0 .. c /\ Wrapped(f + 0, c) = f
      /\ f2 = IF f + 1 = c THEN 0 ELSE f + 1
  BY <1>1 DEF Wrapped, After
<1>3. b2 \in [0 .. c - 1 -> Elem \cup {Zero}] /\ b2[f] = Zero
      /\ \A j \in 0 .. c - 1 : j # f => b2[j] = b[j]
  BY DEF Written
<1>4. ASSUME NEW i \in 0 .. s2 - 1
      PROVE  /\ Wrapped(f2 + i, c) = Wrapped(f + (i + 1), c)
             /\ b2[Wrapped(f2 + i, c)] = b[Wrapped(f + (i + 1), c)]
             /\ b[Wrapped(f + (i + 1), c)] \in Elem
  <2>1. i \in 0 .. c - 1 /\ i + 1 \in 0 .. c - 1 /\ i + 1 # 0 /\ 0 \in 0 .. c - 1
        /\ i + 1 \in 0 .. s - 1
    BY <1>1
  <2>2. Wrapped(f2 + i, c) = Wrapped(f + (i + 1), c)
    BY <1>1, <1>2, <2>1 DEF Wrapped
  <2>3. /\ Wrapped(f + (i + 1), c) \in 0 .. c - 1
        /\ Wrapped(f + (i + 1), c) # Wrapped(f + 0, c)
    BY <1>1, <2>1, SlotInRange, SlotsDiffer
  <2>4. QED
    BY <1>2, <1>3, <2>1, <2>2, <2>3 DEF Ring
<1>5. ASSUME NEW j \in 0 .. c - 1, \A i \in 0 .. s2 - 1 : j # Wrapped(f2 + i, c)
      PROVE  b2[j] = Zero
  <2>1. CASE j = f
    BY <1>3, <2>1
  <2>2. CASE j # f
    <3>1. ASSUME NEW i \in 0 .. s - 1 PROVE j # Wrapped(f + i, c)
      <4>1. CASE i = 0
        BY <1>2, <2>2, <4>1
      <4>2. CASE i # 0
        <5>1. i - 1 \in 0 .. s2 - 1 /\ (i - 1) + 1 = i
          BY <1>1, <4>2
        <5>2. j # Wrapped(f2 + (i - 1), c)
          BY <1>5, <5>1
        <5>3. Wrapped(f2 + (i - 1), c) = Wrapped(f + ((i - 1) + 1), c)
          BY <1>4, <5>1
        <5>4. QED
          BY <5>1, <5>2, <5>3
      <4>3. QED
        BY <4>1, <4>2
    <3>2. QED
      BY <1>3, <2>2, <3>1 DEF Ring
  <2>3. QED
    BY <2>1, <2>2
<1>6. Ring(c, b2, f2, s2)
  BY <1>1, <1>2, <1>3, <1>4, <1>5 DEF Ring
<1> DEFINE w == Window(c, b, f, s)
           w2 == Window(c, b2, f2, s2)
<1>7. w \in Seq(Elem) /\ Len(w) = s
      /\ \A i \in 1 .. s : w[i] = b[Wrapped(f + (i - 1), c)]
  BY WindowIsSeq
<1>8. w2 \in Seq(Elem) /\ Len(w2) = s2
      /\ \A i \in 1 .. s2 : w2[i] = b2[Wrapped(f2 + (i - 1), c)]
  BY <1>6, WindowIsSeq
<1>9. Tail(w) \in Seq(Elem) /\ Len(Tail(w)) = s2
      /\ \A i \in 1 .. s2 : Tail(w)[i] = w[i + 1]
  <2> HIDE DEF w
  <2>1. w # <<>>
    BY <1>1, <1>7
  <2>2. QED
    BY <1>7, <2>1, HeadTailProperties
<1>10. ASSUME NEW i \in 1 .. s2 PROVE w2[i] = Tail(w)[i]
  <2> DEFINE k == i - 1
  <2>1. k \in 0 .. s2 - 1 /\ i = k + 1 /\ i + 1 \in 1 .. s /\ (i + 1) - 1 = k + 1
    BY <1>1
  <2>2. w2[i] = b2[Wrapped(f2 + k, c)]
    BY <1>8
  <2>3. w[i + 1] = b[Wrapped(f + (k + 1), c)]
    BY <1>7, <2>1
  <2>4. b2[Wrapped(f2 + k, c)] = b[Wrapped(f + (k + 1), c)]
    BY <1>4, <2>1
  <2>5. QED
    BY <1>9, <2>2, <2>3, <2>4
<1>11. w2 = Tail(w)
  <2> HIDE DEF w, w2
  <2>1. QED
    BY <1>8, <1>9, <1>10, SeqEqual
<1>12. w[1] = b[f] /\ b[f] \in Elem
  <2>1. 1 \in 1 .. s /\ 0 \in 0 .. s - 1 /\ f + (1 - 1) = f + 0
    BY <1>1
  <2>2. w[1] = b[Wrapped(f + (1 - 1), c)]
    BY <1>7, <2>1
  <2>3. b[Wrapped(f + 0, c)] \in Elem
    BY <2>1 DEF Ring
  <2>4. QED
    BY <1>2, <2>1, <2>2, <2>3
<1>13. QED
  BY <1>6, <1>11, <1>12

LEMMA PopBackRing ==
  ASSUME NEW c, NEW b, NEW f, NEW s, Ring(c, b, f, s), s > 0,
         NEW s2, s2 = s - 1, NEW b2, Written(c, b, b2, Wrapped(f + s2, c), Zero)
  PROVE  /\ Ring(c, b2, f, s2)
         /\ Window(c, b2, f, s2)
              = SubSeq(Window(c, b, f, s), 1, Len(Window(c, b, f, s)) - 1)
         /\ Window(c, b, f, s)[Len(Window(c, b, f, s))] = b[Wrapped(f + s2, c)]
         /\ b[Wrapped(f + s2, c)] \in Elem
<1>1. c \in Nat \ {0} /\ s \in 1 .. c /\ f \in 0 .. c - 1 /\ f < c /\ s2 \in 0 .. c - 1
      /\ b \in [0 .. c - 1 -> Elem \cup {Zero}]
  BY DEF Ring
<1> DEFINE back == Wrapped(f + s2, c)
<1>2. b2 \in [0 .. c - 1 -> Elem \cup {Zero}] /\ b2[back] = Zero
      /\ \A j \in 0 .. c - 1 : j # back => b2[j] = b[j]
  BY DEF Written
<1>3. ASSUME NEW i \in 0 .. s2 - 1
      PROVE  /\ b2[Wrapped(f + i, c)] = b[Wrapped(f + i, c)]
             /\ b[Wrapped(f + i, c)] \in Elem
  <2>1. i \in 0 .. c - 1 /\ i # s2 /\ i \in 0 .. s - 1
    BY <1>1
  <2>2. Wrapped(f + i, c) \in 0 .. c - 1 /\ Wrapped(f + i, c) # back
    BY <1>1, <2>1, SlotInRange, SlotsDiffer
  <2>3. QED
    BY <1>2, <2>1, <2>2 DEF Ring
<1>4. ASSUME NEW j \in 0 .. c - 1, \A i \in 0 .. s2 - 1 : j # Wrapped(f + i, c)
      PROVE  b2[j] = Zero
  <2>1. CASE j = back
    BY <1>2, <2>1
  <2>2. CASE j # back
    <3>1. ASSUME NEW i \in 0 .. s - 1 PROVE j # Wrapped(f + i, c)
      <4>1. CASE i = s2
        BY <2>2, <4>1
      <4>2. CASE i # s2
        <5>1. i \in 0 .. s2 - 1
          BY <1>1, <4>2
        <5>2. QED
          BY <1>4, <5>1
      <4>3. QED
        BY <4>1, <4>2
    <3>2. QED
      BY <1>2, <2>2, <3>1 DEF Ring
  <2>3. QED
    BY <2>1, <2>2
<1>5. f \in 0 .. c /\ s2 \in 0 .. c
  BY <1>1
<1>6. Ring(c, b2, f, s2)
  BY <1>1, <1>2, <1>3, <1>4, <1>5 DEF Ring
<1> DEFINE w == Window(c, b, f, s)
           w2 == Window(c, b2, f, s2)
<1>7. w \in Seq(Elem) /\ Len(w) = s
      /\ \A i \in 1 .. s : w[i] = b[Wrapped(f + (i - 1), c)]
  BY WindowIsSeq
<1>8. w2 \in Seq(Elem) /\ Len(w2) = s2
      /\ \A i \in 1 .. s2 : w2[i] = b2[Wrapped(f + (i - 1), c)]
  BY <1>6, WindowIsSeq
<1>9. SubSeq(w, 1, s2) \in Seq(Elem) /\ Len(SubSeq(w, 1, s2)) = s2
      /\ \A i \in 1 .. s2 : SubSeq(w, 1, s2)[i] = w[i]
  <2> HIDE DEF w
  <2>1. s2 \in Int /\ s2 >= 0 /\ \A i \in 1 .. s2 : i \in 1 .. s
    BY <1>1
  <2>2. \A i \in 1 .. s2 : w[i] \in Elem
    BY <1>7, <2>1
  <2>3. QED
    BY <2>1, <2>2
<1>10. ASSUME NEW i \in 1 .. s2 PROVE w2[i] = SubSeq(w, 1, s2)[i]
  <2> DEFINE k == i - 1
  <2>1. k \in 0 .. s2 - 1 /\ i \in 1 .. s
    BY <1>1
  <2>2. b2[Wrapped(f + k, c)] = b[Wrapped(f + k, c)]
    BY <1>3, <2>1
  <2>3. w2[i] = b2[Wrapped(f + k, c)] /\ w[i] = b[Wrapped(f + k, c)]
    BY <1>7, <1>8, <2>1
  <2>4. QED
    BY <1>9, <2>2, <2>3
<1>11. w2 = SubSeq(w, 1, s2)
  <2> HIDE DEF w, w2
  <2>1. QED
    BY <1>8, <1>9, <1>10, SeqEqual
<1>12. w[s] = b[back] /\ b[back] \in Elem
  <2>1. s \in 1 .. s /\ s2 \in 0 .. s - 1 /\ f + (s - 1) = f + s2
    BY <1>1
  <2>2. w[s] = b[Wrapped(f + (s - 1), c)]
    BY <1>7, <2>1
  <2>3. b[Wrapped(f + s2, c)] \in Elem
    BY <2>1 DEF Ring
  <2>4. QED
    BY <2>1, <2>2, <2>3
<1>13. Len(w) - 1 = s2 /\ Len(w) = s
  BY <1>1, <1>7
<1>14. QED
  BY <1>6, <1>11, <1>12, <1>13

LEMMA SetRing ==
  ASSUME NEW c, NEW b, NEW f, NEW s, Ring(c, b, f, s), NEW k \in 0 .. s - 1,
         NEW v \in Elem, NEW b2, Written(c, b, b2, Wrapped(f + k, c), v)
  PROVE  /\ Ring(c, b2, f, s)
         /\ Window(c, b2, f, s) = [Window(c, b, f, s) EXCEPT ![k + 1] = v]
<1>1. c \in Nat \ {0} /\ s \in 1 .. c /\ f \in 0 .. c - 1 /\ k \in 0 .. c - 1
      /\ b \in [0 .. c - 1 -> Elem \cup {Zero}]
  BY DEF Ring
<1> DEFINE pos == Wrapped(f + k, c)
<1>2. b2 \in [0 .. c - 1 -> Elem \cup {Zero}] /\ b2[pos] = v
      /\ \A j \in 0 .. c - 1 : j # pos => b2[j] = b[j]
  BY DEF Written
<1>3. ASSUME NEW i \in 0 .. s - 1
      PROVE  /\ b2[Wrapped(f + i, c)] = IF i = k THEN v ELSE b[Wrapped(f + i, c)]
             /\ b2[Wrapped(f + i, c)] \in Elem
  <2>1. i \in 0 .. c - 1
    BY <1>1
  <2>2. i # k => Wrapped(f + i, c) \in 0 .. c - 1 /\ Wrapped(f + i, c) # pos
    BY <1>1, <2>1, SlotInRange, SlotsDiffer
  <2>3. QED
    BY <1>2, <2>2 DEF Ring
<1>4. ASSUME NEW j \in 0 .. c - 1, \A i \in 0 .. s - 1 : j # Wrapped(f + i, c)
      PROVE  b2[j] = Zero
  BY <1>2, <1>4 DEF Ring
<1>5. Ring(c, b2, f, s)
  BY <1>2, <1>3, <1>4 DEF Ring
<1> DEFINE w == Window(c, b, f, s)
           w2 == Window(c, b2, f, s)
<1>6. w \in Seq(Elem) /\ Len(w) = s
      /\ \A i \in 1 .. s : w[i] = b[Wrapped(f + (i - 1), c)]
  BY WindowIsSeq
<1>7. w2 \in Seq(Elem) /\ Len(w2) = s
      /\ \A i \in 1 .. s : w2[i] = b2[Wrapped(f + (i - 1), c)]
  BY <1>5, WindowIsSeq
<1>8. [w EXCEPT ![k + 1] = v] \in Seq(Elem) /\ Len([w EXCEPT ![k + 1] = v]) = s
      /\ \A i \in 1 .. s :
           [w EXCEPT ![k + 1] = v][i] = IF i = k + 1 THEN v ELSE w[i]
  <2> HIDE DEF w
  <2>1. k + 1 \in 1 .. Len(w)
    BY <1>1, <1>6
  <2>2. QED
    BY <1>6, <2>1, ExceptSeq
<1>9. ASSUME NEW i \in 1 .. s PROVE w2[i] = [w EXCEPT ![k + 1] = v][i]
  <2> DEFINE m == i - 1
  <2>1. m \in 0 .. s - 1 /\ (m = k <=> i = k + 1)
    BY <1>1
  <2>2. w2[i] = b2[Wrapped(f + m, c)] /\ w[i] = b[Wrapped(f + m, c)]
    BY <1>6, <1>7
  <2>3. b2[Wrapped(f + m, c)] = IF m = k THEN v ELSE b[Wrapped(f + m, c)]
    BY <1>3, <2>1
  <2>4. QED
    BY <1>8, <2>1, <2>2, <2>3
<1>10. w2 = [w EXCEPT ![k + 1] = v]
  <2> HIDE DEF w, w2
  <2>1. QED
    BY <1>7, <1>8, <1>9, SeqEqual
<1>11. QED
  BY <1>5, <1>10

(* grow keeps the elements in order and makes room for those needed. *)
LEMMA GrownRing ==
  ASSUME Ring(cap, buf, front, size), NEW need \in Nat, cap - size < need
  PROVE  /\ Ring(grow(need).cap, grow(need).buf, grow(need).front, size)
         /\ Window(grow(need).cap, grow(need).buf, grow(need).front, size)
              = Window(cap, buf, front, size)
         /\ size < grow(need).cap
         /\ grow(need).cap >= size + need
<1> DEFINE g == grow(need)
<1>1. cap \in Nat /\ size \in 0 .. cap /\ front \in 0 .. cap /\ (front < cap \/ cap = 0)
      /\ buf \in [0 .. cap - 1 -> Elem \cup {Zero}]
      /\ MinCap \in Nat \ {0} /\ need > 0
  BY DequeAssumption DEF Ring
<1>2. CASE cap = 0
  <2>1. /\ g.cap = Greater(need, MinCap) /\ g.front = front
        /\ g.buf = [j \in 0 .. g.cap - 1 |-> Zero]
    BY <1>2 DEF grow
  <2>2. g.cap \in Nat \ {0} /\ g.cap >= need /\ size = 0 /\ front = 0
    BY <1>1, <1>2, <2>1 DEF Greater
  <2> HIDE DEF g
  <2>3. Ring(g.cap, g.buf, g.front, size)
    BY <2>1, <2>2 DEF Ring
  <2>4. Window(g.cap, g.buf, g.front, size) = Window(cap, buf, front, size)
    BY <2>2 DEF Window
  <2>5. QED
    BY <2>2, <2>3, <2>4 DEF g
<1>3. CASE cap # 0
  <2>1. /\ g.cap = Greater(cap * 2, size + need) /\ g.front = 0
        /\ g.buf = [j \in 0 .. g.cap - 1 |-> IF j < size THEN Copied(j) ELSE Zero]
    BY <1>3 DEF grow
  <2>2. g.cap \in Nat \ {0} /\ g.cap >= size + need /\ size < g.cap
    BY <1>1, <1>3, <2>1 DEF Greater
  <2>3. ASSUME NEW i \in 0 .. size - 1
        PROVE  /\ Copied(i) = buf[Wrapped(front + i, cap)]
               /\ buf[Wrapped(front + i, cap)] \in Elem
    <3>1. Copied(i) = buf[Wrapped(front + i, cap)]
      BY <1>1, <1>3 DEF Copied, Wrapped
    <3>2. QED
      BY <3>1 DEF Ring
  <2> HIDE DEF g
  <2>4. ASSUME NEW i \in 0 .. size - 1
        PROVE  g.buf[Wrapped(g.front + i, g.cap)] = buf[Wrapped(front + i, cap)]
    <3>1. Wrapped(g.front + i, g.cap) = i /\ i \in 0 .. g.cap - 1 /\ i < size
      BY <1>1, <2>1, <2>2 DEF Wrapped
    <3>2. QED
      BY <2>1, <2>3, <3>1
  <2>5. g.buf \in [0 .. g.cap - 1 -> Elem \cup {Zero}]
    <3>1. ASSUME NEW j \in 0 .. g.cap - 1, j < size PROVE Copied(j) \in Elem
      BY <1>1, <2>3, <3>1
    <3>2. QED
      BY <2>1, <3>1
  <2>6. ASSUME NEW j \in 0 .. g.cap - 1,
               \A i \in 0 .. size - 1 : j # Wrapped(g.front + i, g.cap)
        PROVE  g.buf[j] = Zero
    <3>1. CASE j < size
      <4>1. j \in 0 .. size - 1 /\ Wrapped(g.front + j, g.cap) = j
        BY <1>1, <2>1, <2>2, <3>1 DEF Wrapped
      <4>2. QED
        BY <2>6, <4>1
    <3>2. CASE ~(j < size)
      BY <2>1, <3>2
    <3>3. QED
      BY <3>1, <3>2
  <2>7. /\ g.cap \in Nat /\ size \in 0 .. g.cap /\ g.front \in 0 .. g.cap
        /\ g.front < g.cap
    BY <1>1, <2>1, <2>2
  <2>8. Ring(g.cap, g.buf, g.front, size)
    BY <2>3, <2>4, <2>5, <2>6, <2>7 DEF Ring
  <2>9. ASSUME NEW i \in 1 .. size
        PROVE  g.buf[Wrapped(g.front + (i - 1), g.cap)]
                 = buf[Wrapped(front + (i - 1), cap)]
    <3>1. i - 1 \in 0 .. size - 1
      BY <1>1
    <3>2. QED
      BY <2>4, <3>1
  <2>10. Window(g.cap, g.buf, g.front, size) = Window(cap, buf, front, size)
    BY <2>9 DEF Window
  <2>11. QED
    BY <2>2, <2>8, <2>10 DEF g
<1>4. QED
  BY <1>2, <1>3

(* What ToSlice copies is the window, in one piece or in two. *)
LEMMA ToSliceWindow ==
  ASSUME Ring(cap, buf, front, size), ToSlice
  PROVE  ret' = Window(cap, buf, front, size) /\ panicked' = FALSE
<1>1. cap \in Nat /\ size \in 0 .. cap /\ front \in 0 .. cap /\ (front < cap \/ cap = 0)
  BY DEF Ring
<1>2. CASE size = 0
  <2>1. Window(cap, buf, front, size) = <<>>
    BY <1>2 DEF Window
  <2>2. QED
    BY <1>2, <2>1 DEF ToSlice, Returns
<1>3. CASE size # 0
  <2> DEFINE back == Wrapped(front + size, cap)
             n == cap - front
  <2>1. CASE front < back
    <3>1. ret' = [i \in 1 .. size |-> buf[front + i - 1]] /\ panicked' = FALSE
      BY <1>3, <2>1 DEF ToSlice, Returns
    <3>2. front + size < cap
      BY <1>1, <1>3, <2>1 DEF Wrapped
    <3>3. ASSUME NEW i \in 1 .. size
          PROVE  front + i - 1 = Wrapped(front + (i - 1), cap)
      BY <1>1, <3>2 DEF Wrapped
    <3>4. [i \in 1 .. size |-> buf[front + i - 1]] = Window(cap, buf, front, size)
      BY <3>3 DEF Window
    <3>5. QED
      BY <3>1, <3>4
  <2>2. CASE ~(front < back)
    <3>1. /\ ret' = [i \in 1 .. size |-> IF i <= n THEN buf[front + i - 1]
                                                   ELSE buf[i - 1 - n]]
          /\ panicked' = FALSE
      BY <1>3, <2>2 DEF ToSlice, Returns
    <3>2. ASSUME NEW i \in 1 .. size
          PROVE  /\ i <= n => front + i - 1 = Wrapped(front + (i - 1), cap)
                 /\ ~(i <= n) => i - 1 - n = Wrapped(front + (i - 1), cap)
      BY <1>1 DEF Wrapped
    <3>3. ASSUME NEW i \in 1 .. size
          PROVE  (IF i <= n THEN buf[front + i - 1] ELSE buf[i - 1 - n])
                   = buf[Wrapped(front + (i - 1), cap)]
      <4> HIDE DEF n
      <4>1. QED
        BY <3>2
    <3>4. QED
      BY <3>1, <3>3 DEF Window
  <2>3. QED
    BY <2>1, <2>2
<1>4. QED
  BY <1>2, <1>3

(* Reset clears every slot of the window: the ring is empty and all Zero. *)
LEMMA ResetRing ==
  ASSUME Ring(cap, buf, front, size), Reset
  PROVE  /\ Ring(cap', buf', front', size')
         /\ size' = 0 /\ ret' = <<>> /\ panicked' = FALSE
<1>1. cap \in Nat /\ size \in 0 .. cap /\ front \in 0 .. cap /\ (front < cap \/ cap = 0)
      /\ buf \in [0 .. cap - 1 -> Elem \cup {Zero}]
  BY DEF Ring
<1>2. CASE size = 0
  BY <1>2 DEF Reset, Returns, dequeVars
<1>3. CASE size # 0
  <2>1. /\ buf' = [j \in 0 .. cap - 1 |-> IF j \in Cleared THEN Zero ELSE buf[j]]
        /\ front' = 0 /\ size' = 0 /\ cap' = cap /\ ret' = <<>> /\ panicked' = FALSE
    BY <1>3 DEF Reset, Returns
  <2>2. ASSUME NEW j \in 0 .. cap - 1, j \notin Cleared PROVE buf[j] = Zero
    <3>1. ASSUME NEW i \in 0 .. size - 1 PROVE Wrapped(front + i, cap) \in Cleared
      BY <1>1 DEF Wrapped, Cleared
    <3>2. QED
      BY <2>2, <3>1 DEF Ring
  <2>3. /\ buf' \in [0 .. cap - 1 -> Elem \cup {Zero}]
        /\ \A j \in 0 .. cap - 1 : buf'[j] = Zero
    <3> HIDE DEF Cleared
    <3>1. QED
      BY <1>1, <2>1, <2>2
  <2>4. QED
    BY <1>1, <1>3, <2>1, <2>3 DEF Ring
<1>4. QED
  BY <1>2, <1>3

-----------------------------------------------------------------------------
(***************************************************************************)
(* The inductive invariant, and what each call does to the elements.       *)
(***************************************************************************)
DInv ==
  /\ Ring(cap, buf, front, size)
  /\ ret \in Seq(Elem)
  /\ panicked \in BOOLEAN

Elems == Window(cap, buf, front, size)

LEMMA ItemsAreElems == Items = Elems /\ Items' = Elems'
<1>1. Items = Elems
  BY DEF Items, Elems, Window, Pos
<1>2. Items' = Elems'
  BY DEF Items, Elems, Window, Pos
<1>3. QED
  BY <1>1, <1>2

LEMMA EmptyIsSeq == <<>> \in Seq(Elem)
OBVIOUS

LEMMA SingleIsSeq == \A v \in Elem : <<v>> \in Seq(Elem)
OBVIOUS

(* The guards of the code and of the sequence agree. *)
LEMMA ElemsFacts ==
  ASSUME DInv
  PROVE  /\ Elems \in Seq(Elem) /\ Len(Elems) = size /\ size \in Nat
         /\ (size = 0 <=> Elems = <<>>) /\ (size > 0 <=> Elems # <<>>)
         /\ Ring(cap, buf, front, size)
<1>1. Elems \in Seq(Elem) /\ Len(Elems) = size
  BY WindowIsSeq DEF DInv, Elems
<1>2. size \in Nat
  BY DEF DInv, Ring
<1> HIDE DEF Elems
<1>3. QED
  BY <1>1, <1>2 DEF DInv

(* What a step leaves is well-formed when it leaves a ring. *)
LEMMA LeavesRing ==
  ASSUME NEW c, NEW b, NEW f, NEW s, Ring(c, b, f, s),
         cap' = c, buf' = b, front' = f, size' = s,
         ret' \in Seq(Elem), panicked' \in BOOLEAN
  PROVE  DInv' /\ Elems' = Window(c, b, f, s)
<1>1. DInv'
  BY DEF DInv, Ring, Wrapped
<1>2. Elems' = Window(c, b, f, s)
  BY DEF Elems, Window, Wrapped
<1>3. QED
  BY <1>1, <1>2

LEMMA DInvImplies == ASSUME DInv PROVE TypeOK /\ VacatedCleared
BY DEF DInv, Ring, TypeOK, VacatedCleared, Pos

LEMMA InitRing ==
  ASSUME Init
  PROVE  DInv /\ Sequence!Init
<1>1. PICK slice \in Slices :
        /\ cap = Len(slice)
        /\ buf = [j \in 0 .. Len(slice) - 1 |-> slice[j + 1]]
        /\ front = 0 /\ size = Len(slice) /\ ret = <<>> /\ panicked = FALSE
  BY DEF Init
<1>2. slice \in Seq(Elem) /\ cap \in Nat
  BY <1>1, DequeAssumption
<1>3. ASSUME NEW j \in 0 .. cap - 1
      PROVE  Wrapped(front + j, cap) = j /\ buf[j] \in Elem
  <2>1. j + 1 \in 1 .. Len(slice)
    BY <1>1, <1>2
  <2>2. slice[j + 1] \in Elem
    BY <1>2, <2>1
  <2>3. QED
    BY <1>1, <1>2, <2>2 DEF Wrapped
<1>4. buf \in [0 .. cap - 1 -> Elem \cup {Zero}]
  BY <1>1, <1>3
<1>5. Ring(cap, buf, front, size)
  BY <1>1, <1>2, <1>3, <1>4 DEF Ring
<1>6. Elems \in Seq(Elem)
  BY <1>5, WindowIsSeq DEF Elems
<1>7. ret \in Seq(Elem) /\ ret = <<>> /\ panicked = FALSE
  BY <1>1
<1>8. QED
  BY <1>5, <1>6, <1>7, ItemsAreElems DEF DInv, Sequence!Init

(* The deque that a push writes to has a free slot and the same elements. *)
LEMMA RoomyRing ==
  ASSUME Ring(cap, buf, front, size)
  PROVE  /\ Ring(Roomy.cap, Roomy.buf, Roomy.front, size)
         /\ Window(Roomy.cap, Roomy.buf, Roomy.front, size) = Elems
         /\ size < Roomy.cap
<1>1. cap \in Nat /\ size \in 0 .. cap
  BY DEF Ring
<1>2. CASE size = cap
  <2>1. cap - size < 1 /\ 1 \in Nat
    BY <1>1, <1>2
  <2>2. Roomy = grow(1)
    BY <1>2 DEF Roomy
  <2>3. QED
    BY <2>1, <2>2, GrownRing DEF Elems
<1>3. CASE size # cap
  <2>1. Roomy.cap = cap /\ Roomy.buf = buf /\ Roomy.front = front
    BY <1>3 DEF Roomy
  <2>2. size < cap
    BY <1>1, <1>3
  <2>3. QED
    BY <2>1, <2>2 DEF Elems
<1>4. QED
  BY <1>2, <1>3

(* A call that leaves the ring alone. *)
LEMMA ReadKeeps ==
  ASSUME DInv, UNCHANGED dequeVars, ret' \in Seq(Elem), panicked' \in BOOLEAN
  PROVE  DInv' /\ Elems' = Elems
BY DEF DInv, dequeVars, Elems, Ring, Window, Wrapped

LEMMA PanicSteps ==
  ASSUME DInv, Panics
  PROVE  DInv' /\ Elems' = Elems /\ ret' = <<>> /\ panicked' = TRUE
<1>1. ret' \in Seq(Elem) /\ panicked' \in BOOLEAN /\ UNCHANGED dequeVars
  BY DEF Panics
<1>2. QED
  BY <1>1, ReadKeeps DEF Panics

LEMMA PushBackStep ==
  ASSUME DInv, NEW v \in Elem, PushBack(v)
  PROVE  DInv' /\ Sequence!PushBack(v)
<1> DEFINE c == Roomy.cap
           b == Roomy.buf
           f == Roomy.front
<1>1. /\ cap' = c /\ buf' = [b EXCEPT ![Wrapped(f + size, c)] = v]
      /\ front' = f /\ size' = size + 1 /\ ret' = <<>> /\ panicked' = FALSE
  BY DEF PushBack, Returns
<1>2. Ring(c, b, f, size) /\ Window(c, b, f, size) = Elems /\ size < c
  BY RoomyRing DEF DInv
<1>3. c \in Nat /\ b \in [0 .. c - 1 -> Elem \cup {Zero}] /\ size \in 0 .. c - 1
      /\ f \in 0 .. c - 1
  BY <1>2 DEF Ring
<1> HIDE DEF c, b, f
<1>4. Wrapped(f + size, c) \in 0 .. c - 1
  BY <1>3, SlotInRange
<1>5. Written(c, b, buf', Wrapped(f + size, c), v)
  BY <1>1, <1>3, <1>4, ExceptWrites
<1>6. Ring(c, buf', f, size') /\ Window(c, buf', f, size') = Append(Elems, v)
  <2>1. size' = size + 1
    BY <1>1
  <2>2. QED
    BY <1>2, <1>5, <2>1, PushBackRing
<1>7. ret' \in Seq(Elem) /\ panicked' \in BOOLEAN
  <2>1. ret' = <<>> /\ panicked' = FALSE
    BY <1>1
  <2>2. QED
    BY <2>1, EmptyIsSeq, Zenon
<1>8. DInv' /\ Elems' = Append(Elems, v)
  BY <1>1, <1>6, <1>7, LeavesRing
<1>9. QED
  BY <1>1, <1>8, ItemsAreElems DEF Sequence!PushBack, Sequence!Returns

LEMMA PushFrontStep ==
  ASSUME DInv, NEW v \in Elem, PushFront(v)
  PROVE  DInv' /\ Sequence!PushFront(v)
<1> DEFINE c == Roomy.cap
           b == Roomy.buf
           f == Roomy.front
<1>1. /\ cap' = c /\ buf' = [b EXCEPT ![front'] = v]
      /\ front' = IF f = 0 THEN c - 1 ELSE f - 1
      /\ size' = size + 1 /\ ret' = <<>> /\ panicked' = FALSE
  BY DEF PushFront, Returns
<1>2. Ring(c, b, f, size) /\ Window(c, b, f, size) = Elems /\ size < c
  BY RoomyRing DEF DInv
<1>3. c \in Nat /\ b \in [0 .. c - 1 -> Elem \cup {Zero}] /\ size \in 0 .. c - 1
      /\ f \in 0 .. c - 1
  BY <1>2 DEF Ring
<1> HIDE DEF c, b, f
<1>4. front' \in 0 .. c - 1
  BY <1>1, <1>3
<1>5. Written(c, b, buf', front', v)
  BY <1>1, <1>3, <1>4, ExceptWrites
<1>6. Ring(c, buf', front', size') /\ Window(c, buf', front', size') = <<v>> \o Elems
  <2>1. size' = size + 1 /\ front' = Before(f, c)
    BY <1>1 DEF Before
  <2>2. QED
    BY <1>2, <1>5, <2>1, PushFrontRing
<1>7. ret' \in Seq(Elem) /\ panicked' \in BOOLEAN
  <2>1. ret' = <<>> /\ panicked' = FALSE
    BY <1>1
  <2>2. QED
    BY <2>1, EmptyIsSeq, Zenon
<1>8. DInv' /\ Elems' = <<v>> \o Elems
  BY <1>1, <1>6, <1>7, LeavesRing
<1>9. QED
  BY <1>1, <1>8, ItemsAreElems DEF Sequence!PushFront, Sequence!Returns

LEMMA PopFrontStep ==
  ASSUME DInv, PopFront
  PROVE  DInv' /\ Sequence!PopFront
<1>1. CASE size = 0
  <2>1. Panics
    BY <1>1 DEF PopFront
  <2>2. QED
    BY <1>1, <2>1, ElemsFacts, PanicSteps, ItemsAreElems
    DEF Sequence!PopFront, Sequence!Panics
<1>2. CASE size # 0
  <2>1. /\ buf' = [buf EXCEPT ![front] = Zero]
        /\ front' = IF front + 1 = cap THEN 0 ELSE front + 1
        /\ size' = size - 1 /\ cap' = cap /\ ret' = <<buf[front]>> /\ panicked' = FALSE
        /\ size > 0
    BY <1>2 DEF PopFront, Returns
  <2>2. Ring(cap, buf, front, size)
    BY DEF DInv
  <2>3. cap \in Nat /\ front \in 0 .. cap - 1 /\ buf \in [0 .. cap - 1 -> Elem \cup {Zero}]
    BY <2>1, <2>2 DEF Ring
  <2>4. Written(cap, buf, buf', front, Zero)
    BY <2>1, <2>3, ExceptWrites
  <2>5. front' = After(front, cap) /\ size' = size - 1 /\ size > 0
    BY <2>1 DEF After
  <2>6. /\ Ring(cap, buf', front', size')
        /\ Window(cap, buf', front', size') = Tail(Window(cap, buf, front, size))
        /\ Window(cap, buf, front, size)[1] = buf[front] /\ buf[front] \in Elem
    BY <2>2, <2>4, <2>5, PopFrontRing
  <2>7. ret' = <<buf[front]>> /\ panicked' = FALSE /\ cap' = cap
    BY <2>1
  <2>8. ret' \in Seq(Elem) /\ panicked' \in BOOLEAN
    BY <2>6, <2>7, SingleIsSeq, Zenon
  <2>9. DInv' /\ Elems' = Tail(Elems)
    BY <2>6, <2>7, <2>8, LeavesRing DEF Elems
  <2>10. Elems # <<>> /\ ret' = <<Elems[1]>>
    BY <2>5, <2>6, <2>7, ElemsFacts DEF Elems
  <2>11. QED
    BY <2>7, <2>9, <2>10, ItemsAreElems DEF Sequence!PopFront, Sequence!Returns
<1>3. QED
  BY <1>1, <1>2

LEMMA PopBackStep ==
  ASSUME DInv, PopBack
  PROVE  DInv' /\ Sequence!PopBack
<1>1. CASE size = 0
  <2>1. Panics
    BY <1>1 DEF PopBack
  <2>2. QED
    BY <1>1, <2>1, ElemsFacts, PanicSteps, ItemsAreElems
    DEF Sequence!PopBack, Sequence!Panics
<1>2. CASE size # 0
  <2> DEFINE back == Wrapped(front + size', cap)
  <2>1. /\ buf' = [buf EXCEPT ![back] = Zero]
        /\ size' = size - 1 /\ cap' = cap /\ front' = front
        /\ ret' = <<buf[back]>> /\ panicked' = FALSE
        /\ size > 0
    <3>1. /\ buf' = [buf EXCEPT ![Pos(size - 1)] = Zero]
          /\ size' = size - 1 /\ cap' = cap /\ front' = front
          /\ ret' = <<buf[Pos(size - 1)]>> /\ panicked' = FALSE
          /\ size > 0
      BY <1>2 DEF PopBack, Returns
    <3>2. Pos(size - 1) = back
      BY <3>1 DEF Pos
    <3>3. QED
      BY <3>1, <3>2
  <2>2. Ring(cap, buf, front, size)
    BY DEF DInv
  <2>3. cap \in Nat /\ front \in 0 .. cap - 1 /\ size' \in 0 .. cap - 1
        /\ buf \in [0 .. cap - 1 -> Elem \cup {Zero}]
    BY <2>1, <2>2 DEF Ring
  <2>4. Written(cap, buf, buf', back, Zero)
    <3>1. back \in 0 .. cap - 1
      BY <2>3, SlotInRange
    <3> HIDE DEF back
    <3>2. QED
      BY <2>1, <2>3, <3>1, ExceptWrites
  <2>5. size' = size - 1 /\ size > 0
    BY <2>1
  <2>6. /\ Ring(cap, buf', front, size')
        /\ Window(cap, buf', front, size')
             = SubSeq(Window(cap, buf, front, size), 1, Len(Window(cap, buf, front, size)) - 1)
        /\ Window(cap, buf, front, size)[Len(Window(cap, buf, front, size))] = buf[back]
        /\ buf[back] \in Elem
    BY <2>2, <2>4, <2>5, PopBackRing
  <2>7. ret' = <<buf[back]>> /\ panicked' = FALSE /\ cap' = cap /\ front' = front
    BY <2>1
  <2> HIDE DEF back
  <2>8. ret' \in Seq(Elem) /\ panicked' \in BOOLEAN
    BY <2>6, <2>7, SingleIsSeq, Zenon
  <2>9. DInv' /\ Elems' = SubSeq(Elems, 1, Len(Elems) - 1)
    BY <2>6, <2>7, <2>8, LeavesRing DEF Elems
  <2>10. Elems # <<>> /\ ret' = <<Elems[Len(Elems)]>>
    BY <2>5, <2>6, <2>7, ElemsFacts DEF Elems
  <2>11. QED
    BY <2>7, <2>9, <2>10, ItemsAreElems DEF Sequence!PopBack, Sequence!Returns
<1>3. QED
  BY <1>1, <1>2

(* The slot of an index within bounds holds the element with that index. *)
LEMMA ElemAt ==
  ASSUME DInv, NEW idx \in 0 .. size - 1
  PROVE  /\ Elems[idx + 1] = buf[Pos(idx)] /\ buf[Pos(idx)] \in Elem
         /\ idx \in 0 .. Len(Elems) - 1
<1>1. size \in Nat /\ Ring(cap, buf, front, size) /\ Len(Elems) = size
  BY ElemsFacts
<1>2. idx + 1 \in 1 .. size /\ (idx + 1) - 1 = idx
  BY <1>1
<1>3. Elems[idx + 1] = buf[Wrapped(front + ((idx + 1) - 1), cap)]
  BY <1>1, <1>2, WindowIsSeq DEF Elems
<1>4. buf[Wrapped(front + idx, cap)] \in Elem
  BY <1>1 DEF Ring
<1>5. QED
  BY <1>1, <1>2, <1>3, <1>4 DEF Pos

(* A call that only looks at the element with index idx. *)
LEMMA LookStep ==
  ASSUME DInv, NEW idx \in 0 .. size - 1,
         UNCHANGED dequeVars, ret' = <<buf[Pos(idx)]>>, panicked' = FALSE
  PROVE  DInv' /\ Elems' = Elems /\ ret' = <<Elems[idx + 1]>>
<1>1. Elems[idx + 1] = buf[Pos(idx)] /\ buf[Pos(idx)] \in Elem
  BY ElemAt
<1>2. ret' \in Seq(Elem) /\ panicked' \in BOOLEAN
  BY <1>1, SingleIsSeq, Zenon
<1>3. QED
  BY <1>1, <1>2, ReadKeeps

LEMMA FrontStep ==
  ASSUME DInv, Front
  PROVE  DInv' /\ Sequence!Front
<1>1. CASE size = 0
  <2>1. Panics
    BY <1>1 DEF Front
  <2>2. QED
    BY <1>1, <2>1, ElemsFacts, PanicSteps, ItemsAreElems
    DEF Sequence!Front, Sequence!Panics
<1>2. CASE size # 0
  <2>1. size > 0 /\ UNCHANGED dequeVars /\ ret' = <<buf[front]>> /\ panicked' = FALSE
    BY <1>2 DEF Front, Returns
  <2>2. 0 \in 0 .. size - 1 /\ Pos(0) = front /\ 0 + 1 = 1
    BY <2>1, ElemsFacts DEF Ring, Pos, Wrapped
  <2>3. DInv' /\ Elems' = Elems /\ ret' = <<Elems[0 + 1]>>
    BY <2>1, <2>2, LookStep
  <2>4. QED
    BY <1>2, <2>1, <2>2, <2>3, ElemsFacts, ItemsAreElems
    DEF Sequence!Front, Sequence!Returns
<1>3. QED
  BY <1>1, <1>2

LEMMA BackStep ==
  ASSUME DInv, Back
  PROVE  DInv' /\ Sequence!Back
<1>1. CASE size = 0
  <2>1. Panics
    BY <1>1 DEF Back
  <2>2. QED
    BY <1>1, <2>1, ElemsFacts, PanicSteps, ItemsAreElems
    DEF Sequence!Back, Sequence!Panics
<1>2. CASE size # 0
  <2>1. /\ size > 0 /\ UNCHANGED dequeVars
        /\ ret' = <<buf[Pos(size - 1)]>> /\ panicked' = FALSE
    BY <1>2 DEF Back, Returns
  <2>2. size - 1 \in 0 .. size - 1 /\ (size - 1) + 1 = Len(Elems)
    BY <2>1, ElemsFacts
  <2>3. DInv' /\ Elems' = Elems /\ ret' = <<Elems[(size - 1) + 1]>>
    BY <2>1, <2>2, LookStep
  <2>4. QED
    BY <1>2, <2>1, <2>2, <2>3, ElemsFacts, ItemsAreElems
    DEF Sequence!Back, Sequence!Returns
<1>3. QED
  BY <1>1, <1>2

LEMMA AtStep ==
  ASSUME DInv, NEW idx \in Args, At(idx)
  PROVE  DInv' /\ Sequence!At(idx)
<1>1. idx \in Int /\ size \in Nat /\ Len(Elems) = size
  BY DequeAssumption, ElemsFacts
<1>2. CASE idx \in 0 .. size - 1
  <2>1. UNCHANGED dequeVars /\ ret' = <<buf[Pos(idx)]>> /\ panicked' = FALSE
    BY <1>1, <1>2 DEF At, Returns
  <2>2. DInv' /\ Elems' = Elems /\ ret' = <<Elems[idx + 1]>>
    BY <1>2, <2>1, LookStep
  <2>3. QED
    BY <1>1, <1>2, <2>1, <2>2, ItemsAreElems DEF Sequence!At, Sequence!Returns
<1>3. CASE idx \notin 0 .. size - 1
  <2>1. Panics
    BY <1>1, <1>3 DEF At
  <2>2. QED
    BY <1>1, <1>3, <2>1, PanicSteps, ItemsAreElems DEF Sequence!At, Sequence!Panics
<1>4. QED
  BY <1>2, <1>3

LEMMA SetStep ==
  ASSUME DInv, NEW idx \in Args, NEW v \in Elem, Set(idx, v)
  PROVE  DInv' /\ Sequence!Set(idx, v)
<1>1. idx \in Int /\ size \in Nat /\ Len(Elems) = size /\ Ring(cap, buf, front, size)
  BY DequeAssumption, ElemsFacts
<1>2. CASE idx \in 0 .. size - 1
  <2> DEFINE pos == Wrapped(front + idx, cap)
  <2>1. /\ buf' = [buf EXCEPT ![pos] = v]
        /\ cap' = cap /\ front' = front /\ size' = size
        /\ ret' = <<>> /\ panicked' = FALSE
    BY <1>1, <1>2 DEF Set, Returns, Pos
  <2>2. cap \in Nat /\ front \in 0 .. cap - 1 /\ idx \in 0 .. cap - 1
        /\ buf \in [0 .. cap - 1 -> Elem \cup {Zero}]
    BY <1>1, <1>2 DEF Ring
  <2>3. Written(cap, buf, buf', pos, v)
    <3>1. pos \in 0 .. cap - 1
      BY <2>2, SlotInRange
    <3> HIDE DEF pos
    <3>2. QED
      BY <2>1, <2>2, <3>1, ExceptWrites
  <2>4. /\ Ring(cap, buf', front, size)
        /\ Window(cap, buf', front, size)
             = [Window(cap, buf, front, size) EXCEPT ![idx + 1] = v]
    BY <1>1, <1>2, <2>3, SetRing
  <2>5. ret' \in Seq(Elem) /\ panicked' \in BOOLEAN
    BY <2>1, EmptyIsSeq, Zenon
  <2>6. DInv' /\ Elems' = [Elems EXCEPT ![idx + 1] = v]
    <3>1. cap' = cap /\ front' = front /\ size' = size
      BY <2>1
    <3>2. QED
      BY <2>4, <2>5, <3>1, LeavesRing DEF Elems
  <2>7. QED
    BY <1>1, <1>2, <2>1, <2>6, ItemsAreElems DEF Sequence!Set, Sequence!Returns
<1>3. CASE idx \notin 0 .. size - 1
  <2>1. Panics
    BY <1>1, <1>3 DEF Set
  <2>2. QED
    BY <1>1, <1>3, <2>1, PanicSteps, ItemsAreElems DEF Sequence!Set, Sequence!Panics
<1>4. QED
  BY <1>2, <1>3

LEMMA GrowStep ==
  ASSUME DInv, NEW n \in Args, Grow(n)
  PROVE  DInv' /\ Sequence!Grow(n)
<1>1. n \in Int /\ Ring(cap, buf, front, size)
  BY DequeAssumption, ElemsFacts
<1>2. CASE n < 0
  <2>1. Panics
    BY <1>1, <1>2 DEF Grow
  <2>2. QED
    BY <1>2, <2>1, PanicSteps, ItemsAreElems DEF Sequence!Grow, Sequence!Panics
<1>3. CASE n >= 0 /\ cap - size < n
  <2>1. /\ cap' = grow(n).cap /\ buf' = grow(n).buf /\ front' = grow(n).front
        /\ size' = size /\ ret' = <<>> /\ panicked' = FALSE
    BY <1>1, <1>3, ElemsFacts DEF Grow, Returns, Ring
  <2>2. n \in Nat
    BY <1>1, <1>3
  <2>3. /\ Ring(grow(n).cap, grow(n).buf, grow(n).front, size)
        /\ Window(grow(n).cap, grow(n).buf, grow(n).front, size) = Elems
    BY <1>1, <1>3, <2>2, GrownRing DEF Elems
  <2>4. ret' \in Seq(Elem) /\ panicked' \in BOOLEAN
    BY <2>1, EmptyIsSeq, Zenon
  <2>5. DInv' /\ Elems' = Elems
    BY <2>1, <2>3, <2>4, LeavesRing
  <2>6. QED
    BY <1>1, <1>3, <2>1, <2>5, ItemsAreElems DEF Sequence!Grow, Sequence!Returns
<1>4. CASE n >= 0 /\ ~(cap - size < n)
  <2>1. UNCHANGED dequeVars /\ ret' = <<>> /\ panicked' = FALSE
    BY <1>1, <1>4 DEF Grow, Returns
  <2>2. ret' \in Seq(Elem) /\ panicked' \in BOOLEAN
    BY <2>1, EmptyIsSeq, Zenon
  <2>3. QED
    BY <1>1, <1>4, <2>1, <2>2, ReadKeeps, ItemsAreElems DEF Sequence!Grow, Sequence!Returns
<1>5. QED
  BY <1>1, <1>2, <1>3, <1>4

LEMMA ToSliceStep ==
  ASSUME DInv, ToSlice
  PROVE  DInv' /\ Sequence!ToSlice
<1>1. ret' = Elems /\ panicked' = FALSE /\ UNCHANGED dequeVars
  BY ElemsFacts, ToSliceWindow DEF Elems, ToSlice
<1>2. ret' \in Seq(Elem) /\ panicked' \in BOOLEAN
  BY <1>1, ElemsFacts, Zenon
<1>3. QED
  BY <1>1, <1>2, ReadKeeps, ItemsAreElems DEF Sequence!ToSlice, Sequence!Returns

LEMMA ResetStep ==
  ASSUME DInv, Reset
  PROVE  DInv' /\ Sequence!Reset
<1>1. /\ Ring(cap', buf', front', size')
      /\ size' = 0 /\ ret' = <<>> /\ panicked' = FALSE
  BY ElemsFacts, ResetRing
<1>2. ret' \in Seq(Elem) /\ panicked' \in BOOLEAN
  BY <1>1, EmptyIsSeq, Zenon
<1>3. DInv' /\ Elems' = Window(cap', buf', front', size')
  BY <1>1, <1>2, LeavesRing
<1>4. Window(cap', buf', front', size') = <<>>
  BY <1>1 DEF Window
<1>5. QED
  BY <1>1, <1>3, <1>4, ItemsAreElems DEF Sequence!Reset, Sequence!Returns

-----------------------------------------------------------------------------
LEMMA NextSteps ==
  ASSUME DInv, Next
  PROVE  DInv' /\ Sequence!Next
<1>1. CASE \E v \in Elem : PushBack(v) \/ PushFront(v) \/ \E idx \in Args : Set(idx, v)
  <2>1. PICK v \in Elem : PushBack(v) \/ PushFront(v) \/ \E idx \in Args : Set(idx, v)
    BY <1>1
  <2>2. CASE PushBack(v)
    BY <2>2, PushBackStep DEF Sequence!Next
  <2>3. CASE PushFront(v)
    BY <2>3, PushFrontStep DEF Sequence!Next
  <2>4. CASE \E idx \in Args : Set(idx, v)
    BY <2>4, SetStep DEF Sequence!Next
  <2>5. QED
    BY <2>1, <2>2, <2>3, <2>4
<1>2. CASE Front
  BY <1>2, FrontStep DEF Sequence!Next
<1>3. CASE Back
  BY <1>3, BackStep DEF Sequence!Next
<1>4. CASE PopFront
  BY <1>4, PopFrontStep DEF Sequence!Next
<1>5. CASE PopBack
  BY <1>5, PopBackStep DEF Sequence!Next
<1>6. CASE \E n \in Args : At(n) \/ Grow(n)
  BY <1>6, AtStep, GrowStep DEF Sequence!Next
<1>7. CASE ToSlice
  BY <1>7, ToSliceStep DEF Sequence!Next
<1>8. CASE Reset
  BY <1>8, ResetStep DEF Sequence!Next
<1>9. QED
  BY <1>1, <1>2, <1>3, <1>4, <1>5, <1>6, <1>7, <1>8 DEF Next

LEMMA Stutters ==
  ASSUME DInv, UNCHANGED vars
  PROVE  DInv' /\ UNCHANGED Sequence!vars
<1>1. UNCHANGED dequeVars /\ ret' = ret /\ panicked' = panicked
  BY DEF vars, dequeVars
<1>2. ret' \in Seq(Elem) /\ panicked' \in BOOLEAN
  BY <1>1 DEF DInv
<1>3. DInv' /\ Elems' = Elems
  BY <1>1, <1>2, ReadKeeps
<1>4. QED
  BY <1>1, <1>3, ItemsAreElems DEF Sequence!vars

(* The window is well formed and every slot outside it is Zero, always. *)
THEOREM Invariance == Spec => []DInv
<1>1. Init => DInv
  BY InitRing
<1>2. DInv /\ [Next]_vars => DInv'
  BY NextSteps, Stutters
<1>3. QED
  BY <1>1, <1>2, PTL DEF Spec

(* Every call leaves the deque's fields within their ranges. *)
THEOREM Typing == Spec => []TypeOK
<1>1. DInv => TypeOK
  BY DInvImplies
<1>2. QED
  BY <1>1, Invariance, PTL

(* No call leaves an element in a slot that is not in use. *)
THEOREM VacatedSlotsAreCleared == Spec => []VacatedCleared
<1>1. DInv => VacatedCleared
  BY DInvImplies
<1>2. QED
  BY <1>1, Invariance, PTL

(* The ring buffer behaves as the sequence of its elements, whatever the   *)
(* element type, the capacities and the sequence of calls.                 *)
THEOREM Implementation == Spec => ImplementsSequence
<1>1. Init => Sequence!Init
  BY InitRing
<1>2. DInv /\ [Next]_vars => [Sequence!Next]_(Sequence!vars)
  BY NextSteps, Stutters
<1>3. QED
  BY <1>1, <1>2, Invariance, PTL DEF Spec, Sequence!Spec, ImplementsSequence

=============================================================================

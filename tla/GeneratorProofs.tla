--------------------------- MODULE GeneratorProofs ---------------------------
(***************************************************************************)
(* Theorems about cmd/generator: loggers.Dedup for any messages, callers,  *)
(* queue sizes and window, and any number of calls; the workers and main   *)
(* around it for any number of workers and requests.                       *)
(***************************************************************************)
EXTENDS Generator, FiniteSums

-----------------------------------------------------------------------------
(***************************************************************************)
(* loggers.Dedup.                                                          *)
(***************************************************************************)

LEMMA Constants ==
  /\ dedupCmdClose \notin Msgs /\ dedupCmdClose \in Cmds /\ Msgs \subseteq Cmds
  /\ Window \in Nat /\ Window > 0 /\ MaxCalls \in Nat
  /\ \A c \in Cmds : c \in Msgs <=> c # dedupCmdClose
BY DedupAssumption DEF Cmds

(***************************************************************************)
(* The messages that wait in the channel ahead of a close command.         *)
(***************************************************************************)
Ahead(q, m) == {i \in DOMAIN q : /\ q[i] = m
                                 /\ \A j \in 1 .. i : q[j] # dedupCmdClose}

HasClose(q) == \E i \in DOMAIN q : q[i] = dedupCmdClose

LEMMA AheadFinite ==
  ASSUME NEW q \in Seq(Cmds), NEW m
  PROVE  IsFiniteSet(Ahead(q, m)) /\ Cardinality(Ahead(q, m)) \in Nat
<1>1. DOMAIN q = 1 .. Len(q) /\ Len(q) \in Nat
  OBVIOUS
<1>2. IsFiniteSet(1 .. Len(q))
  BY <1>1, FS_Interval
<1>3. Ahead(q, m) \in SUBSET (1 .. Len(q))
  BY <1>1 DEF Ahead
<1>4. QED
  BY <1>2, <1>3, FS_Subset, FS_CardinalityType

LEMMA CloseAppend ==
  ASSUME NEW q \in Seq(Cmds), NEW c \in Cmds
  PROVE  HasClose(Append(q, c)) <=> HasClose(q) \/ c = dedupCmdClose
<1> DEFINE t == Append(q, c)
           n == Len(q)
<1>1. /\ n \in Nat /\ DOMAIN q = 1 .. n /\ DOMAIN t = 1 .. (n + 1)
      /\ t[n + 1] = c /\ \A i \in 1 .. n : t[i] = q[i]
  OBVIOUS
<1> HIDE DEF t, n
<1>2. /\ \A i \in 1 .. (n + 1) : i = n + 1 \/ i \in 1 .. n
      /\ \A i \in 1 .. n : i \in 1 .. (n + 1)
      /\ n + 1 \in 1 .. (n + 1)
  BY <1>1
<1>3. HasClose(t) <=> HasClose(q) \/ c = dedupCmdClose
  BY <1>1, <1>2 DEF HasClose
<1>4. QED
  BY <1>3 DEF t

LEMMA CloseTail ==
  ASSUME NEW q \in Seq(Cmds), q # <<>>, Head(q) # dedupCmdClose
  PROVE  HasClose(Tail(q)) <=> HasClose(q)
<1> DEFINE t == Tail(q)
           n == Len(q) - 1
<1>1. /\ n \in Nat /\ DOMAIN q = 1 .. (n + 1) /\ DOMAIN t = 1 .. n
      /\ Head(q) = q[1] /\ \A i \in 1 .. n : t[i] = q[i + 1]
  OBVIOUS
<1> HIDE DEF t, n
<1>2. /\ \A i \in 1 .. n : i + 1 \in 1 .. (n + 1)
      /\ \A i \in 1 .. (n + 1) : i # 1 => i - 1 \in 1 .. n /\ (i - 1) + 1 = i
  BY <1>1
<1>3. HasClose(t) => HasClose(q)
  BY <1>1, <1>2 DEF HasClose
<1>4. ASSUME NEW i \in 1 .. (n + 1), q[i] = dedupCmdClose PROVE HasClose(t)
  <2>1. i # 1
    BY <1>1, <1>4
  <2>2. i - 1 \in 1 .. n /\ t[i - 1] = q[i]
    BY <1>1, <1>2, <2>1
  <2>3. QED
    BY <1>1, <1>4, <2>2 DEF HasClose
<1>5. HasClose(t) <=> HasClose(q)
  BY <1>1, <1>3, <1>4 DEF HasClose
<1>6. QED
  BY <1>5 DEF t

LEMMA AheadAppend ==
  ASSUME NEW q \in Seq(Cmds), NEW c \in Cmds, NEW m \in Msgs
  PROVE  Cardinality(Ahead(Append(q, c), m))
           = Cardinality(Ahead(q, m)) + IF m = c /\ ~HasClose(q) THEN 1 ELSE 0
<1> DEFINE t == Append(q, c)
           n == Len(q)
<1>1. /\ n \in Nat /\ DOMAIN q = 1 .. n /\ DOMAIN t = 1 .. (n + 1)
      /\ t[n + 1] = c /\ \A i \in 1 .. n : t[i] = q[i]
  OBVIOUS
<1> HIDE DEF t, n
<1>2. /\ \A i \in 1 .. (n + 1) : i = n + 1 \/ i \in 1 .. n
      /\ \A i \in 1 .. n : i \in 1 .. (n + 1) /\ 1 .. i \subseteq 1 .. n
      /\ n + 1 \in 1 .. (n + 1) /\ n + 1 \notin 1 .. n
  BY <1>1
<1>3. \A i \in 1 .. n : i \in Ahead(t, m) <=> i \in Ahead(q, m)
  BY <1>1, <1>2 DEF Ahead
<1>4. n + 1 \in Ahead(t, m) <=> m = c /\ ~HasClose(q)
  <2>1. n + 1 \in Ahead(t, m) <=> /\ c = m
                                  /\ \A j \in 1 .. (n + 1) : t[j] # dedupCmdClose
    BY <1>1, <1>2 DEF Ahead
  <2>2. c = m => c # dedupCmdClose
    BY Constants
  <2>3. QED
    BY <1>1, <1>2, <2>1, <2>2 DEF HasClose
<1>5. Ahead(t, m) \subseteq 1 .. (n + 1) /\ Ahead(q, m) \subseteq 1 .. n
  BY <1>1 DEF Ahead
<1>6. /\ IsFiniteSet(Ahead(q, m)) /\ Cardinality(Ahead(q, m)) \in Nat
      /\ n + 1 \notin Ahead(q, m)
  BY <1>2, <1>5, AheadFinite
<1>7. CASE m = c /\ ~HasClose(q)
  <2>1. Ahead(t, m) = Ahead(q, m) \cup {n + 1}
    BY <1>2, <1>3, <1>4, <1>5, <1>7
  <2>2. Cardinality(Ahead(q, m) \cup {n + 1}) = Cardinality(Ahead(q, m)) + 1
    BY <1>6, FS_AddElement
  <2>3. QED
    BY <1>7, <2>1, <2>2 DEF t
<1>8. CASE ~(m = c /\ ~HasClose(q))
  <2>1. Ahead(t, m) = Ahead(q, m)
    BY <1>2, <1>3, <1>4, <1>5, <1>8
  <2>2. QED
    BY <1>6, <1>8, <2>1 DEF t
<1>9. QED
  BY <1>7, <1>8

LEMMA AheadTail ==
  ASSUME NEW q \in Seq(Cmds), q # <<>>, Head(q) # dedupCmdClose, NEW m \in Msgs
  PROVE  Cardinality(Ahead(q, m))
           = Cardinality(Ahead(Tail(q), m)) + IF m = Head(q) THEN 1 ELSE 0
<1> DEFINE t == Tail(q)
           n == Len(q) - 1
           A == Ahead(q, m)
           B == Ahead(t, m)
<1>1. /\ n \in Nat /\ DOMAIN q = 1 .. (n + 1) /\ DOMAIN t = 1 .. n /\ t \in Seq(Cmds)
      /\ Head(q) = q[1] /\ \A i \in 1 .. n : t[i] = q[i + 1]
  OBVIOUS
<1> HIDE DEF t, n
<1>2. /\ \A i \in 1 .. n : i + 1 \in 1 .. (n + 1) /\ i + 1 # 1
      /\ \A i \in 1 .. (n + 1) : i # 1 => i - 1 \in 1 .. n /\ (i - 1) + 1 = i
      /\ 1 \in 1 .. (n + 1)
  BY <1>1
<1>3. A \subseteq 1 .. (n + 1) /\ B \subseteq 1 .. n
  BY <1>1 DEF Ahead
<1>4. ASSUME NEW i \in B PROVE i + 1 \in A \ {1}
  <2>1. i \in 1 .. n /\ q[i + 1] = m /\ \A j \in 1 .. i : t[j] # dedupCmdClose
    BY <1>1, <1>3 DEF Ahead
  <2>2. ASSUME NEW j \in 1 .. (i + 1) PROVE q[j] # dedupCmdClose
    <3>1. CASE j = 1
      BY <1>1, <3>1
    <3>2. CASE j # 1
      <4>1. j - 1 \in 1 .. i /\ j - 1 \in 1 .. n /\ (j - 1) + 1 = j
        BY <1>1, <2>1, <3>2
      <4>2. t[j - 1] = q[j]
        BY <1>1, <4>1
      <4>3. QED
        BY <2>1, <4>1, <4>2
    <3>3. QED
      BY <3>1, <3>2
  <2>3. QED
    BY <1>1, <1>2, <2>1, <2>2 DEF Ahead
<1>5. ASSUME NEW i \in A, i # 1 PROVE i - 1 \in B
  <2>1. /\ i \in 1 .. (n + 1) /\ q[i] = m /\ \A j \in 1 .. i : q[j] # dedupCmdClose
    BY <1>1, <1>3 DEF Ahead
  <2>2. i - 1 \in 1 .. n /\ t[i - 1] = m
    BY <1>1, <1>2, <1>5, <2>1
  <2>3. \A j \in 1 .. (i - 1) : j + 1 \in 1 .. i /\ j \in 1 .. n
    BY <1>1, <2>1, <2>2
  <2>4. \A j \in 1 .. (i - 1) : t[j] # dedupCmdClose
    BY <1>1, <2>1, <2>3
  <2>5. QED
    BY <1>1, <2>2, <2>4 DEF Ahead
<1>6. 1 \in A <=> m = Head(q)
  <2>1. \A j \in 1 .. 1 : j = 1
    OBVIOUS
  <2>2. QED
    BY <1>1, <1>2, <2>1 DEF Ahead
<1>7. IsFiniteSet(A) /\ IsFiniteSet(B) /\ Cardinality(A) \in Nat /\ Cardinality(B) \in Nat
  BY <1>1, AheadFinite
<1> HIDE DEF A, B
<1>8. Cardinality(A \ {1}) = Cardinality(B)
  <2> DEFINE f == [i \in B |-> i + 1]
  <2>1. f \in [B -> A \ {1}]
    BY <1>4
  <2>2. \A i, j \in B : f[i] = f[j] => i = j
    BY <1>3
  <2>3. \A k \in A \ {1} : \E i \in B : f[i] = k
    <3>1. ASSUME NEW k \in A \ {1} PROVE k - 1 \in B /\ f[k - 1] = k
      BY <1>2, <1>3, <1>5
    <3>2. QED
      BY <3>1
  <2> HIDE DEF f
  <2>4. f \in Bijection(B, A \ {1})
    BY <2>1, <2>2, <2>3 DEF Bijection, Injection, Surjection, IsInjective
  <2>5. ExistsBijection(B, A \ {1})
    BY <2>4 DEF ExistsBijection
  <2>6. QED
    BY <1>7, <2>5, FS_Bijection
<1>9. Cardinality(A \ {1}) = IF 1 \in A THEN Cardinality(A) - 1 ELSE Cardinality(A)
  BY <1>7, FS_RemoveElement
<1>10. Cardinality(A) = Cardinality(B) + IF m = Head(q) THEN 1 ELSE 0
  BY <1>6, <1>7, <1>8, <1>9
<1>11. QED
  BY <1>10 DEF A, B, t

LEMMA AheadOfHead ==
  ASSUME NEW q \in Seq(Cmds), NEW m, q = <<>> \/ Head(q) = dedupCmdClose
  PROVE  Cardinality(Ahead(q, m)) = 0
<1>1. \A i \in DOMAIN q : 1 \in 1 .. i /\ q[1] = dedupCmdClose
  OBVIOUS
<1>2. Ahead(q, m) = {}
  BY <1>1 DEF Ahead
<1>3. QED
  BY <1>2, FS_EmptySet

-----------------------------------------------------------------------------
(***************************************************************************)
(* The table of entries and the lines: what log, forceFlush and maybeFlush *)
(* do to them.                                                             *)
(***************************************************************************)
Entry == [left : 0 .. Window, suppressed : Nat]

TableOK ==
  /\ DOMAIN lastMsgs \subseteq Msgs
  /\ \A m \in DOMAIN lastMsgs : lastMsgs[m] \in Entry
  /\ reported \in [Msgs -> Nat]
  /\ since \in [Msgs -> 0 .. Window]

(* The messages an entry holds back.                                       *)
Held(m) == IF m \in DOMAIN lastMsgs THEN lastMsgs[m].suppressed ELSE 0

(* The time since a line with m, as its entry tells it.                    *)
Elapsed(m) == IF m \in DOMAIN lastMsgs THEN Window - lastMsgs[m].left ELSE Window

LEMMA FreshEntry == Fresh \in Entry /\ Fresh.left = Window /\ Fresh.suppressed = 0
BY Constants DEF Fresh, Entry

LEMMA HeldNat == TableOK => \A m \in Msgs : Held(m) \in Nat /\ reported[m] \in Nat
BY DEF TableOK, Held, Entry

LEMMA LogMessage ==
  ASSUME TableOK, NEW msg \in Msgs, log(msg)
  PROVE  /\ TableOK'
         /\ \A m \in Msgs : reported'[m] + Held(m)'
                              = reported[m] + Held(m) + IF m = msg THEN 1 ELSE 0
         /\ (\A m \in Msgs : since[m] = Elapsed(m)) =>
              \A m \in Msgs : /\ since'[m] = Elapsed(m)'
                              /\ reported'[m] # reported[m] => since[m] = Window
<1>1. CASE msg \in DOMAIN lastMsgs
  <2> DEFINE e == [lastMsgs[msg] EXCEPT !.suppressed = @ + 1]
  <2>1. /\ lastMsgs' = [lastMsgs EXCEPT ![msg] = e]
        /\ since' = since /\ reported' = reported
    BY <1>1 DEF log
  <2>2. /\ e \in Entry /\ e.left = lastMsgs[msg].left
        /\ e.suppressed = lastMsgs[msg].suppressed + 1
        /\ lastMsgs[msg].suppressed \in Nat
    BY <1>1 DEF TableOK, Entry
  <2> HIDE DEF e
  <2>3. /\ DOMAIN lastMsgs' = DOMAIN lastMsgs /\ lastMsgs'[msg] = e
        /\ \A m \in DOMAIN lastMsgs : m # msg => lastMsgs'[m] = lastMsgs[m]
    BY <1>1, <2>1
  <2>4. TableOK'
    BY <2>1, <2>2, <2>3 DEF TableOK
  <2>5. /\ Held(msg)' = Held(msg) + 1 /\ Elapsed(msg)' = Elapsed(msg)
        /\ \A m \in Msgs : m # msg => Held(m)' = Held(m) /\ Elapsed(m)' = Elapsed(m)
    BY <1>1, <2>2, <2>3 DEF Held, Elapsed
  <2>6. \A m \in Msgs : reported[m] \in Nat /\ Held(m) \in Nat
    BY HeldNat
  <2>7. QED
    BY <2>1, <2>4, <2>5, <2>6
<1>2. CASE msg \notin DOMAIN lastMsgs
  <2>1. /\ reported' = [m \in Msgs |-> reported[m] + IF m = msg THEN 1 ELSE 0]
        /\ since' = [m \in Msgs |-> IF m = msg THEN 0 ELSE since[m]]
        /\ lastMsgs' = [m \in (DOMAIN lastMsgs) \cup {msg} |->
                          IF m = msg THEN Fresh ELSE lastMsgs[m]]
    BY <1>2 DEF log, Prints, Remembered
  <2>2. TableOK'
    BY <2>1, FreshEntry, Constants DEF TableOK
  <2>3. /\ Held(msg)' = 0 /\ Held(msg) = 0 /\ Elapsed(msg)' = 0 /\ Elapsed(msg) = Window
        /\ \A m \in Msgs : m # msg => Held(m)' = Held(m) /\ Elapsed(m)' = Elapsed(m)
    BY <1>2, <2>1, FreshEntry, Constants DEF Held, Elapsed
  <2>4. \A m \in Msgs : reported[m] \in Nat /\ Held(m) \in Nat
    BY HeldNat
  <2>5. \A m \in Msgs : reported'[m] + Held(m)'
                          = reported[m] + Held(m) + IF m = msg THEN 1 ELSE 0
    BY <2>1, <2>3, <2>4
  <2>6. QED
    BY <2>1, <2>2, <2>3, <2>4, <2>5
<1>3. QED
  BY <1>1, <1>2

LEMMA FlushAll ==
  ASSUME TableOK, forceFlush
  PROVE  /\ TableOK' /\ DOMAIN lastMsgs' = {}
         /\ \A m \in Msgs : reported'[m] = reported[m] + Held(m)
<1>1. /\ reported' = [m \in Msgs |-> reported[m] + IF m \in WithMore THEN Suppressed[m] ELSE 0]
      /\ since' = [m \in Msgs |-> IF m \in WithMore THEN 0 ELSE since[m]]
      /\ DOMAIN lastMsgs' = {}
  BY DEF forceFlush, Prints
<1>2. \A m \in Msgs : Held(m) = IF m \in WithMore THEN Suppressed[m] ELSE 0
  BY DEF WithMore, Suppressed, Held, TableOK, Entry
<1>3. \A m \in Msgs : reported[m] + Held(m) \in Nat
  BY HeldNat
<1>4. reported' \in [Msgs -> Nat] /\ since' \in [Msgs -> 0 .. Window]
  BY <1>1, <1>2, <1>3, Constants DEF TableOK
<1>5. QED
  BY <1>1, <1>2, <1>4 DEF TableOK

LEMMA FlushDue ==
  ASSUME TableOK, maybeFlush
  PROVE  /\ TableOK'
         /\ \A m \in Msgs : reported'[m] + Held(m)' = reported[m] + Held(m)
         /\ (\A m \in Msgs : since[m] = Elapsed(m)) =>
              \A m \in Msgs : /\ since'[m] = Elapsed(m)'
                              /\ reported'[m] # reported[m] => since[m] = Window
<1> DEFINE P == Due \cap WithMore
           D == (DOMAIN lastMsgs \ Due) \cup P
<1>1. /\ reported' = [m \in Msgs |-> reported[m] + IF m \in P THEN Suppressed[m] ELSE 0]
      /\ since' = [m \in Msgs |-> IF m \in P THEN 0 ELSE since[m]]
      /\ lastMsgs' = [m \in D |->
                        IF m \in P THEN Fresh
                        ELSE [n \in (DOMAIN lastMsgs) \ Due |-> lastMsgs[n]][m]]
  BY DEF maybeFlush, Prints, Remembered
<1>2. /\ P \subseteq DOMAIN lastMsgs /\ Due \subseteq DOMAIN lastMsgs
      /\ \A m \in P : /\ lastMsgs[m].left = 0
                      /\ Suppressed[m] = lastMsgs[m].suppressed
                      /\ lastMsgs[m].suppressed \in Nat
      /\ \A m \in Due \ P : lastMsgs[m].left = 0 /\ lastMsgs[m].suppressed = 0
  BY DEF Due, WithMore, Suppressed, TableOK, Entry
<1> HIDE DEF P
<1>3. /\ DOMAIN lastMsgs' = D
      /\ \A m \in P : m \in D /\ lastMsgs'[m] = Fresh
      /\ \A m \in (DOMAIN lastMsgs) \ Due : m \in D /\ (m \notin P => lastMsgs'[m] = lastMsgs[m])
  BY <1>1
<1>4. TableOK'
  <2>1. DOMAIN lastMsgs' \subseteq Msgs /\ \A m \in DOMAIN lastMsgs' : lastMsgs'[m] \in Entry
    BY <1>2, <1>3, FreshEntry DEF TableOK
  <2>2. reported' \in [Msgs -> Nat] /\ since' \in [Msgs -> 0 .. Window]
    BY <1>1, <1>2, Constants DEF TableOK
  <2>3. QED
    BY <2>1, <2>2 DEF TableOK
<1>5. ASSUME NEW m \in Msgs
      PROVE  /\ reported'[m] + Held(m)' = reported[m] + Held(m)
             /\ since[m] = Elapsed(m) => /\ since'[m] = Elapsed(m)'
                                         /\ reported'[m] # reported[m] => since[m] = Window
  <2>0. reported[m] \in Nat /\ Held(m) \in Nat /\ Window \in Nat
    BY HeldNat, Constants
  <2>1. CASE m \in P
    <3>1. /\ m \in DOMAIN lastMsgs /\ m \in DOMAIN lastMsgs' /\ lastMsgs'[m] = Fresh
          /\ lastMsgs[m].left = 0 /\ reported'[m] = reported[m] + lastMsgs[m].suppressed
          /\ since'[m] = 0
      BY <1>1, <1>2, <1>3, <2>1
    <3>2. /\ Held(m) = lastMsgs[m].suppressed /\ Held(m)' = 0
          /\ Elapsed(m) = Window /\ Elapsed(m)' = 0
      BY <2>0, <3>1, FreshEntry DEF Held, Elapsed
    <3>3. QED
      BY <2>0, <3>1, <3>2
  <2>2. CASE m \in Due \ P
    <3>1. /\ m \in DOMAIN lastMsgs /\ m \notin DOMAIN lastMsgs'
          /\ lastMsgs[m].left = 0 /\ lastMsgs[m].suppressed = 0
          /\ reported'[m] = reported[m] /\ since'[m] = since[m]
      BY <1>1, <1>2, <1>3, <2>0, <2>2
    <3>2. Held(m) = 0 /\ Held(m)' = 0 /\ Elapsed(m) = Window /\ Elapsed(m)' = Window
      BY <2>0, <3>1 DEF Held, Elapsed
    <3>3. QED
      BY <3>1, <3>2
  <2>3. CASE m \notin Due
    <3>1. /\ m \in DOMAIN lastMsgs <=> m \in DOMAIN lastMsgs'
          /\ m \in DOMAIN lastMsgs => lastMsgs'[m] = lastMsgs[m]
          /\ reported'[m] = reported[m] /\ since'[m] = since[m] /\ m \notin P
      BY <1>1, <1>2, <1>3, <2>0, <2>3 DEF P
    <3>2. Held(m)' = Held(m) /\ Elapsed(m)' = Elapsed(m)
      BY <3>1 DEF Held, Elapsed
    <3>3. QED
      BY <3>1, <3>2
  <2>4. QED
    BY <2>1, <2>2, <2>3
<1>6. QED
  BY <1>4, <1>5

LEMMA TimePasses ==
  ASSUME TableOK, Clock
  PROVE  /\ TableOK' /\ DOMAIN lastMsgs' = DOMAIN lastMsgs
         /\ reported' = reported /\ \A m \in Msgs : Held(m)' = Held(m)
         /\ (\A m \in Msgs : since[m] = Elapsed(m)) =>
              \A m \in Msgs : since'[m] = Elapsed(m)'
<1> DEFINE e(m) == [lastMsgs[m] EXCEPT !.left = IF @ = 0 THEN 0 ELSE @ - 1]
<1>1. /\ lastMsgs' = [m \in DOMAIN lastMsgs |-> e(m)] /\ reported' = reported
      /\ since' = [m \in Msgs |-> IF since[m] = Window THEN Window ELSE since[m] + 1]
  BY DEF Clock
<1>2. ASSUME NEW m \in DOMAIN lastMsgs
      PROVE  /\ e(m) \in Entry /\ e(m).suppressed = lastMsgs[m].suppressed
             /\ lastMsgs[m].left \in 0 .. Window
             /\ e(m).left = IF lastMsgs[m].left = 0 THEN 0 ELSE lastMsgs[m].left - 1
  BY Constants DEF TableOK, Entry
<1> HIDE DEF e
<1>3. DOMAIN lastMsgs' = DOMAIN lastMsgs /\ \A m \in DOMAIN lastMsgs : lastMsgs'[m] = e(m)
  BY <1>1
<1>4. TableOK'
  BY <1>1, <1>2, <1>3, Constants DEF TableOK
<1>5. \A m \in Msgs : Held(m)' = Held(m)
  BY <1>2, <1>3 DEF Held
<1>6. ASSUME NEW m \in Msgs, since[m] = Elapsed(m) PROVE since'[m] = Elapsed(m)'
  <2>1. since'[m] = IF since[m] = Window THEN Window ELSE since[m] + 1
    BY <1>1
  <2>2. CASE m \in DOMAIN lastMsgs
    <3>1. since[m] = Window - lastMsgs[m].left /\ Elapsed(m)' = Window - e(m).left
      BY <1>3, <1>6, <2>2 DEF Elapsed
    <3>2. QED
      BY <1>2, <2>1, <2>2, <3>1, Constants
  <2>3. CASE m \notin DOMAIN lastMsgs
    BY <1>3, <1>6, <2>1, <2>3 DEF Elapsed
  <2>4. QED
    BY <2>2, <2>3
<1>7. QED
  BY <1>1, <1>3, <1>4, <1>5, <1>6

-----------------------------------------------------------------------------
(***************************************************************************)
(* The invariants.  A close command is in the channel or has ended serve's *)
(* loop exactly when the channel has accepted one; a loop that has ended   *)
(* leaves no entry; while it runs an entry tells the time since its line.  *)
(***************************************************************************)
TypeInv == TypeOK /\ TableOK

ControlInv ==
  /\ closing <=> pc # "select" \/ HasClose(cmdCh)
  /\ pc # "select" => DOMAIN lastMsgs = {}
  /\ done <=> pc = "ended"

ElapsedInv == pc = "select" => \A m \in Msgs : since[m] = Elapsed(m)

Inv == TypeInv /\ ControlInv /\ ElapsedInv

LEMMA InvInit == Init => Inv
<1> SUFFICES ASSUME Init PROVE Inv
  OBVIOUS
<1>1. DOMAIN lastMsgs = {} /\ cmdCh = <<>> /\ pc = "select" /\ ~closing /\ ~done
  BY DEF Init
<1>2. TableOK
  BY <1>1, Constants DEF Init, TableOK
<1>3. TypeOK
  <2>1. queueSize \in Nat /\ cmdCh \in Seq(Cmds) /\ Len(cmdCh) <= queueSize
    BY <1>1, DedupAssumption DEF Init
  <2>2. 0 \in 0 .. MaxCalls /\ Window \in 0 .. Window /\ 0 \in Nat
    BY Constants
  <2>3. /\ done \in BOOLEAN /\ closing \in BOOLEAN /\ pc \in {"select", "return", "ended"}
        /\ caller \in [Callers -> {"idle", "send", "close"}]
        /\ cmd \in [Callers -> Cmds]
    BY Constants DEF Init
  <2>4. /\ calls \in 0 .. MaxCalls /\ since \in [Msgs -> 0 .. Window]
        /\ reported \in [Msgs -> Nat] /\ early \in [Msgs -> Nat]
    BY <2>2 DEF Init
  <2>5. queueSize \in QueueSizes
    BY DEF Init
  <2>6. QED
    BY <1>1, <2>1, <2>3, <2>4, <2>5 DEF TypeOK
<1>4. ControlInv /\ ElapsedInv
  BY <1>1 DEF ControlInv, HasClose, ElapsedInv, Elapsed, Init
<1>5. QED
  BY <1>2, <1>3, <1>4 DEF Inv, TypeInv

(* What a command does to the table and to serve.                          *)
LEMMA HandleCommand ==
  ASSUME Inv, NEW c \in Cmds, Handle(c), pc = "select"
  PROVE  /\ TableOK' /\ pc' \in {"select", "return"}
         /\ pc' = "return" <=> c = dedupCmdClose
         /\ pc' = "return" => DOMAIN lastMsgs' = {}
         /\ ElapsedInv'
         /\ pc' = "select" =>
              \A m \in Msgs : reported'[m] # reported[m] => since[m] = Window
         /\ \A m \in Msgs : reported'[m] + Held(m)'
                              = reported[m] + Held(m) + IF m = c THEN 1 ELSE 0
<1>0. TableOK /\ \A m \in Msgs : since[m] = Elapsed(m)
  BY DEF Inv, TypeInv, ElapsedInv
<1>1. CASE c = dedupCmdClose
  <2>1. forceFlush /\ pc' = "return"
    BY <1>1, Constants DEF Handle
  <2>2. /\ TableOK' /\ DOMAIN lastMsgs' = {}
        /\ \A m \in Msgs : reported'[m] = reported[m] + Held(m)
    BY <1>0, <2>1, FlushAll
  <2>3. \A m \in Msgs : Held(m)' = 0 /\ m # c
    BY <1>1, <2>2, Constants DEF Held
  <2>4. \A m \in Msgs : reported[m] \in Nat /\ Held(m) \in Nat
    BY <1>0, HeldNat
  <2>5. QED
    BY <1>1, <2>1, <2>2, <2>3, <2>4 DEF ElapsedInv
<1>2. CASE c # dedupCmdClose
  <2>1. c \in Msgs /\ log(c) /\ pc' = "select"
    BY <1>2, Constants DEF Handle
  <2>2. QED
    BY <1>0, <1>2, <2>1, LogMessage DEF ElapsedInv
<1>3. QED
  BY <1>1, <1>2

LEMMA InvNext == Inv /\ [Next]_vars => Inv'
<1> SUFFICES ASSUME Inv, [Next]_vars PROVE Inv'
  OBVIOUS
<1> USE DEF serveVars, callVars, history
<1>0. /\ TypeOK /\ TableOK /\ ControlInv /\ ElapsedInv
      /\ cmdCh \in Seq(Cmds) /\ queueSize \in Nat
  BY DedupAssumption DEF Inv, TypeInv, TypeOK
<1>1. ASSUME UNCHANGED <<pc, lastMsgs, since, reported>>
      PROVE  TableOK' /\ ElapsedInv'
  BY <1>0, <1>1 DEF TableOK, ElapsedInv, Elapsed
<1>2. ASSUME NEW c \in Callers, CallClose(c) \/ SendAfterDone(c) \/ CloseReturns(c)
      PROVE  Inv'
  <2>1. TypeOK'
    BY <1>0, <1>2, Constants DEF CallClose, SendAfterDone, CloseReturns, Sent, TypeOK
  <2>2. ControlInv'
    BY <1>0, <1>2 DEF CallClose, SendAfterDone, CloseReturns, ControlInv
  <2>3. QED
    BY <1>1, <1>2, <2>1, <2>2 DEF CallClose, SendAfterDone, CloseReturns, Inv, TypeInv
<1>3. ASSUME NEW c \in Callers, NEW m \in Msgs, CallPrintf(c, m) PROVE Inv'
  <2>1. TypeOK'
    BY <1>0, <1>3, Constants DEF CallPrintf, TypeOK
  <2>2. ControlInv'
    BY <1>0, <1>3 DEF CallPrintf, ControlInv
  <2>3. QED
    BY <1>1, <1>3, <2>1, <2>2 DEF CallPrintf, Inv, TypeInv
<1>4. ASSUME NEW c \in Callers, Accepted(cmd[c]), Sent(c)
      PROVE  /\ caller' \in [Callers -> {"idle", "send", "close"}] /\ cmd[c] \in Cmds
             /\ closing' \in BOOLEAN /\ early' \in [Msgs -> Nat]
             /\ closing' <=> closing \/ cmd[c] = dedupCmdClose
  <2>1. /\ caller \in [Callers -> {"idle", "send", "close"}] /\ cmd[c] \in Cmds
        /\ closing \in BOOLEAN /\ early \in [Msgs -> Nat]
    BY <1>0 DEF TypeOK
  <2>2. caller' \in [Callers -> {"idle", "send", "close"}]
    BY <1>4, <2>1 DEF Sent
  <2>3. closing' = (closing \/ cmd[c] = dedupCmdClose)
    BY <1>4 DEF Accepted
  <2>4. early' \in [Msgs -> Nat]
    BY <1>4, <2>1 DEF Accepted
  <2>5. QED
    BY <2>1, <2>2, <2>3, <2>4
<1>5. ASSUME NEW c \in Callers, Send(c) PROVE Inv'
  <2>1. /\ cmdCh' = Append(cmdCh, cmd[c]) /\ Len(cmdCh) < queueSize
        /\ Accepted(cmd[c]) /\ Sent(c)
        /\ UNCHANGED <<queueSize, done, serveVars, cmd, calls>>
    BY <1>5 DEF Send
  <2>2. cmd[c] \in Cmds
    BY <1>4, <2>1
  <2>3. cmdCh' \in Seq(Cmds) /\ Len(cmdCh') <= queueSize
    BY <1>0, <2>1, <2>2
  <2>4. TypeOK'
    BY <1>0, <1>4, <2>1, <2>3 DEF TypeOK
  <2>5. ControlInv'
    <3>1. HasClose(Append(cmdCh, cmd[c])) <=> HasClose(cmdCh) \/ cmd[c] = dedupCmdClose
      BY <1>0, <2>2, CloseAppend
    <3>2. HasClose(cmdCh)' <=> HasClose(cmdCh) \/ cmd[c] = dedupCmdClose
      BY <2>1, <3>1 DEF HasClose
    <3>3. closing' <=> closing \/ cmd[c] = dedupCmdClose
      BY <1>4, <2>1
    <3>4. QED
      BY <1>0, <2>1, <3>2, <3>3 DEF ControlInv
  <2>6. QED
    BY <1>1, <2>1, <2>4, <2>5 DEF Inv, TypeInv
<1>6. ASSUME NEW c \in Callers, ReceiveFromSender(c) PROVE Inv'
  <2>1. /\ pc = "select" /\ queueSize = 0 /\ Accepted(cmd[c]) /\ Sent(c) /\ Handle(cmd[c])
        /\ UNCHANGED <<queueSize, cmdCh, done, cmd, calls>>
    BY <1>6 DEF ReceiveFromSender
  <2>2. /\ cmd[c] \in Cmds /\ caller' \in [Callers -> {"idle", "send", "close"}]
        /\ closing' \in BOOLEAN /\ early' \in [Msgs -> Nat]
        /\ closing' <=> closing \/ cmd[c] = dedupCmdClose
    BY <1>4, <2>1
  <2>3. /\ TableOK' /\ pc' \in {"select", "return"} /\ ElapsedInv'
        /\ pc' = "return" <=> cmd[c] = dedupCmdClose
        /\ pc' = "return" => DOMAIN lastMsgs' = {}
    BY <2>1, <2>2, HandleCommand
  <2>4. TypeOK'
    BY <1>0, <2>1, <2>2, <2>3 DEF TypeOK, TableOK, Entry
  <2>5. HasClose(cmdCh)' <=> HasClose(cmdCh)
    BY <2>1 DEF HasClose
  <2>6. ControlInv'
    BY <1>0, <2>1, <2>2, <2>3, <2>5 DEF ControlInv
  <2>7. QED
    BY <2>3, <2>4, <2>6 DEF Inv, TypeInv
<1>7. CASE ReceiveBuffered
  <2> DEFINE c == Head(cmdCh)
  <2>1. /\ pc = "select" /\ cmdCh # <<>> /\ cmdCh' = Tail(cmdCh) /\ Handle(c)
        /\ UNCHANGED <<queueSize, done, callVars, history>>
    BY <1>7 DEF ReceiveBuffered
  <2>2. /\ c \in Cmds /\ Tail(cmdCh) \in Seq(Cmds) /\ Len(Tail(cmdCh)) <= queueSize
    BY <1>0, <2>1 DEF TypeOK
  <2>3. /\ TableOK' /\ pc' \in {"select", "return"} /\ ElapsedInv'
        /\ pc' = "return" <=> c = dedupCmdClose
        /\ pc' = "return" => DOMAIN lastMsgs' = {}
    BY <2>1, <2>2, HandleCommand
  <2>4. TypeOK'
    BY <1>0, <2>1, <2>2, <2>3 DEF TypeOK, TableOK, Entry
  <2>5. ControlInv'
    <3>1. CASE c = dedupCmdClose
      <4>1. closing
        <5>1. 1 \in DOMAIN cmdCh /\ cmdCh[1] = dedupCmdClose
          BY <1>0, <2>1, <3>1
        <5>2. QED
          BY <1>0, <5>1 DEF ControlInv, HasClose
      <4>2. QED
        BY <1>0, <2>1, <2>3, <3>1, <4>1 DEF ControlInv
    <3>2. CASE c # dedupCmdClose
      <4>1. HasClose(Tail(cmdCh)) <=> HasClose(cmdCh)
        BY <1>0, <2>1, <3>2, CloseTail
      <4>2. HasClose(cmdCh)' <=> HasClose(cmdCh)
        BY <2>1, <4>1 DEF HasClose
      <4>3. QED
        BY <1>0, <2>1, <2>3, <3>2, <4>2 DEF ControlInv
    <3>3. QED
      BY <3>1, <3>2
  <2>6. QED
    BY <2>3, <2>4, <2>5 DEF Inv, TypeInv
<1>8. CASE ReceiveTick
  <2>1. /\ pc = "select" /\ maybeFlush
        /\ UNCHANGED <<queueSize, cmdCh, done, pc, callVars, history>>
    BY <1>8 DEF ReceiveTick
  <2>2. /\ TableOK' /\ ElapsedInv'
    BY <1>0, <2>1, FlushDue DEF ElapsedInv
  <2>3. TypeOK'
    BY <1>0, <2>1, <2>2 DEF TypeOK, TableOK, Entry
  <2>4. QED
    BY <1>0, <2>1, <2>2, <2>3 DEF Inv, TypeInv, ControlInv, HasClose
<1>9. CASE CloseDone
  <2>1. /\ pc = "return" /\ done' = TRUE /\ pc' = "ended"
        /\ UNCHANGED <<queueSize, cmdCh, lastMsgs, since, reported, callVars, history>>
    BY <1>9 DEF CloseDone
  <2>2. TypeOK' /\ TableOK'
    BY <1>0, <2>1 DEF TypeOK, TableOK
  <2>3. ControlInv' /\ ElapsedInv'
    BY <1>0, <2>1 DEF ControlInv, ElapsedInv
  <2>4. QED
    BY <2>2, <2>3 DEF Inv, TypeInv
<1>10. CASE Clock
  <2>1. UNCHANGED <<queueSize, cmdCh, done, pc, reported, callVars, history>>
    BY <1>10 DEF Clock
  <2>2. /\ TableOK' /\ DOMAIN lastMsgs' = DOMAIN lastMsgs
        /\ (\A m \in Msgs : since[m] = Elapsed(m)) => \A m \in Msgs : since'[m] = Elapsed(m)'
    BY <1>0, <1>10, TimePasses
  <2>3. TypeOK'
    BY <1>0, <2>1, <2>2 DEF TypeOK, TableOK, Entry
  <2>4. ControlInv' /\ ElapsedInv'
    BY <1>0, <2>1, <2>2 DEF ControlInv, ElapsedInv, HasClose
  <2>5. QED
    BY <2>2, <2>3, <2>4 DEF Inv, TypeInv
<1>11. CASE UNCHANGED vars
  <2>1. TypeOK' /\ ControlInv'
    BY <1>0, <1>11 DEF vars, TypeOK, ControlInv, HasClose
  <2>2. QED
    BY <1>1, <1>11, <2>1 DEF vars, Inv, TypeInv
<1>12. QED
  BY <1>2, <1>3, <1>5, <1>6, <1>7, <1>8, <1>9, <1>10, <1>11 DEF Next

LEMMA InvAlways == Spec => []Inv
BY InvInit, InvNext, PTL DEF Spec

(* The logger keeps its types: the queue is within its capacity, and only  *)
(* messages have entries.                                                  *)
THEOREM Typing == Spec => []TypeOK
<1>1. Inv => TypeOK
  BY DEF Inv, TypeInv
<1>2. QED
  BY <1>1, InvAlways, PTL

(* Two lines with one message are a window apart, except at the close.     *)
THEOREM WindowBetweenLines == Spec => OneLinePerWindow
<1> DEFINE A == \A m \in Msgs :
                  reported'[m] # reported[m] /\ pc' = "select" => since[m] = Window
<1>1. Inv /\ [Next]_vars => [A]_vars
  <2> SUFFICES ASSUME Inv, [Next]_vars, NEW m \in Msgs,
                      reported'[m] # reported[m], pc' = "select"
               PROVE  since[m] = Window
    OBVIOUS
  <2> USE DEF serveVars, callVars, history
  <2>0. /\ TypeOK /\ TableOK /\ (pc = "select" => \A n \in Msgs : since[n] = Elapsed(n))
    BY DEF Inv, TypeInv, ElapsedInv
  <2>1. ASSUME NEW c \in Callers, ReceiveFromSender(c) PROVE since[m] = Window
    <3>1. Handle(cmd[c]) /\ pc = "select" /\ cmd[c] \in Cmds
      BY <2>0, <2>1 DEF ReceiveFromSender, TypeOK
    <3>2. QED
      BY <3>1, HandleCommand
  <2>2. CASE ReceiveBuffered
    <3>1. Handle(Head(cmdCh)) /\ pc = "select" /\ Head(cmdCh) \in Cmds
      BY <2>0, <2>2 DEF ReceiveBuffered, TypeOK
    <3>2. QED
      BY <3>1, HandleCommand
  <2>3. CASE ReceiveTick
    BY <2>0, <2>3, FlushDue DEF ReceiveTick
  <2>4. reported' # reported
    OBVIOUS
  <2>5. \/ \E c \in Callers : ReceiveFromSender(c)
        \/ ReceiveBuffered \/ ReceiveTick
    BY <2>4 DEF Next, CallPrintf, CallClose, Send, SendAfterDone, CloseReturns,
                CloseDone, Clock, vars
  <2>6. QED
    BY <2>1, <2>2, <2>3, <2>5
<1>2. QED
  BY <1>1, InvAlways, PTL DEF Spec, OneLinePerWindow

-----------------------------------------------------------------------------
(***************************************************************************)
(* Messages: what the channel accepted ahead of a close command is printed *)
(* or waits, in the channel or in an entry.                                *)
(***************************************************************************)
InChannel(m) == IF pc = "select" THEN Cardinality(Ahead(cmdCh, m)) ELSE 0

AccountInv == \A m \in Msgs : early[m] = reported[m] + InChannel(m) + Held(m)

LEMMA WaitingInChannel == \A m \in Msgs : Waiting(m) = InChannel(m)
<1> TAKE m \in Msgs
<1> DEFINE W == {i \in DOMAIN cmdCh : /\ pc = "select"
                                      /\ cmdCh[i] = m
                                      /\ \A j \in 1 .. i : cmdCh[j] # dedupCmdClose}
<1>1. W = IF pc = "select" THEN Ahead(cmdCh, m) ELSE {}
  BY DEF Ahead
<1>2. Waiting(m) = Cardinality(W)
  BY DEF Waiting
<1>3. QED
  BY <1>1, <1>2, FS_EmptySet DEF InChannel

LEMMA AccountInit == Init => AccountInv
<1> SUFFICES ASSUME Init, NEW m \in Msgs PROVE early[m] = reported[m] + InChannel(m) + Held(m)
  BY DEF AccountInv
<1>1. Cardinality(Ahead(<<>>, m)) = 0
  <2>1. <<>> \in Seq(Cmds)
    OBVIOUS
  <2>2. QED
    BY <2>1, AheadOfHead
<1>2. early[m] = 0 /\ reported[m] = 0 /\ InChannel(m) = 0 /\ Held(m) = 0
  BY <1>1 DEF Init, InChannel, Held
<1>3. QED
  BY <1>2

LEMMA AccountNext == Inv /\ AccountInv /\ [Next]_vars => AccountInv'
<1> SUFFICES ASSUME Inv, AccountInv, [Next]_vars PROVE AccountInv'
  OBVIOUS
<1> USE DEF serveVars, callVars, history
<1>0. /\ TypeOK /\ TableOK /\ ControlInv /\ cmdCh \in Seq(Cmds)
      /\ cmd \in [Callers -> Cmds] /\ early \in [Msgs -> Nat]
  BY DEF Inv, TypeInv, TypeOK
<1>1. \A m \in Msgs : /\ early[m] \in Nat /\ reported[m] \in Nat /\ Held(m) \in Nat
                      /\ InChannel(m) \in Nat
                      /\ early[m] = reported[m] + InChannel(m) + Held(m)
  BY <1>0, HeldNat, AheadFinite DEF InChannel, AccountInv
<1>2. ASSUME UNCHANGED <<pc, lastMsgs, reported, cmdCh, early>> PROVE AccountInv'
  BY <1>1, <1>2 DEF AccountInv, InChannel, Held
<1>3. ASSUME NEW c \in Callers, Send(c) PROVE AccountInv'
  <2>1. /\ cmdCh' = Append(cmdCh, cmd[c]) /\ cmd[c] \in Cmds
        /\ early' = [m \in Msgs |-> early[m] + IF ~closing /\ m = cmd[c] THEN 1 ELSE 0]
        /\ UNCHANGED <<pc, lastMsgs, reported>>
    BY <1>0, <1>3 DEF Send, Accepted
  <2>2. ASSUME NEW m \in Msgs
        PROVE  InChannel(m)' = InChannel(m) + IF ~closing /\ m = cmd[c] THEN 1 ELSE 0
    <3>1. CASE pc = "select"
      <4>1. closing <=> HasClose(cmdCh)
        BY <1>0, <3>1 DEF ControlInv
      <4>2. Cardinality(Ahead(Append(cmdCh, cmd[c]), m))
              = Cardinality(Ahead(cmdCh, m)) + IF m = cmd[c] /\ ~HasClose(cmdCh) THEN 1 ELSE 0
        BY <1>0, <2>1, AheadAppend
      <4>3. QED
        BY <2>1, <3>1, <4>1, <4>2 DEF InChannel
    <3>2. CASE pc # "select"
      BY <1>0, <2>1, <3>2 DEF InChannel, ControlInv
    <3>3. QED
      BY <3>1, <3>2
  <2>3. \A m \in Msgs : Held(m)' = Held(m) /\ reported'[m] = reported[m]
    BY <2>1 DEF Held
  <2>4. \A m \in Msgs : early'[m] = early[m] + IF ~closing /\ m = cmd[c] THEN 1 ELSE 0
    BY <2>1
  <2>5. ASSUME NEW m \in Msgs PROVE early'[m] = reported'[m] + InChannel(m)' + Held(m)'
    BY <1>1, <2>2, <2>3, <2>4
  <2>6. QED
    BY <2>5 DEF AccountInv
<1>4. ASSUME NEW c \in Callers, ReceiveFromSender(c) PROVE AccountInv'
  <2>1. /\ pc = "select" /\ queueSize = 0 /\ cmd[c] \in Cmds /\ Handle(cmd[c])
        /\ early' = [m \in Msgs |-> early[m] + IF ~closing /\ m = cmd[c] THEN 1 ELSE 0]
        /\ cmdCh' = cmdCh
    BY <1>0, <1>4 DEF ReceiveFromSender, Accepted
  <2>2. cmdCh = <<>>
    BY <1>0, <2>1 DEF TypeOK
  <2>3. ~closing
    BY <1>0, <2>1, <2>2 DEF ControlInv, HasClose
  <2>4. \A m \in Msgs : InChannel(m) = 0 /\ InChannel(m)' = 0
    <3>1. \A m \in Msgs : Cardinality(Ahead(cmdCh, m)) = 0
      BY <1>0, <2>2, AheadOfHead
    <3>2. \A m \in Msgs : Cardinality(Ahead(cmdCh, m))' = 0
      BY <2>1, <3>1
    <3>3. QED
      BY <3>1, <3>2 DEF InChannel
  <2>5. \A m \in Msgs : reported'[m] + Held(m)'
                          = reported[m] + Held(m) + IF m = cmd[c] THEN 1 ELSE 0
    BY <2>1, HandleCommand
  <2>6. \A m \in Msgs : reported'[m] \in Nat /\ Held(m)' \in Nat
    <3>1. TableOK'
      BY <2>1, HandleCommand
    <3>2. QED
      BY <3>1 DEF TableOK, Held, Entry
  <2>7. ASSUME NEW m \in Msgs PROVE early'[m] = reported'[m] + InChannel(m)' + Held(m)'
    <3>1. early'[m] = early[m] + IF m = cmd[c] THEN 1 ELSE 0
      BY <2>1, <2>3
    <3>2. QED
      BY <1>1, <2>4, <2>5, <2>6, <3>1
  <2>8. QED
    BY <2>7 DEF AccountInv
<1>5. CASE ReceiveBuffered
  <2> DEFINE c == Head(cmdCh)
  <2>1. /\ pc = "select" /\ cmdCh # <<>> /\ cmdCh' = Tail(cmdCh) /\ Handle(c) /\ c \in Cmds
        /\ early' = early
    BY <1>0, <1>5 DEF ReceiveBuffered
  <2>2. /\ TableOK' /\ pc' \in {"select", "return"}
        /\ pc' = "return" <=> c = dedupCmdClose
        /\ \A m \in Msgs : reported'[m] + Held(m)'
                             = reported[m] + Held(m) + IF m = c THEN 1 ELSE 0
    BY <2>1, HandleCommand
  <2>3. ASSUME NEW m \in Msgs PROVE InChannel(m) = InChannel(m)' + IF m = c THEN 1 ELSE 0
    <3>1. CASE c = dedupCmdClose
      <4>1. Cardinality(Ahead(cmdCh, m)) = 0
        BY <1>0, <3>1, AheadOfHead
      <4>2. m # c /\ pc' # "select"
        BY <2>2, <3>1, Constants
      <4>3. QED
        BY <2>1, <4>1, <4>2 DEF InChannel
    <3>2. CASE c # dedupCmdClose
      <4>1. Cardinality(Ahead(cmdCh, m))
              = Cardinality(Ahead(Tail(cmdCh), m)) + IF m = c THEN 1 ELSE 0
        BY <1>0, <2>1, <3>2, AheadTail
      <4>2. pc' = "select"
        BY <2>2, <3>2
      <4>3. QED
        BY <2>1, <4>1, <4>2 DEF InChannel
    <3>3. QED
      BY <3>1, <3>2
  <2>4. \A m \in Msgs : reported'[m] \in Nat /\ Held(m)' \in Nat /\ InChannel(m)' \in Nat
    <3>1. Tail(cmdCh) \in Seq(Cmds)
      BY <1>0, <2>1
    <3>2. \A m \in Msgs : InChannel(m)' \in Nat
      BY <2>1, <3>1, AheadFinite DEF InChannel
    <3>3. QED
      BY <2>2, <3>2 DEF TableOK, Held, Entry
  <2> HIDE DEF c
  <2>5. ASSUME NEW m \in Msgs PROVE early'[m] = reported'[m] + InChannel(m)' + Held(m)'
    <3>1. /\ early'[m] = early[m]
          /\ early[m] \in Nat /\ reported[m] \in Nat /\ Held(m) \in Nat
          /\ InChannel(m) \in Nat /\ early[m] = reported[m] + InChannel(m) + Held(m)
      BY <1>1, <2>1
    <3>2. reported'[m] \in Nat /\ Held(m)' \in Nat /\ InChannel(m)' \in Nat
      BY <2>4
    <3>3. CASE m = c
      <4>1. /\ InChannel(m) = InChannel(m)' + 1
            /\ reported'[m] + Held(m)' = reported[m] + Held(m) + 1
        BY <2>2, <2>3, <3>3
      <4>2. QED
        BY <3>1, <3>2, <4>1
    <3>4. CASE m # c
      <4>1. /\ InChannel(m) = InChannel(m)' + 0
            /\ reported'[m] + Held(m)' = reported[m] + Held(m) + 0
        BY <2>2, <2>3, <3>4
      <4>2. QED
        BY <3>1, <3>2, <4>1
    <3>5. QED
      BY <3>3, <3>4
  <2>6. QED
    BY <2>5 DEF AccountInv
<1>6. CASE ReceiveTick
  <2>1. maybeFlush /\ UNCHANGED <<cmdCh, pc, early>>
    BY <1>6 DEF ReceiveTick
  <2>2. TableOK' /\ \A m \in Msgs : reported'[m] + Held(m)' = reported[m] + Held(m)
    BY <1>0, <2>1, FlushDue
  <2>3. \A m \in Msgs : reported'[m] \in Nat /\ Held(m)' \in Nat /\ InChannel(m)' = InChannel(m)
    BY <2>1, <2>2 DEF TableOK, Held, Entry, InChannel
  <2>4. ASSUME NEW m \in Msgs PROVE early'[m] = reported'[m] + InChannel(m)' + Held(m)'
    BY <1>1, <2>1, <2>2, <2>3
  <2>5. QED
    BY <2>4 DEF AccountInv
<1>7. CASE Clock
  <2>1. UNCHANGED <<cmdCh, pc, early, reported>> /\ \A m \in Msgs : Held(m)' = Held(m)
    BY <1>0, <1>7, TimePasses DEF Clock
  <2>2. QED
    BY <1>1, <2>1 DEF AccountInv, InChannel
<1>8. CASE CloseDone
  <2>1. UNCHANGED <<cmdCh, early, reported, lastMsgs>> /\ pc = "return" /\ pc' = "ended"
    BY <1>8 DEF CloseDone
  <2>2. QED
    BY <1>1, <2>1 DEF AccountInv, InChannel, Held
<1>9. ASSUME NEW c \in Callers, CallClose(c) \/ SendAfterDone(c) \/ CloseReturns(c)
      PROVE  AccountInv'
  BY <1>2, <1>9 DEF CallClose, SendAfterDone, CloseReturns
<1>10. ASSUME NEW c \in Callers, NEW m \in Msgs, CallPrintf(c, m) PROVE AccountInv'
  BY <1>2, <1>10 DEF CallPrintf
<1>11. CASE UNCHANGED vars
  BY <1>2, <1>11 DEF vars
<1>12. QED
  BY <1>3, <1>4, <1>5, <1>6, <1>7, <1>8, <1>9, <1>10, <1>11 DEF Next

LEMMA AllPrinted == ASSUME Inv, AccountInv, done PROVE reported = early
<1>1. /\ pc # "select" /\ DOMAIN lastMsgs = {}
      /\ reported \in [Msgs -> Nat] /\ early \in [Msgs -> Nat]
  BY DEF Inv, TypeInv, TypeOK, ControlInv
<1>2. \A m \in Msgs : early[m] = reported[m]
  BY <1>1 DEF AccountInv, InChannel, Held
<1>3. QED
  BY <1>1, <1>2

(* No message accepted ahead of a close is lost or counted twice, and none *)
(* waits any more when done is closed.                                     *)
THEOREM NoMessageLost == Spec => []MessagesAccounted
<1>1. ASSUME Inv, AccountInv PROVE MessagesAccounted
  <2>1. \A m \in Msgs : early[m] = reported[m] + Waiting(m)
                          + IF m \in DOMAIN lastMsgs THEN lastMsgs[m].suppressed ELSE 0
    BY <1>1, WaitingInChannel DEF AccountInv, Held
  <2>2. done => reported = early
    BY <1>1, AllPrinted
  <2>3. QED
    BY <2>1, <2>2 DEF MessagesAccounted
<1>2. QED
  BY <1>1, InvAlways, AccountInit, AccountNext, PTL DEF Spec

-----------------------------------------------------------------------------
(***************************************************************************)
(* cmd/generator.  Generator's constants are those of Dedup, too: all that *)
(* the theorems above say of the logger, from DedupAssumption alone, holds *)
(* in the generator.                                                       *)
(***************************************************************************)
Fields == {"Ok", "Errors", "Hist", "Overflow"}

GenTypes ==
  /\ pausing \in BOOLEAN /\ cancelled \in BOOLEAN
  /\ source \in {"select", "closed"}
  /\ worker \in [Workers -> {"sleep", "select", "request", "pause", "send", "ended"}]
  /\ stat \in [Workers -> [Fields -> Nat]] /\ merged \in [Fields -> Nat]
  /\ finished \in Seq(Workers) /\ Len(finished) <= Cardinality(Workers)
  /\ main \in {"wait", "close", "report"}
  /\ received \in SUBSET Workers
  /\ requests \in 0 .. MaxCalls

(* Statistics travel once, and after their worker's last request.          *)
TravelInv ==
  /\ \A i, j \in DOMAIN finished : finished[i] = finished[j] => i = j
  /\ \A i \in DOMAIN finished : finished[i] \notin received /\ worker[finished[i]] = "ended"
  /\ \A w \in received : worker[w] = "ended"

(* Workers print the errors they count, and have printed them when they    *)
(* end; main closes the logger, waits for that, and nobody else does.      *)
CallInv ==
  /\ \A w \in Workers : /\ worker[w] = "ended" => caller[w] = "idle"
                        /\ caller[w] # "close"
                        /\ caller[w] = "send" => cmd[w] \in Msgs /\ stat[w]["Errors"] > 0
  /\ cmd[mainThread] = dedupCmdClose
  /\ main = "wait" => caller[mainThread] = "idle" /\ ~closing
  /\ main # "wait" /\ caller[mainThread] = "idle" => done
  /\ main = "report" => done

(* The f of every worker's statistics. *)
Each(f) == [w \in Workers |-> stat[w][f]]

InRequest == {w \in Workers : worker[w] = "request"}

CountInv ==
  /\ \A f \in Fields : merged[f] = SumFunctionOnSet(Each(f), received)
  /\ \A w \in Workers : stat[w]["Ok"] = stat[w]["Hist"] + stat[w]["Overflow"]
  /\ merged["Ok"] = merged["Hist"] + merged["Overflow"]
  /\ requests = SumFunctionOnSet(Each("Ok"), Workers) + SumFunctionOnSet(Each("Errors"), Workers)
                + Cardinality(InRequest)

(* The errors of a worker that the logger has accepted, unless it was told *)
(* to close before.                                                        *)
Handed == [w \in Workers |-> stat[w]["Errors"] - IF caller[w] = "send" THEN 1 ELSE 0]

HandedInv ==
  /\ ~closing => SumFunctionOnSet(early, Msgs) = SumFunctionOnSet(Handed, Workers)
  /\ merged["Errors"] <= SumFunctionOnSet(early, Msgs)

GenInv == GenTypes /\ TravelInv /\ CallInv /\ CountInv /\ HandedInv

(***************************************************************************)
(* The logger of the generator is Dedup.                                   *)
(***************************************************************************)
LEMMA GenConstants ==
  /\ DoneCap = Cardinality(Workers) /\ Cardinality(Workers) \in Nat
  /\ mainThread \in Callers /\ Workers \subseteq Callers
  /\ \A c \in Callers : c \in Workers <=> c # mainThread
BY FS_CardinalityType, GeneratorAssumption DEF DoneCap

LEMMA StatFields ==
  /\ Stat = [Fields -> Nat]
  /\ NewStat = [f \in Fields |-> 0]
<1>1. ASSUME NEW s \in [Fields -> Nat] PROVE s \in Stat
  BY DEF Fields, Stat
<1>2. ASSUME NEW s \in Stat PROVE s \in [Fields -> Nat]
  BY DEF Fields, Stat
<1>3. NewStat = [f \in Fields |-> 0]
  BY DEF Fields, NewStat
<1>4. QED
  BY <1>1, <1>2, <1>3

(* What the logger's variables may do in a step of the generator. *)
LEMMA LoggerInStep ==
  ASSUME [GenNext]_allVars
  PROVE  [Next]_vars
<1> USE DEF allVars, vars, serveVars, callVars, history
<1>1. CASE UNCHANGED allVars
  BY <1>1
<1>2. ASSUME NEW w \in Workers, RequestFails(w) PROVE [Next]_vars
  <2>1. PICK m \in Msgs : CallPrintf(w, m)
    BY <1>2 DEF RequestFails
  <2>2. w \in Callers /\ CallPrintf(w, m)
    BY <2>1, GenConstants
  <2>3. QED
    BY <2>2 DEF Next
<1>3. ASSUME NEW w \in Workers, TakeNum(w) \/ RequestSucceeds(w) \/ Proceed(w)
      PROVE  UNCHANGED vars
  BY <1>3 DEF TakeNum, RequestSucceeds, Proceed, SleepEnds, Leave, PauseEnds,
              Deliver
<1>4. CASE MainStep
  <2>1. UNCHANGED vars \/ CallClose(mainThread)
    BY <1>4 DEF MainStep, ReceiveStat, TimeOut, Report, WaitEnds
  <2>2. QED
    BY <2>1, GenConstants DEF Next
<1>5. CASE Cancel \/ SourceStops
  BY <1>5 DEF Cancel, SourceStops
<1>6. CASE LoggerStep
  <2>1. \/ \E c \in Callers : Send(c) \/ SendAfterDone(c) \/ CloseReturns(c)
        \/ ReceiveBuffered \/ ReceiveTick \/ CloseDone \/ Clock
    BY <1>6, GenConstants DEF LoggerStep
  <2>2. QED
    BY <2>1 DEF Next
<1>7. QED
  BY <1>1, <1>2, <1>3, <1>4, <1>5, <1>6 DEF GenNext

(* The generator uses the logger as the logger allows: Dedup's behaviours, *)
(* and so its properties, are those of the logger in the generator.        *)
THEOREM LoggerAsSpecified == GenSpec => Spec
<1>1. GenInit => Init
  BY DEF GenInit
<1>2. [GenNext]_allVars => [Next]_vars
  BY LoggerInStep
<1>3. QED
  BY <1>1, <1>2, PTL DEF GenSpec, Spec

(***************************************************************************)
(* Statistics and their sums.                                              *)
(***************************************************************************)
(* A part of the numbers is not more than all of them. *)
LEMMA SumWithin ==
  ASSUME NEW S, IsFiniteSet(S), NEW f, \A x \in S : f[x] \in Nat, NEW T \in SUBSET S
  PROVE  SumFunctionOnSet(f, T) <= SumFunctionOnSet(f, S)
<1> DEFINE R == S \ T
           F == {U \in SUBSET R : SumFunctionOnSet(f, T) <= SumFunctionOnSet(f, T \cup U)}
<1>0. IsFiniteSet(R) /\ T \cup R = S
  BY FS_Subset
<1>1. {} \in F
  <2>1. T \cup {} = T /\ IsFiniteSet(T)
    BY FS_Subset
  <2>2. SumFunctionOnSet(f, T) \in Nat
    BY <2>1, SumNat
  <2>3. QED
    BY <2>1, <2>2
<1>2. ASSUME NEW U \in F, NEW x \in R \ U PROVE U \cup {x} \in F
  <2> DEFINE V == T \cup U
  <2>1. V \in SUBSET S /\ x \notin V /\ x \in S /\ T \cup (U \cup {x}) = V \cup {x}
    OBVIOUS
  <2>2. SumFunctionOnSet(f, T) <= SumFunctionOnSet(f, V) /\ U \cup {x} \in SUBSET R
    OBVIOUS
  <2> HIDE DEF V, F, R
  <2>3. IsFiniteSet(V) /\ IsFiniteSet(T)
    BY <2>1, FS_Subset
  <2>4. \A y \in V \cup {x} : f[y] \in Int
    BY <2>1
  <2>5. SumFunctionOnSet(f, V \cup {x}) = SumFunctionOnSet(f, V) + f[x]
    BY <2>1, <2>3, <2>4, SumAdd
  <2>6. f[x] \in Nat /\ SumFunctionOnSet(f, V) \in Nat /\ SumFunctionOnSet(f, T) \in Nat
    BY <2>1, <2>3, SumNat
  <2>7. SumFunctionOnSet(f, T) <= SumFunctionOnSet(f, T \cup (U \cup {x}))
    <3>1. SumFunctionOnSet(f, T) <= SumFunctionOnSet(f, V \cup {x})
      BY <2>2, <2>5, <2>6
    <3>2. T \cup (U \cup {x}) = V \cup {x}
      BY <2>1
    <3>3. QED
      BY <3>1, <3>2, Zenon
  <2>8. QED
    BY <2>2, <2>7 DEF F
<1> HIDE DEF F
<1>3. F \in SUBSET (SUBSET R)
  BY DEF F
<1>4. R \in F
  BY <1>0, <1>1, <1>2, <1>3, SubsetInduction
<1>5. QED
  BY <1>0, <1>4 DEF F

LEMMA GenNumbers ==
  ASSUME GenTypes, TypeOK
  PROVE  /\ \A f \in Fields : \A w \in Workers : stat[w][f] \in Nat /\ Each(f)[w] = stat[w][f]
         /\ \A f \in Fields : SumFunctionOnSet(Each(f), Workers) \in Nat
         /\ \A f \in Fields : merged[f] \in Nat
         /\ \A m \in Msgs : early[m] \in Nat
         /\ SumFunctionOnSet(early, Msgs) \in Nat
         /\ IsFiniteSet(InRequest) /\ Cardinality(InRequest) \in Nat
         /\ \A w \in Workers : Handed[w] \in Int
         /\ {"Ok", "Errors", "Hist", "Overflow"} = Fields
<1>1. \A f \in Fields : \A w \in Workers : stat[w][f] \in Nat /\ Each(f)[w] = stat[w][f]
  BY DEF GenTypes, Each
<1>2. \A f \in Fields : SumFunctionOnSet(Each(f), Workers) \in Nat
  BY <1>1, SumNat, GeneratorAssumption
<1>3. \A m \in Msgs : early[m] \in Nat
  BY DEF TypeOK
<1>4. SumFunctionOnSet(early, Msgs) \in Nat
  BY <1>3, SumNat, GeneratorAssumption
<1>5. IsFiniteSet(InRequest) /\ Cardinality(InRequest) \in Nat
  <2>1. InRequest \in SUBSET Workers
    BY DEF InRequest
  <2>2. QED
    BY <2>1, SubsetsFinite, GeneratorAssumption
<1>6. \A w \in Workers : Handed[w] \in Int
  <2>1. \A w \in Workers : stat[w]["Errors"] \in Nat
    BY <1>1 DEF Fields
  <2>2. QED
    BY <2>1 DEF Handed
<1>7. \A f \in Fields : merged[f] \in Nat
  BY DEF GenTypes
<1>8. QED
  BY <1>1, <1>2, <1>3, <1>4, <1>5, <1>6, <1>7 DEF Fields

LEMMA GenInvInit == GenInit => GenInv
<1> SUFFICES ASSUME GenInit PROVE GenInv
  OBVIOUS
<1>1. Init
  BY DEF GenInit
<1>2. /\ worker = [w \in Workers |-> "sleep"] /\ stat = [w \in Workers |-> [f \in Fields |-> 0]]
      /\ finished = <<>> /\ main = "wait" /\ merged = [f \in Fields |-> 0]
      /\ received = {} /\ requests = 0
      /\ pausing \in BOOLEAN /\ cancelled = FALSE /\ source = "select"
  BY StatFields DEF GenInit
<1>3. GenTypes
  <2>1. Len(finished) = 0 /\ finished \in Seq(Workers)
    BY <1>2
  <2>2. stat \in [Workers -> [Fields -> Nat]] /\ merged \in [Fields -> Nat]
    BY <1>2
  <2>3. worker \in [Workers -> {"sleep", "select", "request", "pause", "send", "ended"}]
    BY <1>2
  <2>4. requests \in 0 .. MaxCalls /\ received \in SUBSET Workers
        /\ Len(finished) <= Cardinality(Workers)
    BY <1>2, <2>1, GenConstants, DedupAssumption
  <2>5. QED
    BY <1>2, <2>1, <2>2, <2>3, <2>4 DEF GenTypes
<1>4. TravelInv
  BY <1>2 DEF TravelInv
<1>5. CallInv
  BY <1>1, <1>2, GenConstants DEF CallInv, Init
<1>6. \A f \in Fields : SumFunctionOnSet(Each(f), Workers) = 0
  <2>1. \A f \in Fields : \A w \in Workers : Each(f)[w] = 0
    BY <1>2 DEF Each
  <2>2. QED
    BY <2>1, SumZero, GeneratorAssumption
<1>7. "Ok" \in Fields /\ "Errors" \in Fields /\ "Hist" \in Fields /\ "Overflow" \in Fields
  BY DEF Fields
<1>8. CountInv
  <2>1. InRequest = {}
    BY <1>2 DEF InRequest
  <2>2. Cardinality(InRequest) = 0
    BY <2>1, FS_EmptySet
  <2>3. \A f \in Fields : merged[f] = SumFunctionOnSet(Each(f), received)
    BY <1>2, SumEmpty
  <2>4. QED
    BY <1>2, <1>6, <1>7, <2>2, <2>3 DEF CountInv
<1>9. HandedInv
  <2>1. \A w \in Workers : Handed[w] = 0
    BY <1>1, <1>2, <1>7, GenConstants DEF Handed, Init
  <2>2. \A m \in Msgs : early[m] = 0
    BY <1>1 DEF Init
  <2>3. SumFunctionOnSet(Handed, Workers) = 0 /\ SumFunctionOnSet(early, Msgs) = 0
    BY <2>1, <2>2, SumZero, GeneratorAssumption
  <2>4. QED
    BY <1>2, <1>7, <2>3 DEF HandedInv
<1>10. QED
  BY <1>3, <1>4, <1>5, <1>8, <1>9 DEF GenInv

(***************************************************************************)
(* The steps of the generator keep the invariant.                          *)
(***************************************************************************)
LEMMA CountKept ==
  ASSUME GenInv, UNCHANGED <<stat, merged, received, requests>>, InRequest' = InRequest
  PROVE  CountInv'
<1>1. \A f \in Fields : Each(f)' = Each(f)
  BY DEF Each
<1>2. Each("Ok")' = Each("Ok") /\ Each("Errors")' = Each("Errors")
  BY DEF Each
<1>3. CountInv
  BY DEF GenInv
<1>4. QED
  BY <1>1, <1>2, <1>3 DEF CountInv

LEMMA HandedKept ==
  ASSUME GenInv, UNCHANGED <<merged, closing, early>>, Handed' = Handed
  PROVE  HandedInv'
BY DEF GenInv, HandedInv

LEMMA GenQuiet ==
  ASSUME GenInv, UNCHANGED <<workerVars, finished, mainVars, vars>>,
         pausing' \in BOOLEAN, cancelled' \in BOOLEAN, source' \in {"select", "closed"}
  PROVE  GenInv'
<1> USE DEF workerVars, mainVars, vars, serveVars, callVars, history
<1>1. GenTypes /\ TravelInv /\ CallInv
  BY DEF GenInv
<1>2. GenTypes'
  BY <1>1 DEF GenTypes
<1>3. TravelInv'
  BY <1>1 DEF TravelInv
<1>4. CallInv'
  BY <1>1 DEF CallInv
<1>5. CountInv'
  <2>1. InRequest' = InRequest
    BY DEF InRequest
  <2>2. QED
    BY <2>1, CountKept
<1>6. HandedInv'
  <2>1. Handed' = Handed
    BY DEF Handed
  <2>2. QED
    BY <2>1, HandedKept
<1>7. QED
  BY <1>2, <1>3, <1>4, <1>5, <1>6 DEF GenInv

(* A worker that is not in a request goes on to its select or its end. *)
LEMMA GenProceeds ==
  ASSUME GenInv, NEW w \in Workers, Proceed(w)
  PROVE  GenInv'
<1> USE DEF workerVars, mainVars, vars, serveVars, callVars, history, ctxVars
<1>0. GenTypes /\ TravelInv /\ CallInv
  BY DEF GenInv
<1>1. /\ caller[w] = "idle" /\ worker[w] \notin {"request", "ended"}
      /\ UNCHANGED <<pausing, cancelled, source, stat, requests, main, merged, received>>
      /\ UNCHANGED vars
      /\ \/ /\ \E to \in {"select", "send"} : worker' = [worker EXCEPT ![w] = to]
            /\ UNCHANGED finished
         \/ /\ worker' = [worker EXCEPT ![w] = "ended"]
            /\ finished' = Append(finished, w) /\ Len(finished) < DoneCap
  BY DEF Proceed, SleepEnds, Leave, PauseEnds, Deliver, At, Goes
<1>2. PICK to \in {"select", "send", "ended"} :
        /\ worker' = [worker EXCEPT ![w] = to]
        /\ \/ to # "ended" /\ UNCHANGED finished
           \/ /\ to = "ended" /\ finished' = Append(finished, w)
              /\ Len(finished) < Cardinality(Workers)
  BY <1>1, GenConstants
<1>3. /\ worker'[w] = to /\ \A v \in Workers : v # w => worker'[v] = worker[v]
      /\ worker' \in [Workers -> {"sleep", "select", "request", "pause", "send", "ended"}]
  BY <1>0, <1>2 DEF GenTypes
<1>4. /\ finished' \in Seq(Workers) /\ Len(finished') <= Cardinality(Workers)
      /\ \A i \in DOMAIN finished' :
           \/ i \in DOMAIN finished /\ finished'[i] = finished[i]
           \/ i = Len(finished) + 1 /\ finished'[i] = w /\ to = "ended"
  <2>1. finished \in Seq(Workers) /\ Len(finished) <= Cardinality(Workers)
    BY <1>0 DEF GenTypes
  <2>2. CASE UNCHANGED finished
    BY <2>1, <2>2
  <2>3. CASE to = "ended" /\ finished' = Append(finished, w) /\ Len(finished) < Cardinality(Workers)
    BY <2>1, <2>3, GenConstants
  <2>4. QED
    BY <1>2, <2>2, <2>3
<1>5. w \notin received /\ \A i \in DOMAIN finished : finished[i] # w /\ finished[i] \in Workers
  BY <1>0, <1>1 DEF TravelInv, GenTypes
<1>6. GenTypes'
  BY <1>0, <1>1, <1>3, <1>4 DEF GenTypes
<1>7. TravelInv'
  <2>1. \A i, j \in DOMAIN finished' : finished'[i] = finished'[j] => i = j
    BY <1>0, <1>4, <1>5 DEF TravelInv
  <2>2. \A i \in DOMAIN finished' : finished'[i] \notin received /\ worker'[finished'[i]] = "ended"
    BY <1>0, <1>3, <1>4, <1>5 DEF TravelInv
  <2>3. \A v \in received : worker'[v] = "ended"
    BY <1>0, <1>3, <1>5 DEF TravelInv, GenTypes
  <2>4. QED
    BY <1>1, <2>1, <2>2, <2>3 DEF TravelInv
<1>8. CallInv'
  BY <1>0, <1>1, <1>3 DEF CallInv
<1>9. CountInv'
  <2>1. InRequest' = InRequest
    BY <1>1, <1>2, <1>3 DEF InRequest
  <2>2. QED
    BY <1>1, <2>1, CountKept
<1>10. HandedInv'
  <2>1. Handed' = Handed
    BY <1>1 DEF Handed
  <2>2. QED
    BY <1>1, <2>1, HandedKept
<1>11. QED
  BY <1>6, <1>7, <1>8, <1>9, <1>10 DEF GenInv

LEMMA GenTakes ==
  ASSUME GenInv, TypeOK, NEW w \in Workers, TakeNum(w)
  PROVE  GenInv'
<1> USE DEF workerVars, mainVars, vars, serveVars, callVars, history, ctxVars
<1>0. GenTypes /\ TravelInv /\ CallInv /\ CountInv
  BY DEF GenInv
<1>1. /\ caller[w] = "idle" /\ worker[w] = "select"
      /\ worker' = [worker EXCEPT ![w] = "request"]
      /\ requests' = requests + 1 /\ requests < MaxCalls
      /\ UNCHANGED <<pausing, cancelled, source, stat, finished, main, merged, received>>
      /\ UNCHANGED vars
  BY DEF TakeNum, At, Goes
<1>2. /\ worker'[w] = "request" /\ \A v \in Workers : v # w => worker'[v] = worker[v]
      /\ worker' \in [Workers -> {"sleep", "select", "request", "pause", "send", "ended"}]
  BY <1>0, <1>1 DEF GenTypes
<1>3. w \notin received /\ \A i \in DOMAIN finished : finished[i] # w /\ finished[i] \in Workers
  BY <1>0, <1>1 DEF TravelInv, GenTypes
<1>4. GenTypes'
  BY <1>0, <1>1, <1>2, DedupAssumption DEF GenTypes
<1>5. TravelInv'
  <2>1. \A i \in DOMAIN finished : worker'[finished[i]] = "ended"
    BY <1>0, <1>2, <1>3 DEF TravelInv
  <2>2. \A v \in received : worker'[v] = "ended"
    BY <1>0, <1>2, <1>3 DEF TravelInv, GenTypes
  <2>3. QED
    BY <1>0, <1>1, <2>1, <2>2 DEF TravelInv
<1>6. CallInv'
  BY <1>0, <1>1, <1>2 DEF CallInv
<1>7. CountInv'
  <2>1. InRequest' = InRequest \cup {w} /\ w \notin InRequest
    BY <1>1, <1>2 DEF InRequest
  <2>2. Cardinality(InRequest') = Cardinality(InRequest) + 1
    BY <1>0, <2>1, GenNumbers, FS_AddElement
  <2>3. \A f \in Fields : Each(f)' = Each(f)
    BY <1>1 DEF Each
  <2>4. Each("Ok")' = Each("Ok") /\ Each("Errors")' = Each("Errors")
    BY <2>3, <1>0, GenNumbers
  <2>5. /\ SumFunctionOnSet(Each("Ok"), Workers) \in Nat
        /\ SumFunctionOnSet(Each("Errors"), Workers) \in Nat
        /\ Cardinality(InRequest) \in Nat
    BY <1>0, GenNumbers
  <2>6. requests' = SumFunctionOnSet(Each("Ok")', Workers) + SumFunctionOnSet(Each("Errors")', Workers)
                    + Cardinality(InRequest')
    BY <1>0, <1>1, <2>2, <2>4, <2>5 DEF CountInv
  <2>7. QED
    BY <1>0, <1>1, <2>3, <2>6 DEF CountInv
<1>8. HandedInv'
  <2>1. Handed' = Handed
    BY <1>1 DEF Handed
  <2>2. QED
    BY <1>1, <2>1, HandedKept
<1>9. QED
  BY <1>4, <1>5, <1>6, <1>7, <1>8 DEF GenInv

(* What the return of a request does to the counts, whichever field `g` it *)
(* adds to besides `f`.                                                    *)
LEMMA CountReturns ==
  ASSUME GenInv, TypeOK, NEW w \in Workers, NEW f \in {"Ok", "Errors"},
         worker[w] = "request", worker'[w] # "request",
         \A v \in Workers : v # w => worker'[v] = worker[v] /\ stat'[v] = stat[v],
         stat' \in [Workers -> [Fields -> Nat]],
         stat'[w]["Ok"] = stat[w]["Ok"] + IF f = "Ok" THEN 1 ELSE 0,
         stat'[w]["Errors"] = stat[w]["Errors"] + IF f = "Errors" THEN 1 ELSE 0,
         stat'[w]["Ok"] = stat'[w]["Hist"] + stat'[w]["Overflow"],
         UNCHANGED <<merged, received, requests>>
  PROVE  CountInv'
<1>0. GenTypes /\ TravelInv /\ CountInv
  BY DEF GenInv
<1>1. w \notin received /\ received \in SUBSET Workers
  BY <1>0 DEF TravelInv, GenTypes
<1>2. \A g \in Fields : \A v \in Workers : Each(g)'[v] = stat'[v][g] /\ stat'[v][g] \in Nat
  BY DEF Each
<1>3. \A g \in Fields : merged[g] = SumFunctionOnSet(Each(g)', received)
  <2>1. ASSUME NEW g \in Fields
        PROVE  SumFunctionOnSet(Each(g)', received) = SumFunctionOnSet(Each(g), received)
    <3>1. \A v \in received : Each(g)[v] \in Int /\ Each(g)'[v] = Each(g)[v]
      BY <1>0, <1>1, <1>2, GenNumbers
    <3>2. IsFiniteSet(received)
      BY <1>1, SubsetsFinite, GeneratorAssumption
    <3>3. QED
      BY <3>1, <3>2, SumSame
  <2>2. QED
    BY <1>0, <2>1 DEF CountInv
<1>4. ASSUME NEW g \in {"Ok", "Errors"}
      PROVE  SumFunctionOnSet(Each(g)', Workers)
               = SumFunctionOnSet(Each(g), Workers) + IF f = g THEN 1 ELSE 0
  <2>1. g \in Fields
    BY DEF Fields
  <2>2. /\ \A v \in Workers : Each(g)[v] \in Int
        /\ Each(g)'[w] \in Int /\ \A v \in Workers : v # w => Each(g)'[v] = Each(g)[v]
        /\ Each(g)'[w] - Each(g)[w] = IF f = g THEN 1 ELSE 0
    <3>1. \A v \in Workers : Each(g)[v] = stat[v][g] /\ stat[v][g] \in Nat
      BY <1>0, <2>1, GenNumbers
    <3>2. \A v \in Workers : Each(g)'[v] = stat'[v][g] /\ stat'[v][g] \in Nat
      BY <1>2, <2>1
    <3>3. stat'[w][g] = stat[w][g] + IF f = g THEN 1 ELSE 0
      OBVIOUS
    <3>4. Each(g)'[w] - Each(g)[w] = IF f = g THEN 1 ELSE 0
      BY <3>1, <3>2, <3>3
    <3>5. QED
      BY <3>1, <3>2, <3>4
  <2>3. IsFiniteSet(Workers)
    BY GeneratorAssumption
  <2>4. SumFunctionOnSet(Each(g)', Workers)
          = SumFunctionOnSet(Each(g), Workers) + (Each(g)'[w] - Each(g)[w])
    <3>1. ASSUME NEW h, NEW k, \A v \in Workers : h[v] \in Int, k[w] \in Int,
                 \A v \in Workers : v # w => k[v] = h[v]
          PROVE  SumFunctionOnSet(k, Workers) = SumFunctionOnSet(h, Workers) + (k[w] - h[w])
      BY <2>3, <3>1, SumUpdate
    <3>2. QED
      BY <2>2, <3>1
  <2>5. QED
    BY <2>2, <2>4
<1>5. Cardinality(InRequest') = Cardinality(InRequest) - 1
  <2>1. InRequest' = InRequest \ {w} /\ w \in InRequest
    BY DEF InRequest
  <2>2. QED
    BY <1>0, <2>1, GenNumbers, FS_RemoveElement
<1>6. requests' = SumFunctionOnSet(Each("Ok")', Workers) + SumFunctionOnSet(Each("Errors")', Workers)
                  + Cardinality(InRequest')
  <2>1. /\ SumFunctionOnSet(Each("Ok"), Workers) \in Nat
        /\ SumFunctionOnSet(Each("Errors"), Workers) \in Nat
        /\ Cardinality(InRequest) \in Nat
    BY <1>0, GenNumbers
  <2>2. /\ SumFunctionOnSet(Each("Ok")', Workers)
             = SumFunctionOnSet(Each("Ok"), Workers) + IF f = "Ok" THEN 1 ELSE 0
        /\ SumFunctionOnSet(Each("Errors")', Workers)
             = SumFunctionOnSet(Each("Errors"), Workers) + IF f = "Errors" THEN 1 ELSE 0
    BY <1>4
  <2>3. requests = SumFunctionOnSet(Each("Ok"), Workers) + SumFunctionOnSet(Each("Errors"), Workers)
                   + Cardinality(InRequest)
    BY <1>0 DEF CountInv
  <2>4. requests = SumFunctionOnSet(Each("Ok")', Workers) + SumFunctionOnSet(Each("Errors")', Workers)
                   + Cardinality(InRequest')
    BY <1>5, <2>1, <2>2, <2>3
  <2>5. QED
    BY <2>4
<1>7. \A v \in Workers : stat'[v]["Ok"] = stat'[v]["Hist"] + stat'[v]["Overflow"]
  BY <1>0 DEF CountInv
<1>8. QED
  BY <1>0, <1>3, <1>6, <1>7 DEF CountInv

LEMMA GenSucceeds ==
  ASSUME GenInv, TypeOK, NEW w \in Workers, RequestSucceeds(w)
  PROVE  GenInv'
<1> USE DEF workerVars, mainVars, vars, serveVars, callVars, history, ctxVars
<1>0. GenTypes /\ TravelInv /\ CallInv /\ CountInv
  BY DEF GenInv
<1>1. /\ caller[w] = "idle" /\ worker[w] = "request"
      /\ worker' = [worker EXCEPT ![w] = AfterRequest]
      /\ UNCHANGED <<pausing, cancelled, source, requests, finished, main, merged, received>>
      /\ UNCHANGED vars
  BY DEF RequestSucceeds, At, Goes
<1>2. PICK f \in {"Hist", "Overflow"} :
        stat' = [stat EXCEPT ![w]["Ok"] = @ + 1, ![w][f] = @ + 1]
  BY DEF RequestSucceeds
<1>3. AfterRequest \in {"pause", "select"}
  BY DEF AfterRequest
<1>4. /\ worker'[w] \in {"pause", "select"}
      /\ \A v \in Workers : v # w => worker'[v] = worker[v]
      /\ worker' \in [Workers -> {"sleep", "select", "request", "pause", "send", "ended"}]
  BY <1>0, <1>1, <1>3 DEF GenTypes
<1>5. /\ stat' \in [Workers -> [Fields -> Nat]]
      /\ \A v \in Workers : v # w => stat'[v] = stat[v]
      /\ stat'[w]["Ok"] = stat[w]["Ok"] + 1 /\ stat'[w]["Errors"] = stat[w]["Errors"]
      /\ stat'[w]["Ok"] = stat'[w]["Hist"] + stat'[w]["Overflow"]
  <2>1. stat \in [Workers -> [Fields -> Nat]] /\ stat[w] \in [Fields -> Nat]
    BY <1>0 DEF GenTypes
  <2>2. stat[w]["Ok"] = stat[w]["Hist"] + stat[w]["Overflow"]
    BY <1>0 DEF CountInv
  <2> DEFINE s == [stat[w] EXCEPT !["Ok"] = @ + 1, ![f] = @ + 1]
  <2>3. stat' = [stat EXCEPT ![w] = s]
    BY <1>2, <2>1
  <2>4. /\ s \in [Fields -> Nat]
        /\ s["Ok"] = stat[w]["Ok"] + 1 /\ s["Errors"] = stat[w]["Errors"]
        /\ s["Ok"] = s["Hist"] + s["Overflow"]
    <3>1. CASE f = "Hist"
      BY <2>1, <2>2, <3>1 DEF Fields
    <3>2. CASE f = "Overflow"
      BY <2>1, <2>2, <3>2 DEF Fields
    <3>3. QED
      BY <3>1, <3>2
  <2> HIDE DEF s
  <2>5. QED
    BY <2>1, <2>3, <2>4
<1>6. w \notin received /\ \A i \in DOMAIN finished : finished[i] # w /\ finished[i] \in Workers
  BY <1>0, <1>1 DEF TravelInv, GenTypes
<1>7. GenTypes'
  BY <1>0, <1>1, <1>4, <1>5 DEF GenTypes
<1>8. TravelInv'
  <2>1. \A i \in DOMAIN finished : worker'[finished[i]] = "ended"
    BY <1>0, <1>4, <1>6 DEF TravelInv
  <2>2. \A v \in received : worker'[v] = "ended"
    BY <1>0, <1>4, <1>6 DEF TravelInv, GenTypes
  <2>3. QED
    BY <1>0, <1>1, <2>1, <2>2 DEF TravelInv
<1>9. \A v \in Workers : stat'[v]["Errors"] = stat[v]["Errors"]
  BY <1>5
<1>10. CallInv'
  BY <1>0, <1>1, <1>4, <1>9 DEF CallInv
<1>11. CountInv'
  <2>1. /\ "Ok" \in {"Ok", "Errors"} /\ worker'[w] # "request"
        /\ stat'[w]["Ok"] = stat[w]["Ok"] + IF "Ok" = "Ok" THEN 1 ELSE 0
        /\ stat'[w]["Errors"] = stat[w]["Errors"] + IF "Ok" = "Errors" THEN 1 ELSE 0
    <3>1. stat[w]["Errors"] \in Nat
      BY <1>0 DEF GenTypes, Fields
    <3>2. QED
      BY <1>4, <1>5, <3>1
  <2>2. QED
    BY <1>1, <1>4, <1>5, <2>1, CountReturns
<1>12. HandedInv'
  <2>1. Handed' = Handed
    BY <1>1, <1>9 DEF Handed
  <2>2. QED
    BY <1>1, <2>1, HandedKept
<1>13. QED
  BY <1>7, <1>8, <1>10, <1>11, <1>12 DEF GenInv

LEMMA GenFails ==
  ASSUME GenInv, TypeOK, NEW w \in Workers, RequestFails(w)
  PROVE  GenInv'
<1> USE DEF workerVars, mainVars, ctxVars
<1>0. /\ GenTypes /\ TravelInv /\ CallInv /\ CountInv
      /\ caller \in [Callers -> {"idle", "send", "close"}] /\ cmd \in [Callers -> Cmds]
  BY DEF GenInv, TypeOK
<1>1. /\ caller[w] = "idle" /\ worker[w] = "request"
      /\ worker' = [worker EXCEPT ![w] = AfterRequest]
      /\ stat' = [stat EXCEPT ![w]["Errors"] = @ + 1]
      /\ UNCHANGED <<pausing, cancelled, source, requests, finished, main, merged, received>>
  BY DEF RequestFails, At, Goes
<1>2. PICK m \in Msgs : CallPrintf(w, m)
  BY DEF RequestFails
<1>3. /\ caller' = [caller EXCEPT ![w] = "send"] /\ cmd' = [cmd EXCEPT ![w] = m]
      /\ UNCHANGED <<done, closing, early>>
  BY <1>2 DEF CallPrintf, history
<1>4. /\ caller'[w] = "send" /\ \A c \in Callers : c # w => caller'[c] = caller[c]
      /\ cmd'[w] = m /\ \A c \in Callers : c # w => cmd'[c] = cmd[c]
      /\ w # mainThread /\ mainThread \in Callers /\ w \in Callers /\ Workers \subseteq Callers
  BY <1>0, <1>3, GenConstants
<1>5. AfterRequest \in {"pause", "select"}
  BY DEF AfterRequest
<1>6. /\ worker'[w] \in {"pause", "select"}
      /\ \A v \in Workers : v # w => worker'[v] = worker[v]
      /\ worker' \in [Workers -> {"sleep", "select", "request", "pause", "send", "ended"}]
  BY <1>0, <1>1, <1>5 DEF GenTypes
<1>7. /\ stat' \in [Workers -> [Fields -> Nat]]
      /\ \A v \in Workers : v # w => stat'[v] = stat[v]
      /\ stat'[w]["Errors"] = stat[w]["Errors"] + 1 /\ stat'[w]["Ok"] = stat[w]["Ok"]
      /\ stat'[w]["Ok"] = stat'[w]["Hist"] + stat'[w]["Overflow"]
      /\ stat[w]["Errors"] \in Nat /\ stat[w]["Ok"] \in Nat
  <2>1. stat \in [Workers -> [Fields -> Nat]] /\ stat[w] \in [Fields -> Nat]
    BY <1>0 DEF GenTypes
  <2>2. stat[w]["Ok"] = stat[w]["Hist"] + stat[w]["Overflow"]
    BY <1>0 DEF CountInv
  <2> DEFINE s == [stat[w] EXCEPT !["Errors"] = @ + 1]
  <2>3. stat' = [stat EXCEPT ![w] = s]
    BY <1>1, <2>1
  <2>4. /\ s \in [Fields -> Nat] /\ stat[w]["Errors"] \in Nat /\ stat[w]["Ok"] \in Nat
        /\ s["Errors"] = stat[w]["Errors"] + 1 /\ s["Ok"] = stat[w]["Ok"]
        /\ s["Ok"] = s["Hist"] + s["Overflow"]
    BY <2>1, <2>2 DEF Fields
  <2> HIDE DEF s
  <2>5. QED
    BY <2>1, <2>3, <2>4
<1>8. w \notin received /\ \A i \in DOMAIN finished : finished[i] # w /\ finished[i] \in Workers
  BY <1>0, <1>1 DEF TravelInv, GenTypes
<1>9. GenTypes'
  BY <1>0, <1>1, <1>6, <1>7 DEF GenTypes
<1>10. TravelInv'
  <2>1. \A i \in DOMAIN finished : worker'[finished[i]] = "ended"
    BY <1>0, <1>6, <1>8 DEF TravelInv
  <2>2. \A v \in received : worker'[v] = "ended"
    BY <1>0, <1>6, <1>8 DEF TravelInv, GenTypes
  <2>3. QED
    BY <1>0, <1>1, <2>1, <2>2 DEF TravelInv
<1>11. CallInv'
  <2>1. ASSUME NEW v \in Workers
        PROVE  /\ worker'[v] = "ended" => caller'[v] = "idle"
               /\ caller'[v] # "close"
               /\ caller'[v] = "send" => cmd'[v] \in Msgs /\ stat'[v]["Errors"] > 0
    <3>1. CASE v = w
      BY <1>4, <1>6, <1>7, <3>1
    <3>2. CASE v # w
      BY <1>0, <1>4, <1>6, <1>7, <3>2 DEF CallInv
    <3>3. QED
      BY <3>1, <3>2
  <2>2. cmd'[mainThread] = dedupCmdClose /\ caller'[mainThread] = caller[mainThread]
    BY <1>0, <1>4 DEF CallInv
  <2>3. QED
    BY <1>0, <1>1, <1>3, <2>1, <2>2 DEF CallInv
<1>12. CountInv'
  <2>1. /\ "Errors" \in {"Ok", "Errors"} /\ worker'[w] # "request"
        /\ stat'[w]["Ok"] = stat[w]["Ok"] + IF "Errors" = "Ok" THEN 1 ELSE 0
        /\ stat'[w]["Errors"] = stat[w]["Errors"] + IF "Errors" = "Errors" THEN 1 ELSE 0
    BY <1>6, <1>7
  <2>2. QED
    BY <1>1, <1>6, <1>7, <2>1, CountReturns
<1>13. HandedInv'
  <2>1. \A v \in Workers : stat'[v]["Errors"] - (IF caller'[v] = "send" THEN 1 ELSE 0)
                             = stat[v]["Errors"] - (IF caller[v] = "send" THEN 1 ELSE 0)
    BY <1>1, <1>4, <1>7
  <2>2. Handed' = Handed
    BY <2>1 DEF Handed
  <2>3. QED
    BY <1>1, <1>3, <2>2, HandedKept
<1>14. QED
  BY <1>9, <1>10, <1>11, <1>12, <1>13 DEF GenInv

(* main goes on to logger.Close or waits on; the statistics it has merged  *)
(* are none, or those of the worker at the head of the channel.            *)
LEMMA GenWaitEnds ==
  ASSUME GenInv, TypeOK,
         main = "wait", \/ UNCHANGED <<main, vars>> \/ WaitEnds,
         UNCHANGED <<worker, stat>>
  PROVE  /\ main' \in {"wait", "close", "report"} /\ CallInv'
         /\ UNCHANGED <<closing, early>> /\ Handed' = Handed
<1> USE DEF vars, serveVars, callVars, history
<1>0. CallInv /\ caller \in [Callers -> {"idle", "send", "close"}] /\ cmd \in [Callers -> Cmds]
  BY DEF GenInv, TypeOK
<1>1. CASE UNCHANGED <<main, vars>>
  BY <1>0, <1>1 DEF CallInv, Handed
<1>2. CASE WaitEnds
  <2>1. main' = "close" /\ CallClose(mainThread)
    BY <1>2 DEF WaitEnds
  <2>2. /\ caller' = [caller EXCEPT ![mainThread] = "send"]
        /\ cmd' = [cmd EXCEPT ![mainThread] = dedupCmdClose]
        /\ UNCHANGED <<done, closing, early>>
    BY <2>1 DEF CallClose, history
  <2>3. /\ caller'[mainThread] = "send" /\ cmd'[mainThread] = dedupCmdClose
        /\ \A w \in Workers : caller'[w] = caller[w] /\ cmd'[w] = cmd[w]
    BY <1>0, <2>2, GenConstants
  <2>4. CallInv'
    BY <1>0, <2>1, <2>3 DEF CallInv
  <2>5. Handed' = Handed
    BY <2>3 DEF Handed
  <2>6. QED
    BY <2>1, <2>2, <2>4, <2>5
<1>3. QED
  BY <1>1, <1>2

LEMMA GenReceives ==
  ASSUME GenInv, TypeOK, ReceiveStat
  PROVE  GenInv'
<1> USE DEF workerVars, ctxVars
<1> DEFINE h == Head(finished)
<1>0. GenTypes /\ TravelInv /\ CallInv /\ CountInv /\ HandedInv
  BY DEF GenInv
<1>1. /\ main = "wait" /\ finished # <<>> /\ finished' = Tail(finished)
      /\ merged' = Merge(merged, stat[h]) /\ received' = received \cup {h}
      /\ \/ UNCHANGED <<main, vars>> \/ WaitEnds
      /\ UNCHANGED <<pausing, cancelled, source, worker, stat, requests>>
  BY DEF ReceiveStat
<1>2. /\ main' \in {"wait", "close", "report"} /\ CallInv'
      /\ UNCHANGED <<closing, early>> /\ Handed' = Handed
  BY <1>1, GenWaitEnds
<1>3. /\ finished \in Seq(Workers) /\ h \in Workers /\ finished' \in Seq(Workers)
      /\ Len(finished') <= Cardinality(Workers)
      /\ h = finished[1] /\ 1 \in DOMAIN finished
      /\ \A i \in DOMAIN finished' : /\ finished'[i] = finished[i + 1]
                                     /\ i + 1 \in DOMAIN finished /\ i + 1 # 1 /\ i \in Nat
  <2>1. finished \in Seq(Workers) /\ Len(finished) <= Cardinality(Workers)
    BY <1>0 DEF GenTypes
  <2>2. /\ h \in Workers /\ finished' \in Seq(Workers) /\ Len(finished') = Len(finished) - 1
        /\ h = finished[1] /\ 1 \in DOMAIN finished
        /\ DOMAIN finished' = 1 .. (Len(finished) - 1) /\ DOMAIN finished = 1 .. Len(finished)
        /\ Len(finished) \in Nat
        /\ \A i \in 1 .. (Len(finished) - 1) : finished'[i] = finished[i + 1]
    BY <1>1, <2>1
  <2>3. QED
    BY <2>1, <2>2, GenConstants
<1> HIDE DEF h
<1>4. /\ h \notin received /\ worker[h] = "ended" /\ received' \in SUBSET Workers
      /\ IsFiniteSet(received) /\ IsFiniteSet(received')
  <2>1. h \notin received /\ worker[h] = "ended"
    BY <1>0, <1>3 DEF TravelInv
  <2>2. received \in SUBSET Workers /\ received' \in SUBSET Workers
    BY <1>0, <1>1, <1>3 DEF GenTypes
  <2>3. QED
    BY <2>1, <2>2, SubsetsFinite, GeneratorAssumption
<1>5. merged' \in [Fields -> Nat] /\ \A f \in Fields : merged'[f] = merged[f] + stat[h][f]
  <2>1. merged \in [Fields -> Nat] /\ stat[h] \in [Fields -> Nat]
    BY <1>0, <1>3 DEF GenTypes
  <2>2. merged' = [f \in Fields |-> merged[f] + stat[h][f]]
    BY <1>1, <2>1 DEF Merge
  <2>3. QED
    BY <2>1, <2>2
<1>6. GenTypes'
  BY <1>0, <1>1, <1>2, <1>3, <1>4, <1>5 DEF GenTypes
<1>7. TravelInv'
  <2>1. \A i, j \in DOMAIN finished' : finished'[i] = finished'[j] => i = j
    <3>1. ASSUME NEW i \in DOMAIN finished', NEW j \in DOMAIN finished',
                 finished'[i] = finished'[j]
          PROVE  i = j
      <4>1. i + 1 \in DOMAIN finished /\ j + 1 \in DOMAIN finished /\ i \in Nat /\ j \in Nat
            /\ finished[i + 1] = finished[j + 1]
        BY <1>3, <3>1
      <4>2. i + 1 = j + 1
        BY <1>0, <4>1 DEF TravelInv
      <4>3. QED
        BY <4>1, <4>2
    <3>2. QED
      BY <3>1
  <2>2. ASSUME NEW i \in DOMAIN finished'
        PROVE  finished'[i] \notin received' /\ worker'[finished'[i]] = "ended"
    <3>1. i + 1 \in DOMAIN finished /\ finished'[i] = finished[i + 1] /\ i + 1 # 1
      BY <1>3
    <3>2. finished[i + 1] # h
      BY <1>0, <1>3, <3>1 DEF TravelInv
    <3>3. finished[i + 1] \notin received /\ worker[finished[i + 1]] = "ended"
      BY <1>0, <3>1 DEF TravelInv
    <3>4. QED
      BY <1>1, <3>1, <3>2, <3>3
  <2>3. \A w \in received' : worker'[w] = "ended"
    BY <1>0, <1>1, <1>4 DEF TravelInv
  <2>4. QED
    BY <2>1, <2>2, <2>3 DEF TravelInv
<1>8. \A f \in Fields : merged'[f] = SumFunctionOnSet(Each(f), received')
  <2>1. ASSUME NEW f \in Fields
        PROVE  SumFunctionOnSet(Each(f), received \cup {h})
                 = SumFunctionOnSet(Each(f), received) + stat[h][f]
    <3>1. \A w \in received \cup {h} : Each(f)[w] \in Int
      BY <1>0, <1>1, <1>4, GenNumbers
    <3>2. Each(f)[h] = stat[h][f]
      BY <1>0, <1>3, GenNumbers
    <3>3. QED
      BY <1>4, <3>1, <3>2, SumAdd
  <2>2. \A f \in Fields : merged[f] = SumFunctionOnSet(Each(f), received)
    BY <1>0 DEF CountInv
  <2>3. QED
    BY <1>1, <1>5, <2>1, <2>2
<1>9. CountInv'
  <2>1. /\ \A f \in Fields : Each(f)' = Each(f)
        /\ Each("Ok")' = Each("Ok") /\ Each("Errors")' = Each("Errors")
        /\ InRequest' = InRequest
    BY <1>1 DEF Each, InRequest
  <2>2. merged'["Ok"] = merged'["Hist"] + merged'["Overflow"]
    <3>1. merged["Ok"] = merged["Hist"] + merged["Overflow"]
      BY <1>0 DEF CountInv
    <3>2. stat[h]["Ok"] = stat[h]["Hist"] + stat[h]["Overflow"]
      BY <1>0, <1>3 DEF CountInv
    <3>3. /\ merged["Ok"] \in Nat /\ merged["Hist"] \in Nat /\ merged["Overflow"] \in Nat
          /\ stat[h]["Ok"] \in Nat /\ stat[h]["Hist"] \in Nat /\ stat[h]["Overflow"] \in Nat
      BY <1>0, <1>3 DEF GenTypes, Fields
    <3>4. /\ merged'["Ok"] = merged["Ok"] + stat[h]["Ok"]
          /\ merged'["Hist"] = merged["Hist"] + stat[h]["Hist"]
          /\ merged'["Overflow"] = merged["Overflow"] + stat[h]["Overflow"]
      BY <1>5 DEF Fields
    <3>5. QED
      BY <3>1, <3>2, <3>3, <3>4
  <2>3. QED
    BY <1>0, <1>1, <1>8, <2>1, <2>2 DEF CountInv
<1>10. HandedInv'
  <2>1. \A w \in Workers : stat[w]["Errors"] \in Nat /\ Handed[w] \in Nat
    <3>1. \A w \in Workers : stat[w]["Errors"] \in Nat
      BY <1>0 DEF GenTypes, Fields
    <3>2. QED
      BY <1>0, <3>1 DEF CallInv, Handed
  <2>2. \A w \in received' : /\ Handed[w] = Each("Errors")[w] /\ Handed[w] \in Int
                             /\ Each("Errors")[w] \in Int
    <3>1. \A w \in received' : w \in Workers /\ caller[w] = "idle"
      BY <1>0, <1>1, <1>4 DEF CallInv, TravelInv
    <3>2. QED
      BY <2>1, <3>1 DEF Handed, Each
  <2>3. SumFunctionOnSet(Handed, received') = SumFunctionOnSet(Each("Errors"), received')
    BY <1>4, <2>2, SumSame
  <2>4. SumFunctionOnSet(Handed, received') <= SumFunctionOnSet(Handed, Workers)
    BY <1>4, <2>1, SumWithin, GeneratorAssumption
  <2>5. SumFunctionOnSet(early, Msgs) = SumFunctionOnSet(Handed, Workers)
    BY <1>0, <1>1 DEF CallInv, HandedInv
  <2>6. merged'["Errors"] <= SumFunctionOnSet(early, Msgs)
    <3>1. merged'["Errors"] = SumFunctionOnSet(Each("Errors"), received')
      BY <1>8 DEF Fields
    <3>2. QED
      BY <2>3, <2>4, <2>5, <3>1
  <2>7. QED
    BY <1>0, <1>2, <2>6 DEF HandedInv
<1>11. QED
  BY <1>2, <1>6, <1>7, <1>9, <1>10 DEF GenInv

LEMMA GenTimesOut ==
  ASSUME GenInv, TypeOK, TimeOut \/ Report
  PROVE  GenInv'
<1> USE DEF workerVars, ctxVars, vars, serveVars, callVars, history
<1>0. GenTypes /\ TravelInv /\ CallInv /\ CountInv /\ HandedInv
  BY DEF GenInv
<1>1. UNCHANGED <<pausing, cancelled, source, worker, stat, requests, finished, merged, received>>
  BY DEF TimeOut, Report
<1>2. /\ main' \in {"wait", "close", "report"} /\ CallInv'
      /\ UNCHANGED <<closing, early>> /\ Handed' = Handed
  <2>1. CASE TimeOut
    <3>1. main = "wait" /\ WaitEnds
      BY <2>1 DEF TimeOut
    <3>2. QED
      BY <1>1, <3>1, GenWaitEnds
  <2>2. CASE Report
    <3>1. main = "close" /\ caller[mainThread] = "idle" /\ main' = "report" /\ UNCHANGED vars
      BY <2>2 DEF Report
    <3>2. QED
      BY <1>0, <1>1, <3>1 DEF CallInv, Handed
  <2>3. QED
    BY <2>1, <2>2
<1>3. GenTypes'
  BY <1>0, <1>1, <1>2 DEF GenTypes
<1>4. TravelInv'
  BY <1>0, <1>1 DEF TravelInv
<1>5. CountInv'
  <2>1. InRequest' = InRequest
    BY <1>1 DEF InRequest
  <2>2. QED
    BY <1>1, <2>1, CountKept
<1>6. HandedInv'
  BY <1>1, <1>2, HandedKept
<1>7. QED
  BY <1>2, <1>3, <1>4, <1>5, <1>6 DEF GenInv

(* A caller's send is over: the logger has accepted its command, or has    *)
(* ended.                                                                  *)
LEMMA GenSent ==
  ASSUME GenInv, Inv, NEW c \in Callers, Send(c) \/ SendAfterDone(c),
         UNCHANGED <<main, worker, stat, merged>>
  PROVE  CallInv' /\ HandedInv'
<1>0. /\ GenTypes /\ CallInv /\ HandedInv /\ TypeOK /\ ControlInv
      /\ caller \in [Callers -> {"idle", "send", "close"}] /\ cmd \in [Callers -> Cmds]
      /\ closing \in BOOLEAN
  BY DEF GenInv, Inv, TypeInv, TypeOK
<1>1. /\ caller[c] = "send" /\ UNCHANGED <<cmd, done>>
      /\ caller' = [caller EXCEPT ![c] = IF cmd[c] = dedupCmdClose THEN "close" ELSE "idle"]
      /\ Accepted(cmd[c]) \/ (done /\ UNCHANGED <<closing, early>>)
  BY DEF Send, SendAfterDone, Sent, history
<1>2. /\ caller'[c] = IF cmd[c] = dedupCmdClose THEN "close" ELSE "idle"
      /\ \A d \in Callers : d # c => caller'[d] = caller[d]
  BY <1>0, <1>1
<1>3. CASE c \in Workers
  <2>1. cmd[c] \in Msgs /\ cmd[c] # dedupCmdClose /\ caller'[c] = "idle" /\ c # mainThread
    BY <1>0, <1>1, <1>2, <1>3, Constants, GenConstants DEF CallInv
  <2>2. closing' = closing
    BY <1>0, <1>1, <2>1 DEF Accepted
  <2>3. CallInv'
    <3>1. caller'[mainThread] = caller[mainThread]
      BY <1>2, <2>1, GenConstants
    <3>2. \A w \in Workers : caller'[w] = caller[w] \/ caller'[w] = "idle"
      BY <1>2, <2>1, GenConstants
    <3>3. \A w \in Workers : /\ worker[w] = "ended" => caller'[w] = "idle"
                             /\ caller'[w] # "close"
                             /\ caller'[w] = "send" => cmd[w] \in Msgs /\ stat[w]["Errors"] > 0
      BY <1>0, <3>2 DEF CallInv
    <3>4. QED
      BY <1>0, <1>1, <2>2, <3>1, <3>3 DEF CallInv
  <2>4. HandedInv'
    <3>1. CASE closing
      <4>1. \A m \in Msgs : early'[m] = early[m] /\ early[m] \in Int
        <5>1. \A m \in Msgs : early[m] \in Int
          BY <1>0 DEF TypeOK
        <5>2. CASE Accepted(cmd[c])
          <6>1. \A m \in Msgs : early'[m] = early[m] + 0
            BY <3>1, <5>2 DEF Accepted
          <6>2. QED
            BY <5>1, <6>1
        <5>3. QED
          BY <1>1, <5>1, <5>2
      <4>2. SumFunctionOnSet(early', Msgs) = SumFunctionOnSet(early, Msgs)
        BY <4>1, SumSame, GeneratorAssumption
      <4>3. QED
        BY <1>0, <2>2, <3>1, <4>2 DEF HandedInv
    <3>2. CASE ~closing
      <4>1. Accepted(cmd[c])
        BY <1>0, <1>1, <3>2 DEF ControlInv
      <4>2. \A m \in Msgs : early'[m] = early[m] + IF m = cmd[c] THEN 1 ELSE 0
        BY <3>2, <4>1 DEF Accepted
      <4>3. \A m \in Msgs : early[m] \in Int
        BY <1>0 DEF TypeOK
      <4>4. SumFunctionOnSet(early', Msgs) = SumFunctionOnSet(early, Msgs) + 1
        <5>1. PICK k \in Msgs : k = cmd[c]
          BY <2>1
        <5>2. early'[k] \in Int /\ early'[k] - early[k] = 1
          BY <4>2, <4>3, <5>1
        <5>3. \A m \in Msgs : m # k => early'[m] = early[m]
          BY <4>2, <4>3, <5>1
        <5>4. SumFunctionOnSet(early', Msgs)
                = SumFunctionOnSet(early, Msgs) + (early'[k] - early[k])
          BY <4>3, <5>2, <5>3, SumUpdate, GeneratorAssumption
        <5>5. QED
          BY <5>2, <5>4
      <4>5. SumFunctionOnSet(Handed', Workers) = SumFunctionOnSet(Handed, Workers) + 1
        <5>1. /\ \A w \in Workers : Handed[w] \in Int
              /\ \A w \in Workers : stat[w]["Errors"] \in Nat
          BY <1>0, GenNumbers DEF GenTypes, Fields
        <5>2. \A w \in Workers : w # c => Handed'[w] = Handed[w]
          BY <1>2, GenConstants DEF Handed
        <5>3. Handed'[c] = stat[c]["Errors"] /\ Handed[c] = stat[c]["Errors"] - 1
          BY <1>1, <1>3, <2>1, <5>1 DEF Handed
        <5>4. Handed'[c] \in Int /\ Handed'[c] - Handed[c] = 1
          BY <1>3, <5>1, <5>3
        <5>5. SumFunctionOnSet(Handed', Workers)
                = SumFunctionOnSet(Handed, Workers) + (Handed'[c] - Handed[c])
          <6>1. IsFiniteSet(Workers)
            BY GeneratorAssumption
          <6>2. c \in Workers /\ \A w \in Workers : Handed[w] \in Int
            BY <1>3, <5>1
          <6>3. Handed'[c] \in Int /\ \A w \in Workers : w # c => Handed'[w] = Handed[w]
            BY <5>2, <5>4
          <6>4. ASSUME NEW f, NEW g, \A w \in Workers : f[w] \in Int, g[c] \in Int,
                       \A w \in Workers : w # c => g[w] = f[w]
                PROVE  SumFunctionOnSet(g, Workers) = SumFunctionOnSet(f, Workers) + (g[c] - f[c])
            BY <1>3, <6>1, <6>4, SumUpdate
          <6>5. QED
            BY <6>2, <6>3, <6>4
        <5>6. QED
          BY <5>4, <5>5
      <4>6. SumFunctionOnSet(early, Msgs) \in Nat /\ merged["Errors"] \in Nat
        BY <1>0, GenNumbers DEF GenTypes, Fields
      <4>7. QED
        BY <1>0, <3>2, <4>4, <4>5, <4>6 DEF HandedInv
    <3>3. QED
      BY <3>1, <3>2
  <2>5. QED
    BY <2>3, <2>4
<1>4. CASE c = mainThread
  <2>1. cmd[c] = dedupCmdClose /\ caller'[mainThread] = "close" /\ main # "wait"
    BY <1>0, <1>1, <1>2, <1>4 DEF CallInv
  <2>2. \A w \in Workers : caller'[w] = caller[w]
    BY <1>2, <1>4, GenConstants
  <2>3. CallInv'
    BY <1>0, <1>1, <2>1, <2>2 DEF CallInv
  <2>4. HandedInv'
    <3>1. closing'
      BY <1>0, <1>1, <2>1 DEF Accepted, ControlInv
    <3>2. \A m \in Msgs : early'[m] = early[m] /\ early[m] \in Int
      BY <1>0, <1>1, <2>1, Constants DEF Accepted, TypeOK
    <3>3. SumFunctionOnSet(early', Msgs) = SumFunctionOnSet(early, Msgs)
      BY <3>2, SumSame, GeneratorAssumption
    <3>4. QED
      BY <1>0, <3>1, <3>3 DEF HandedInv
  <2>5. QED
    BY <2>3, <2>4
<1>5. QED
  BY <1>3, <1>4, GenConstants

LEMMA GenLogs ==
  ASSUME GenInv, Inv, LoggerStep
  PROVE  GenInv'
<1> USE DEF workerVars, ctxVars, mainVars, genVars
<1>0. /\ GenTypes /\ TravelInv /\ CallInv /\ CountInv /\ HandedInv /\ TypeOK
      /\ caller \in [Callers -> {"idle", "send", "close"}]
  BY DEF GenInv, Inv, TypeInv, TypeOK
<1>1. /\ UNCHANGED <<pausing, cancelled, source, worker, stat, requests, finished, main, merged,
                     received>>
      /\ \/ \E c \in Callers : Send(c) \/ SendAfterDone(c) \/ CloseReturns(c)
         \/ ReceiveBuffered \/ ReceiveTick \/ CloseDone \/ Clock
  BY GenConstants DEF LoggerStep
<1>2. CallInv' /\ HandedInv'
  <2>1. ASSUME NEW c \in Callers, Send(c) \/ SendAfterDone(c) PROVE CallInv' /\ HandedInv'
    BY <1>1, <2>1, GenSent
  <2>2. ASSUME NEW c \in Callers, CloseReturns(c) PROVE CallInv' /\ HandedInv'
    <3>1. /\ caller[c] = "close" /\ done /\ caller' = [caller EXCEPT ![c] = "idle"]
          /\ UNCHANGED <<cmd, done, closing, early>>
      BY <2>2 DEF CloseReturns, history
    <3>2. c = mainThread
      BY <1>0, <3>1, GenConstants DEF CallInv
    <3>3. caller'[mainThread] = "idle" /\ \A w \in Workers : caller'[w] = caller[w]
      BY <1>0, <3>1, <3>2, GenConstants
    <3>4. main # "wait"
      BY <1>0, <3>1, <3>2 DEF CallInv
    <3>5. CallInv'
      BY <1>0, <1>1, <3>1, <3>3, <3>4 DEF CallInv
    <3>6. Handed' = Handed
      BY <1>1, <3>3 DEF Handed
    <3>7. QED
      BY <1>1, <3>1, <3>5, <3>6, HandedKept
  <2>3. CASE ReceiveBuffered \/ ReceiveTick \/ CloseDone \/ Clock
    <3>1. UNCHANGED <<caller, cmd, closing, early>> /\ (done => done')
      BY <2>3 DEF ReceiveBuffered, ReceiveTick, CloseDone, Clock, callVars, history
    <3>2. CallInv'
      BY <1>0, <1>1, <3>1 DEF CallInv
    <3>3. Handed' = Handed
      BY <1>1, <3>1 DEF Handed
    <3>4. QED
      BY <1>1, <3>1, <3>2, <3>3, HandedKept
  <2>4. QED
    BY <1>1, <2>1, <2>2, <2>3
<1>3. GenTypes'
  BY <1>0, <1>1 DEF GenTypes
<1>4. TravelInv'
  BY <1>0, <1>1 DEF TravelInv
<1>5. CountInv'
  <2>1. InRequest' = InRequest
    BY <1>1 DEF InRequest
  <2>2. QED
    BY <1>1, <2>1, CountKept
<1>6. QED
  BY <1>2, <1>3, <1>4, <1>5 DEF GenInv

LEMMA GenInvNext == GenInv /\ Inv /\ [GenNext]_allVars => GenInv'
<1> SUFFICES ASSUME GenInv, Inv, [GenNext]_allVars PROVE GenInv'
  OBVIOUS
<1>0. TypeOK /\ GenTypes
  BY DEF Inv, TypeInv, GenInv
<1>1. CASE UNCHANGED allVars
  <2>1. /\ UNCHANGED <<workerVars, finished, mainVars, vars>>
        /\ UNCHANGED <<pausing, cancelled, source>>
    BY <1>1 DEF allVars, genVars, ctxVars
  <2>2. pausing' \in BOOLEAN /\ cancelled' \in BOOLEAN /\ source' \in {"select", "closed"}
    BY <1>0, <2>1 DEF GenTypes
  <2>3. QED
    BY <2>1, <2>2, GenQuiet
<1>2. CASE Cancel \/ SourceStops
  <2>1. /\ UNCHANGED <<workerVars, finished, mainVars, vars>>
        /\ pausing' \in BOOLEAN /\ cancelled' \in BOOLEAN /\ source' \in {"select", "closed"}
    BY <1>0, <1>2 DEF Cancel, SourceStops, GenTypes
  <2>2. QED
    BY <2>1, GenQuiet
<1>3. ASSUME NEW w \in Workers,
             \/ TakeNum(w) \/ RequestSucceeds(w) \/ RequestFails(w) \/ Proceed(w)
      PROVE  GenInv'
  BY <1>0, <1>3, GenTakes, GenSucceeds, GenFails, GenProceeds
<1>4. CASE MainStep
  BY <1>0, <1>4, GenReceives, GenTimesOut DEF MainStep
<1>5. CASE LoggerStep
  BY <1>5, GenLogs
<1>6. QED
  BY <1>1, <1>2, <1>3, <1>4, <1>5 DEF GenNext

LEMMA GenAlways == GenSpec => [](GenInv /\ Inv /\ AccountInv)
<1> DEFINE J == GenInv /\ Inv /\ AccountInv
<1>1. GenInit => J
  BY GenInvInit, InvInit, AccountInit DEF GenInit
<1>2. J /\ [GenNext]_allVars => J'
  BY GenInvNext, LoggerInStep, InvNext, AccountNext
<1> HIDE DEF J
<1>3. GenSpec => []J
  BY <1>1, <1>2, PTL DEF GenSpec
<1>4. QED
  BY <1>3 DEF J

(* The generator keeps its types: the channel `done` has room for every    *)
(* worker and holds the statistics of each that has ended at most once and *)
(* not after they were merged, and the logger keeps its own.               *)
THEOREM GeneratorTyping == GenSpec => []GenTypeOK
<1>1. GenInv /\ Inv => GenTypeOK
  <2> SUFFICES ASSUME GenInv, Inv PROVE GenTypeOK
    OBVIOUS
  <2>1. GenTypes /\ TypeOK
    BY DEF GenInv, Inv, TypeInv
  <2>2. stat \in [Workers -> Stat] /\ merged \in Stat
    BY <2>1, StatFields DEF GenTypes
  <2>3. /\ IsInjective(finished)
        /\ Range(finished) \subseteq {w \in Workers \ received : worker[w] = "ended"}
    <3>1. \A i \in DOMAIN finished : finished[i] \in Workers
      BY <2>1 DEF GenTypes
    <3>2. QED
      BY <3>1 DEF GenInv, TravelInv, IsInjective, Range
  <2>4. QED
    BY <2>1, <2>2, <2>3, GenConstants DEF GenTypes, GenTypeOK
<1>2. QED
  BY <1>1, GenAlways, PTL

(* What main merges is the final statistics of the workers it received     *)
(* them from, each once and whole, and every request that has come back is *)
(* counted once, for any number of workers and requests.                   *)
THEOREM ReportIsComplete == GenSpec => []ReportComplete
<1>1. GenInv /\ Inv => ReportComplete
  <2> SUFFICES ASSUME GenInv, Inv PROVE ReportComplete
    OBVIOUS
  <2>1. GenTypes /\ TravelInv /\ CountInv
    BY DEF GenInv
  <2>2. \A f, S : Count(f, S) = SumFunctionOnSet(Each(f), S)
    BY DEF Count, Each, SumFunctionOnSet
  <2>3. DOMAIN merged = Fields
    BY <2>1 DEF GenTypes
  <2>4. \A f \in DOMAIN merged : merged[f] = Count(f, received)
    BY <2>1, <2>2, <2>3 DEF CountInv
  <2>5. requests = Count("Ok", Workers) + Count("Errors", Workers)
                   + Cardinality({w \in Workers : worker[w] = "request"})
    BY <2>1, <2>2 DEF CountInv, InRequest
  <2>6. (\A w \in received : worker[w] = "ended")
        /\ merged["Ok"] = merged["Hist"] + merged["Overflow"]
    BY <2>1 DEF TravelInv, CountInv
  <2>7. QED
    BY <2>4, <2>5, <2>6 DEF ReportComplete
<1>2. QED
  BY <1>1, GenAlways, PTL

(* Every error that the report counts has been printed when main reports:  *)
(* main has waited for the logger, behind the last Printf of the workers   *)
(* it received.                                                            *)
THEOREM ReportedErrorsPrinted == GenSpec => []ErrorsPrinted
<1>1. GenInv /\ Inv /\ AccountInv => ErrorsPrinted
  <2> SUFFICES ASSUME GenInv, Inv, AccountInv, main = "report"
               PROVE  merged["Errors"] <= FoldFunctionOnSet(+, 0, reported, Msgs)
    BY DEF ErrorsPrinted
  <2>1. done /\ merged["Errors"] <= SumFunctionOnSet(early, Msgs)
    BY DEF GenInv, CallInv, HandedInv
  <2>2. reported = early
    BY <2>1, AllPrinted
  <2>3. QED
    BY <2>1, <2>2 DEF SumFunctionOnSet
<1>2. QED
  BY <1>1, GenAlways, PTL

=============================================================================

----------------------------- MODULE FiniteSums -----------------------------
(***************************************************************************)
(* What a sum over a finite set is: lemmas about SumFunctionOnSet of the   *)
(* module Functions, by which the models count.  The library defines it by *)
(* recursion over the set, taking its elements in an order CHOOSE fixes;   *)
(* the lemmas say that the order does not matter and how the sum changes   *)
(* with the set and with the function.                                     *)
(***************************************************************************)
EXTENDS Integers, Sequences, Functions, FiniteSets, FiniteSetTheorems,
        WellFoundedInduction, TLAPS

(***************************************************************************)
(* Induction over the natural numbers, in the form of sets.                *)
(***************************************************************************)
LEMMA Least ==
  ASSUME NEW S \in SUBSET Nat, S # {}
  PROVE  \E m \in S : \A k \in S : m <= k
<1>1. \E m \in S : \A k \in S : ~(<<k, m>> \in OpToRel(<, Nat))
  BY NatLessThanWellFounded, WFMin
<1>2. PICK m \in S : \A k \in S : ~(<<k, m>> \in OpToRel(<, Nat))
  BY <1>1
<1>3. ASSUME NEW k \in S, k < m PROVE FALSE
  <2>1. <<k, m>> \in OpToRel(<, Nat)
    BY <1>3 DEF OpToRel
  <2>2. QED
    BY <1>2, <2>1
<1>4. \A k \in S : m <= k
  BY <1>3, m \in Nat, \A k \in S : k \in Nat
<1>5. QED
  BY <1>4

LEMMA SetInduction ==
  ASSUME NEW S \in SUBSET Nat, 0 \in S, \A n \in S : n + 1 \in S
  PROVE  S = Nat
<1>1. ASSUME NEW n \in Nat, n \notin S PROVE FALSE
  <2>1. PICK m \in Nat \ S : \A k \in Nat \ S : m <= k
    <3>1. Nat \ S \in SUBSET Nat /\ Nat \ S # {}
      BY <1>1
    <3>2. QED
      BY <3>1, Least
  <2>2. CASE m = 0
    BY <2>1, <2>2
  <2>3. CASE m # 0
    <3>1. m - 1 \in Nat /\ m - 1 \notin Nat \ S /\ (m - 1) + 1 = m
      BY <2>1, <2>3
    <3>2. QED
      BY <2>1, <3>1
  <2>4. QED
    BY <2>2, <2>3
<1>2. QED
  BY <1>1

-----------------------------------------------------------------------------
(***************************************************************************)
(* The recursion has a solution, and only one.                             *)
(***************************************************************************)
Chosen(T) == CHOOSE x \in T : TRUE

LEMMA ChosenIn == ASSUME NEW T, T # {} PROVE Chosen(T) \in T
BY DEF Chosen

(* Subsets of S of at most n elements. *)
Small(S, n) == {T \in SUBSET S : Cardinality(T) <= n}

Solves(g, f, D) ==
  g = [T \in D |-> IF T = {} THEN 0 ELSE f[Chosen(T)] + g[T \ {Chosen(T)}]]

LEMMA SmallStep ==
  ASSUME NEW S, IsFiniteSet(S), NEW n \in Nat, NEW T \in Small(S, n + 1), T # {}
  PROVE  T \ {Chosen(T)} \in Small(S, n)
<1>1. IsFiniteSet(T)
  BY FS_Subset DEF Small
<1>2. Cardinality(T \ {Chosen(T)}) = Cardinality(T) - 1 /\ Cardinality(T) \in Nat
  BY <1>1, ChosenIn, FS_RemoveElement, FS_CardinalityType
<1>3. QED
  BY <1>2 DEF Small

LEMMA Solvable ==
  ASSUME NEW S, IsFiniteSet(S), NEW f
  PROVE  \E g : Solves(g, f, SUBSET S)
<1> DEFINE N == {n \in Nat : \E g : Solves(g, f, Small(S, n))}
<1>1. 0 \in N
  <2> DEFINE g == [T \in Small(S, 0) |-> 0]
  <2>1. ASSUME NEW T \in Small(S, 0) PROVE T = {}
    <3>1. IsFiniteSet(T) /\ Cardinality(T) <= 0
      BY FS_Subset DEF Small
    <3>2. Cardinality(T) = 0
      BY <3>1, FS_CardinalityType
    <3>3. QED
      BY <3>1, <3>2, FS_EmptySet
  <2>2. g = [T \in Small(S, 0) |-> IF T = {} THEN 0 ELSE f[Chosen(T)] + g[T \ {Chosen(T)}]]
    BY <2>1
  <2>3. Solves(g, f, Small(S, 0))
    BY <2>2 DEF Solves
  <2>4. QED
    BY <2>3
<1>2. ASSUME NEW n \in N PROVE n + 1 \in N
  <2>1. n \in Nat
    OBVIOUS
  <2>2. PICK g : Solves(g, f, Small(S, n))
    OBVIOUS
  <2> DEFINE h == [T \in Small(S, n + 1) |->
                     IF T = {} THEN 0 ELSE f[Chosen(T)] + g[T \ {Chosen(T)}]]
  <2>3. ASSUME NEW T \in Small(S, n) PROVE h[T] = g[T]
    <3>1. T \in Small(S, n + 1)
      <4>1. IsFiniteSet(T) /\ Cardinality(T) <= n
        BY FS_Subset DEF Small
      <4>2. Cardinality(T) <= n + 1
        BY <2>1, <4>1, FS_CardinalityType
      <4>3. QED
        BY <4>2 DEF Small
    <3>2. h[T] = IF T = {} THEN 0 ELSE f[Chosen(T)] + g[T \ {Chosen(T)}]
      BY <3>1
    <3>3. g[T] = IF T = {} THEN 0 ELSE f[Chosen(T)] + g[T \ {Chosen(T)}]
      BY <2>2 DEF Solves
    <3>4. QED
      BY <3>2, <3>3
  <2>4. ASSUME NEW T \in Small(S, n + 1)
        PROVE  h[T] = IF T = {} THEN 0 ELSE f[Chosen(T)] + h[T \ {Chosen(T)}]
    <3>1. h[T] = IF T = {} THEN 0 ELSE f[Chosen(T)] + g[T \ {Chosen(T)}]
      OBVIOUS
    <3>2. T # {} => h[T \ {Chosen(T)}] = g[T \ {Chosen(T)}]
      BY <2>1, <2>3, SmallStep
    <3>3. QED
      BY <3>1, <3>2
  <2>5. h = [T \in Small(S, n + 1) |-> h[T]]
    OBVIOUS
  <2>6. Solves(h, f, Small(S, n + 1))
    BY <2>4, <2>5 DEF Solves
  <2>7. QED
    BY <2>1, <2>6
<1>3. N = Nat
  BY <1>1, <1>2, SetInduction
<1>4. Cardinality(S) \in Nat
  BY FS_CardinalityType
<1>5. Small(S, Cardinality(S)) = SUBSET S
  <2>1. ASSUME NEW T \in SUBSET S PROVE Cardinality(T) <= Cardinality(S)
    BY FS_Subset
  <2>2. QED
    BY <2>1 DEF Small
<1>6. Cardinality(S) \in N
  BY <1>3, <1>4
<1>7. PICK g : Solves(g, f, Small(S, Cardinality(S)))
  BY <1>6
<1>8. QED
  BY <1>5, <1>7

LEMMA OneSolution ==
  ASSUME NEW S, IsFiniteSet(S), NEW T \in SUBSET S, NEW f, NEW g, NEW h,
         Solves(g, f, SUBSET S), Solves(h, f, SUBSET T)
  PROVE  \A U \in SUBSET T : g[U] = h[U]
<1> DEFINE N == {n \in Nat : \A U \in SUBSET T : Cardinality(U) <= n => g[U] = h[U]}
<1>0. \A U \in SUBSET T : IsFiniteSet(U) /\ Cardinality(U) \in Nat /\ U \in SUBSET S
  <2>1. \A U \in SUBSET T : U \in SUBSET S
    OBVIOUS
  <2>2. \A U \in SUBSET S : IsFiniteSet(U)
    BY FS_Subset
  <2>3. \A U \in SUBSET S : Cardinality(U) \in Nat
    BY <2>2, FS_CardinalityType
  <2>4. QED
    BY <2>1, <2>2, <2>3
<1>1. ASSUME NEW U \in SUBSET T
      PROVE  /\ g[U] = IF U = {} THEN 0 ELSE f[Chosen(U)] + g[U \ {Chosen(U)}]
             /\ h[U] = IF U = {} THEN 0 ELSE f[Chosen(U)] + h[U \ {Chosen(U)}]
  <2>1. U \in SUBSET S
    OBVIOUS
  <2>2. QED
    BY <2>1 DEF Solves
<1>2. 0 \in N
  <2>1. ASSUME NEW U \in SUBSET T, Cardinality(U) <= 0 PROVE g[U] = h[U]
    <3>1. Cardinality(U) = 0
      BY <1>0, <2>1
    <3>2. U = {}
      BY <1>0, <3>1, FS_EmptySet
    <3>3. QED
      BY <1>1, <3>2
  <2>2. QED
    BY <2>1
<1>3. ASSUME NEW n \in N PROVE n + 1 \in N
  <2>1. ASSUME NEW U \in SUBSET T, Cardinality(U) <= n + 1 PROVE g[U] = h[U]
    <3>1. CASE U = {}
      BY <1>1, <3>1
    <3>2. CASE U # {}
      <4>1. Cardinality(U \ {Chosen(U)}) = Cardinality(U) - 1
        BY <1>0, <3>2, ChosenIn, FS_RemoveElement
      <4>2. Cardinality(U \ {Chosen(U)}) <= n /\ U \ {Chosen(U)} \in SUBSET T
        BY <1>0, <2>1, <4>1
      <4>3. g[U \ {Chosen(U)}] = h[U \ {Chosen(U)}]
        BY <4>2
      <4>4. QED
        BY <1>1, <3>2, <4>3
    <3>3. QED
      BY <3>1, <3>2
  <2>2. QED
    BY <2>1
<1>4. N = Nat
  BY <1>2, <1>3, SetInduction
<1>5. ASSUME NEW U \in SUBSET T PROVE g[U] = h[U]
  <2>1. Cardinality(U) \in N /\ Cardinality(U) <= Cardinality(U)
    BY <1>0, <1>4
  <2>2. QED
    BY <2>1
<1>6. QED
  BY <1>5

-----------------------------------------------------------------------------
(***************************************************************************)
(* The sum over a set, by its first element.                               *)
(***************************************************************************)
LEMMA SumIsSolution ==
  ASSUME NEW S, IsFiniteSet(S), NEW f
  PROVE  \E g : Solves(g, f, SUBSET S) /\ SumFunctionOnSet(f, S) = g[S]
<1> DEFINE s == CHOOSE g : Solves(g, f, SUBSET S)
<1>1. Solves(s, f, SUBSET S)
  BY Solvable
<1>2. SumFunctionOnSet(f, S) = s[S]
  <2>1. SumFunctionOnSet(f, S)
          = (CHOOSE g : g = [T \in SUBSET S |->
                               IF T = {} THEN 0
                               ELSE LET x == CHOOSE y \in T : TRUE
                                    IN  f[x] + g[T \ {x}]])[S]
    BY DEF SumFunctionOnSet, FoldFunctionOnSet, MapThenFoldSet
  <2>2. s = CHOOSE g : g = [T \in SUBSET S |->
                               IF T = {} THEN 0
                               ELSE LET x == CHOOSE y \in T : TRUE
                                    IN  f[x] + g[T \ {x}]]
    BY DEF Solves, Chosen
  <2>3. QED
    BY <2>1, <2>2
<1>3. QED
  BY <1>1, <1>2

LEMMA SumEmpty == ASSUME NEW f PROVE SumFunctionOnSet(f, {}) = 0
<1>1. PICK g : Solves(g, f, SUBSET {}) /\ SumFunctionOnSet(f, {}) = g[{}]
  BY SumIsSolution, FS_EmptySet
<1>2. g[{}] = 0
  BY <1>1 DEF Solves
<1>3. QED
  BY <1>1, <1>2

LEMMA SumFirst ==
  ASSUME NEW S, IsFiniteSet(S), NEW f, S # {}
  PROVE  SumFunctionOnSet(f, S) = f[Chosen(S)] + SumFunctionOnSet(f, S \ {Chosen(S)})
<1> DEFINE T == S \ {Chosen(S)}
<1>1. PICK g : Solves(g, f, SUBSET S) /\ SumFunctionOnSet(f, S) = g[S]
  BY SumIsSolution
<1>2. IsFiniteSet(T)
  BY FS_Subset
<1>3. PICK h : Solves(h, f, SUBSET T) /\ SumFunctionOnSet(f, T) = h[T]
  BY <1>2, SumIsSolution
<1>4. g[T] = h[T]
  <2>1. Solves(g, f, SUBSET S) /\ Solves(h, f, SUBSET T) /\ T \in SUBSET S
    BY <1>1, <1>3
  <2> HIDE DEF T
  <2>2. \A U \in SUBSET T : g[U] = h[U]
    BY <2>1, OneSolution
  <2>3. QED
    BY <2>2
<1>5. g[S] = f[Chosen(S)] + g[T]
  BY <1>1 DEF Solves
<1>6. QED
  BY <1>1, <1>3, <1>4, <1>5

-----------------------------------------------------------------------------
(***************************************************************************)
(* Any element may come first.                                             *)
(***************************************************************************)
LEMMA SubsetsFinite ==
  ASSUME NEW S, IsFiniteSet(S), NEW T \in SUBSET S
  PROVE  IsFiniteSet(T) /\ Cardinality(T) \in Nat
BY FS_Subset, FS_CardinalityType

LEMMA OneLess ==
  ASSUME NEW T, IsFiniteSet(T), NEW n \in Nat, Cardinality(T) = n + 1, NEW x \in T
  PROVE  Cardinality(T \ {x}) = n
BY FS_RemoveElement

LEMMA SumInt ==
  ASSUME NEW S, IsFiniteSet(S), NEW f, \A x \in S : f[x] \in Int
  PROVE  SumFunctionOnSet(f, S) \in Int
<1> DEFINE N == {n \in Nat : \A T \in SUBSET S :
                   Cardinality(T) = n => SumFunctionOnSet(f, T) \in Int}
<1>1. 0 \in N
  <2>1. ASSUME NEW T \in SUBSET S, Cardinality(T) = 0
        PROVE  SumFunctionOnSet(f, T) \in Int
    <3>1. T = {}
      BY <2>1, SubsetsFinite, FS_EmptySet
    <3>2. QED
      BY <3>1, SumEmpty
  <2>2. QED
    BY <2>1
<1>2. ASSUME NEW n \in N PROVE n + 1 \in N
  <2>0. n \in Nat
    OBVIOUS
  <2>1. ASSUME NEW T \in SUBSET S, Cardinality(T) = n + 1
        PROVE  SumFunctionOnSet(f, T) \in Int
    <3>1. IsFiniteSet(T) /\ T # {} /\ Chosen(T) \in T
      BY <2>0, <2>1, SubsetsFinite, FS_EmptySet, ChosenIn
    <3>2. Cardinality(T \ {Chosen(T)}) = n /\ T \ {Chosen(T)} \in SUBSET S
      BY <2>0, <2>1, <3>1, OneLess
    <3>3. SumFunctionOnSet(f, T \ {Chosen(T)}) \in Int /\ f[Chosen(T)] \in Int
      BY <3>1, <3>2
    <3>4. SumFunctionOnSet(f, T) = f[Chosen(T)] + SumFunctionOnSet(f, T \ {Chosen(T)})
      BY <3>1, SumFirst
    <3>5. QED
      BY <3>3, <3>4
  <2>2. QED
    BY <2>0, <2>1
<1>3. N = Nat
  BY <1>1, <1>2, SetInduction
<1>4. Cardinality(S) \in N /\ S \in SUBSET S
  BY <1>3, FS_CardinalityType
<1>5. QED
  BY <1>4

LEMMA SumRemove ==
  ASSUME NEW S, IsFiniteSet(S), NEW f, \A x \in S : f[x] \in Int, NEW c \in S
  PROVE  SumFunctionOnSet(f, S) = f[c] + SumFunctionOnSet(f, S \ {c})
<1> DEFINE N == {n \in Nat : \A T \in SUBSET S : Cardinality(T) = n =>
                   \A d \in T : SumFunctionOnSet(f, T)
                                 = f[d] + SumFunctionOnSet(f, T \ {d})}
<1>1. 0 \in N
  BY SubsetsFinite, FS_EmptySet
<1>2. ASSUME NEW n \in N PROVE n + 1 \in N
  <2>0. n \in Nat
    OBVIOUS
  <2>1. ASSUME NEW T \in SUBSET S, Cardinality(T) = n + 1, NEW d \in T
        PROVE  SumFunctionOnSet(f, T) = f[d] + SumFunctionOnSet(f, T \ {d})
    <3> DEFINE e == Chosen(T)
    <3>1. IsFiniteSet(T) /\ T # {} /\ e \in T
      BY SubsetsFinite, ChosenIn
    <3>2. SumFunctionOnSet(f, T) = f[e] + SumFunctionOnSet(f, T \ {e})
      BY <3>1, SumFirst
    <3>3. CASE d = e
      BY <3>2, <3>3
    <3>4. CASE d # e
      <4> HIDE DEF e
      <4>1. /\ Cardinality(T \ {d}) = n /\ T \ {d} \in SUBSET S
            /\ Cardinality(T \ {e}) = n /\ T \ {e} \in SUBSET S
        BY <2>0, <2>1, <3>1, OneLess
      <4>2. SumFunctionOnSet(f, T \ {d}) = f[e] + SumFunctionOnSet(f, (T \ {d}) \ {e})
        BY <3>1, <3>4, <4>1
      <4>3. SumFunctionOnSet(f, T \ {e}) = f[d] + SumFunctionOnSet(f, (T \ {e}) \ {d})
        BY <3>4, <4>1
      <4>4. (T \ {d}) \ {e} = (T \ {e}) \ {d}
        OBVIOUS
      <4>5. SumFunctionOnSet(f, (T \ {e}) \ {d}) \in Int /\ f[d] \in Int /\ f[e] \in Int
        <5>1. (T \ {e}) \ {d} \in SUBSET S
          OBVIOUS
        <5>2. QED
          BY <3>1, <5>1, SumInt, SubsetsFinite
      <4>6. SumFunctionOnSet(f, T)
              = f[e] + (f[d] + SumFunctionOnSet(f, (T \ {e}) \ {d}))
        BY <3>2, <4>3
      <4>7. SumFunctionOnSet(f, T \ {d}) = f[e] + SumFunctionOnSet(f, (T \ {e}) \ {d})
        BY <4>2, <4>4
      <4> DEFINE a == f[e]
                 b == f[d]
                 r == SumFunctionOnSet(f, (T \ {e}) \ {d})
      <4>8. a + (b + r) = b + (a + r)
        <5>1. a \in Int /\ b \in Int /\ r \in Int
          BY <4>5
        <5> HIDE DEF a, b, r
        <5>2. QED
          BY <5>1
      <4>9. QED
        BY <4>6, <4>7, <4>8
    <3>5. QED
      BY <3>3, <3>4
  <2>2. QED
    BY <2>0, <2>1
<1>3. N = Nat
  BY <1>1, <1>2, SetInduction
<1>4. Cardinality(S) \in N /\ S \in SUBSET S
  BY <1>3, FS_CardinalityType
<1>5. QED
  BY <1>4

(* The sum with one more element. *)
LEMMA SumAdd ==
  ASSUME NEW S, IsFiniteSet(S), NEW c, c \notin S, NEW f,
         \A x \in S \cup {c} : f[x] \in Int
  PROVE  SumFunctionOnSet(f, S \cup {c}) = SumFunctionOnSet(f, S) + f[c]
<1>1. IsFiniteSet(S \cup {c}) /\ c \in S \cup {c} /\ (S \cup {c}) \ {c} = S
  BY FS_AddElement
<1>2. SumFunctionOnSet(f, S \cup {c}) = f[c] + SumFunctionOnSet(f, (S \cup {c}) \ {c})
  BY <1>1, SumRemove
<1>3. SumFunctionOnSet(f, S) \in Int /\ f[c] \in Int
  BY SumInt
<1>4. SumFunctionOnSet(f, S \cup {c}) = f[c] + SumFunctionOnSet(f, S)
  BY <1>1, <1>2
<1>5. QED
  BY <1>3, <1>4

(* Induction over the subsets of a finite set.                             *)
LEMMA SubsetInduction ==
  ASSUME NEW S, IsFiniteSet(S), NEW F \in SUBSET (SUBSET S), {} \in F,
         \A T \in F : \A x \in S \ T : T \cup {x} \in F
  PROVE  S \in F
<1> DEFINE N == {n \in Nat : \A T \in SUBSET S : Cardinality(T) = n => T \in F}
<1>1. 0 \in N
  <2>1. ASSUME NEW T \in SUBSET S, Cardinality(T) = 0 PROVE T \in F
    <3>1. T = {}
      BY <2>1, SubsetsFinite, FS_EmptySet
    <3>2. QED
      BY <3>1
  <2>2. QED
    BY <2>1
<1>2. ASSUME NEW n \in N PROVE n + 1 \in N
  <2>1. n \in Nat
    OBVIOUS
  <2>2. ASSUME NEW T \in SUBSET S, Cardinality(T) = n + 1 PROVE T \in F
    <3>1. IsFiniteSet(T) /\ T # {} /\ Chosen(T) \in T
      BY <2>1, <2>2, SubsetsFinite, FS_EmptySet, ChosenIn
    <3>2. Cardinality(T \ {Chosen(T)}) = n /\ T \ {Chosen(T)} \in SUBSET S
      BY <2>1, <2>2, <3>1, OneLess
    <3>3. T \ {Chosen(T)} \in F
      BY <3>2
    <3>4. Chosen(T) \in S \ (T \ {Chosen(T)}) /\ (T \ {Chosen(T)}) \cup {Chosen(T)} = T
      BY <3>1
    <3>5. (T \ {Chosen(T)}) \cup {Chosen(T)} \in F
      BY <3>3, <3>4
    <3>6. QED
      BY <3>4, <3>5
  <2>3. QED
    BY <2>1, <2>2
<1>3. N = Nat
  BY <1>1, <1>2, SetInduction
<1>4. Cardinality(S) \in N /\ S \in SUBSET S
  BY <1>3, FS_CardinalityType
<1>5. QED
  BY <1>4

-----------------------------------------------------------------------------
(***************************************************************************)
(* Sums of different functions.                                            *)
(***************************************************************************)
(* A function that is at each element the sum of two.                      *)
LEMMA SumPlus ==
  ASSUME NEW S, IsFiniteSet(S), NEW f, NEW g, NEW h,
         \A x \in S : f[x] \in Int /\ g[x] \in Int /\ h[x] = f[x] + g[x]
  PROVE  SumFunctionOnSet(h, S) = SumFunctionOnSet(f, S) + SumFunctionOnSet(g, S)
<1> DEFINE F == {T \in SUBSET S : SumFunctionOnSet(h, T)
                   = SumFunctionOnSet(f, T) + SumFunctionOnSet(g, T)}
<1>1. {} \in F
  BY SumEmpty
<1>2. ASSUME NEW T \in F, NEW x \in S \ T PROVE T \cup {x} \in F
  <2>1. IsFiniteSet(T) /\ T \in SUBSET S /\ T \cup {x} \in SUBSET S
    BY SubsetsFinite
  <2>2. \A y \in T \cup {x} : f[y] \in Int /\ g[y] \in Int /\ h[y] \in Int
    BY <2>1
  <2>3. /\ SumFunctionOnSet(f, T \cup {x}) = SumFunctionOnSet(f, T) + f[x]
        /\ SumFunctionOnSet(g, T \cup {x}) = SumFunctionOnSet(g, T) + g[x]
        /\ SumFunctionOnSet(h, T \cup {x}) = SumFunctionOnSet(h, T) + h[x]
    BY <2>1, <2>2, SumAdd
  <2>4. /\ SumFunctionOnSet(f, T) \in Int /\ SumFunctionOnSet(g, T) \in Int
        /\ SumFunctionOnSet(h, T) \in Int
    BY <2>1, <2>2, SumInt
  <2> DEFINE a == SumFunctionOnSet(f, T)
             b == SumFunctionOnSet(g, T)
  <2>5. SumFunctionOnSet(h, T) = a + b
    OBVIOUS
  <2>6. SumFunctionOnSet(h, T \cup {x}) = (a + b) + (f[x] + g[x])
    BY <2>3, <2>5
  <2>7. (a + b) + (f[x] + g[x]) = (a + f[x]) + (b + g[x])
    <3>1. a \in Int /\ b \in Int /\ f[x] \in Int /\ g[x] \in Int
      BY <2>2, <2>4
    <3> HIDE DEF a, b
    <3>2. QED
      BY <3>1
  <2>8. SumFunctionOnSet(h, T \cup {x})
          = SumFunctionOnSet(f, T \cup {x}) + SumFunctionOnSet(g, T \cup {x})
    BY <2>3, <2>6, <2>7
  <2>9. QED
    BY <2>1, <2>8
<1>3. S \in F
  <2>1. F \in SUBSET (SUBSET S)
    OBVIOUS
  <2> HIDE DEF F
  <2>2. QED
    BY <1>1, <1>2, <2>1, SubsetInduction
<1>4. QED
  BY <1>3

LEMMA SumZero ==
  ASSUME NEW S, IsFiniteSet(S), NEW f, \A x \in S : f[x] = 0
  PROVE  SumFunctionOnSet(f, S) = 0
<1> DEFINE s == SumFunctionOnSet(f, S)
<1>1. s = s + s
  BY SumPlus
<1>2. s \in Int
  BY SumInt
<1> HIDE DEF s
<1>3. s = 0
  BY <1>1, <1>2
<1>4. QED
  BY <1>3 DEF s

(* Only the values on the set count.                                       *)
LEMMA SumSame ==
  ASSUME NEW S, IsFiniteSet(S), NEW f, NEW g,
         \A x \in S : f[x] \in Int /\ g[x] = f[x]
  PROVE  SumFunctionOnSet(g, S) = SumFunctionOnSet(f, S)
<1> DEFINE z == [x \in S |-> 0]
<1>1. SumFunctionOnSet(z, S) = 0
  BY SumZero
<1>2. SumFunctionOnSet(g, S) = SumFunctionOnSet(f, S) + SumFunctionOnSet(z, S)
  <2>1. \A x \in S : f[x] \in Int /\ z[x] \in Int /\ g[x] = f[x] + z[x]
    OBVIOUS
  <2> HIDE DEF z
  <2>2. QED
    BY <2>1, SumPlus
<1>3. SumFunctionOnSet(f, S) \in Int
  BY SumInt
<1>4. QED
  BY <1>1, <1>2, <1>3

(* A change of one value.                                                  *)
LEMMA SumUpdate ==
  ASSUME NEW S, IsFiniteSet(S), NEW f, NEW g, NEW c \in S,
         \A x \in S : f[x] \in Int, g[c] \in Int,
         \A x \in S : x # c => g[x] = f[x]
  PROVE  SumFunctionOnSet(g, S) = SumFunctionOnSet(f, S) + (g[c] - f[c])
<1>1. IsFiniteSet(S \ {c})
  BY SubsetsFinite
<1>2. SumFunctionOnSet(g, S \ {c}) = SumFunctionOnSet(f, S \ {c})
  BY <1>1, SumSame
<1>3. \A x \in S : g[x] \in Int
  OBVIOUS
<1>4. SumFunctionOnSet(f, S) = f[c] + SumFunctionOnSet(f, S \ {c})
  BY SumRemove
<1>5. SumFunctionOnSet(g, S) = g[c] + SumFunctionOnSet(g, S \ {c})
  BY <1>3, SumRemove
<1>6. SumFunctionOnSet(f, S \ {c}) \in Int /\ f[c] \in Int
  BY <1>1, SumInt
<1>7. QED
  BY <1>2, <1>4, <1>5, <1>6

LEMMA SumNat ==
  ASSUME NEW S, IsFiniteSet(S), NEW f, \A x \in S : f[x] \in Nat
  PROVE  SumFunctionOnSet(f, S) \in Nat
<1> DEFINE F == {T \in SUBSET S : SumFunctionOnSet(f, T) \in Nat}
<1>1. {} \in F
  BY SumEmpty
<1>2. ASSUME NEW T \in F, NEW x \in S \ T PROVE T \cup {x} \in F
  <2>1. IsFiniteSet(T) /\ T \in SUBSET S /\ T \cup {x} \in SUBSET S
    BY SubsetsFinite
  <2>2. \A y \in T \cup {x} : f[y] \in Int
    BY <2>1
  <2>3. SumFunctionOnSet(f, T \cup {x}) = SumFunctionOnSet(f, T) + f[x]
    BY <2>1, <2>2, SumAdd
  <2>4. SumFunctionOnSet(f, T) \in Nat /\ f[x] \in Nat
    OBVIOUS
  <2>5. QED
    BY <2>1, <2>3, <2>4
<1>3. S \in F
  <2>1. F \in SUBSET (SUBSET S)
    OBVIOUS
  <2> HIDE DEF F
  <2>2. QED
    BY <1>1, <1>2, <2>1, SubsetInduction
<1>4. QED
  BY <1>3

-----------------------------------------------------------------------------
(***************************************************************************)
(* Sums of sequences, and of functions that hold them.                     *)
(***************************************************************************)
LEMMA UpTo ==
  ASSUME NEW n \in Nat
  PROVE  /\ IsFiniteSet(1 .. n) /\ n + 1 \notin 1 .. n
         /\ 1 .. (n + 1) = (1 .. n) \cup {n + 1}
<1>1. IsFiniteSet(1 .. n)
  BY FS_Interval
<1>2. 1 .. (n + 1) = (1 .. n) \cup {n + 1}
  OBVIOUS
<1>3. QED
  BY <1>1, <1>2

LEMMA SumUpTo ==
  ASSUME NEW f, NEW n \in Nat, \A i \in 1 .. (n + 1) : f[i] \in Int
  PROVE  /\ SumFunctionOnSet(f, 1 .. (n + 1)) = SumFunctionOnSet(f, 1 .. n) + f[n + 1]
         /\ SumFunctionOnSet(f, 1 .. n) \in Int
<1> DEFINE R == 1 .. n
           c == n + 1
<1>1. /\ IsFiniteSet(R) /\ c \notin R /\ 1 .. (n + 1) = R \cup {c}
      /\ \A i \in R \cup {c} : f[i] \in Int
  BY UpTo
<1> HIDE DEF R, c
<1>2. SumFunctionOnSet(f, R \cup {c}) = SumFunctionOnSet(f, R) + f[c]
  BY <1>1, SumAdd
<1>3. SumFunctionOnSet(f, R) \in Int
  BY <1>1, SumInt
<1>4. QED
  BY <1>1, <1>2, <1>3 DEF R, c

LEMMA SumSeqInt ==
  ASSUME NEW s \in Seq(Int) PROVE SumFunction(s) \in Int
<1>1. IsFiniteSet(1 .. Len(s)) /\ DOMAIN s = 1 .. Len(s)
  BY FS_Interval
<1>2. QED
  BY <1>1, SumInt DEF SumFunction

LEMMA SumSeqNat ==
  ASSUME NEW s \in Seq(Nat) PROVE SumFunction(s) \in Nat
<1>1. IsFiniteSet(1 .. Len(s)) /\ DOMAIN s = 1 .. Len(s)
  BY FS_Interval
<1>2. QED
  BY <1>1, SumNat DEF SumFunction

LEMMA SumSeqAppend ==
  ASSUME NEW s \in Seq(Int), NEW e \in Int
  PROVE  SumFunction(Append(s, e)) = SumFunction(s) + e
<1> DEFINE n == Len(s)
           t == Append(s, e)
<1>1. /\ n \in Nat /\ DOMAIN s = 1 .. n /\ DOMAIN t = 1 .. (n + 1)
      /\ t[n + 1] = e /\ \A i \in 1 .. n : t[i] = s[i] /\ s[i] \in Int
      /\ \A i \in 1 .. (n + 1) : t[i] \in Int
  OBVIOUS
<1> HIDE DEF n, t
<1>2. SumFunctionOnSet(t, 1 .. (n + 1)) = SumFunctionOnSet(t, 1 .. n) + t[n + 1]
  BY <1>1, SumUpTo
<1>3. SumFunctionOnSet(t, 1 .. n) = SumFunctionOnSet(s, 1 .. n)
  BY <1>1, UpTo, SumSame
<1>4. QED
  BY <1>1, <1>2, <1>3 DEF SumFunction, t

(* Without its first element: by induction over the length.                *)
LEMMA SumShift ==
  ASSUME NEW s, NEW t, NEW n \in Nat,
         \A i \in 1 .. (n + 1) : s[i] \in Int,
         \A i \in 1 .. n : t[i] = s[i + 1]
  PROVE  SumFunctionOnSet(s, 1 .. (n + 1)) = s[1] + SumFunctionOnSet(t, 1 .. n)
<1> DEFINE L(k) == SumFunctionOnSet(s, 1 .. (k + 1))
           R(k) == SumFunctionOnSet(t, 1 .. k)
           N == {k \in Nat : k <= n => L(k) = s[1] + R(k)}
<1>1. L(0) = s[1] + R(0)
  <2>1. 1 .. 0 = {} /\ 1 \in 1 .. (n + 1) /\ 1 .. (0 + 1) = 1 .. 1 /\ 0 + 1 = 1
    OBVIOUS
  <2>2. \A i \in 1 .. (0 + 1) : s[i] \in Int
    BY <2>1
  <2>3. SumFunctionOnSet(s, 1 .. (0 + 1)) = SumFunctionOnSet(s, 1 .. 0) + s[0 + 1]
    BY <2>2, 0 \in Nat, SumUpTo
  <2>4. SumFunctionOnSet(s, 1 .. 0) = 0 /\ SumFunctionOnSet(t, 1 .. 0) = 0
    BY <2>1, SumEmpty
  <2>5. s[1] \in Int
    BY <2>1
  <2>6. QED
    BY <2>1, <2>3, <2>4, <2>5
<1>2. ASSUME NEW k \in Nat, k + 1 <= n, L(k) = s[1] + R(k)
      PROVE  L(k + 1) = s[1] + R(k + 1)
  <2>1. /\ \A i \in 1 .. ((k + 1) + 1) : s[i] \in Int
        /\ \A i \in 1 .. (k + 1) : t[i] \in Int
        /\ t[k + 1] = s[(k + 1) + 1] /\ s[1] \in Int
    <3>1. \A i \in 1 .. (k + 1) : i \in 1 .. n /\ i + 1 \in 1 .. (n + 1)
      BY <1>2
    <3>2. \A i \in 1 .. ((k + 1) + 1) : i \in 1 .. (n + 1)
      BY <1>2
    <3>3. k + 1 \in 1 .. (k + 1) /\ 1 \in 1 .. ((k + 1) + 1)
      OBVIOUS
    <3>4. QED
      BY <3>1, <3>2, <3>3
  <2>2. L(k + 1) = L(k) + s[(k + 1) + 1]
    BY <2>1, k + 1 \in Nat, SumUpTo
  <2>3. R(k + 1) = R(k) + t[k + 1] /\ R(k) \in Int
    BY <2>1, SumUpTo
  <2>4. t[k + 1] \in Int
    BY <2>1
  <2> HIDE DEF L, R
  <2>5. L(k + 1) = (s[1] + R(k)) + t[k + 1]
    BY <1>2, <2>1, <2>2
  <2>6. QED
    BY <2>1, <2>3, <2>4, <2>5
<1> HIDE DEF L, R
<1>3. N = Nat
  <2>1. 0 \in N
    BY <1>1
  <2>2. ASSUME NEW k \in N PROVE k + 1 \in N
    <3>1. k \in Nat /\ (k + 1 <= n => k <= n)
      OBVIOUS
    <3>2. QED
      BY <1>2, <3>1
  <2>3. N \in SUBSET Nat
    OBVIOUS
  <2> HIDE DEF N
  <2>4. QED
    BY <2>1, <2>2, <2>3, SetInduction
<1>4. n \in N
  BY <1>3
<1>5. L(n) = s[1] + R(n)
  BY <1>4
<1>6. QED
  BY <1>5 DEF L, R

LEMMA SumSeqTail ==
  ASSUME NEW s \in Seq(Int), s # <<>>
  PROVE  SumFunction(s) = Head(s) + SumFunction(Tail(s))
<1> DEFINE n == Len(s) - 1
           t == Tail(s)
<1>1. /\ n \in Nat /\ DOMAIN s = 1 .. (n + 1) /\ DOMAIN t = 1 .. n
      /\ \A i \in 1 .. (n + 1) : s[i] \in Int
      /\ \A i \in 1 .. n : t[i] = s[i + 1]
      /\ Head(s) = s[1]
  OBVIOUS
<1> HIDE DEF n, t
<1>2. SumFunctionOnSet(s, 1 .. (n + 1)) = s[1] + SumFunctionOnSet(t, 1 .. n)
  BY <1>1, SumShift
<1>3. QED
  BY <1>1, <1>2 DEF SumFunction, t

=============================================================================

-------------------------------- MODULE Sums --------------------------------
(***************************************************************************)
(* What the proofs need of sums over finite sets: it does not matter which *)
(* element is added first; and of remainders.                              *)
(***************************************************************************)
EXTENDS Integers, Sequences, Functions, FiniteSetTheorems, WellFoundedInduction, TLAPS

\* What a fold over S adds up: b, and g of each element.
Total(b, g, S) ==
    MapThenFoldSet(+, b, LAMBDA k : g[k], LAMBDA T : CHOOSE k \in T : TRUE, S)

\* h is the function that a fold defines: it takes one element after the other, and step[T]
\* is what it does to the result so far when T is left.
First(T) == CHOOSE k \in T : TRUE
Gathers(h, b, step, S) ==
    h = [T \in SUBSET S |-> IF T = {} THEN b ELSE step[T][h[T \ {First(T)}]]]

\* For a sum, and for a sequence to which each element appends its own.
Adds(h, b, g, S) ==
    h = [T \in SUBSET S |-> IF T = {} THEN b ELSE g[First(T)] + h[T \ {First(T)}]]
Joins(h, g, S) ==
    h = [T \in SUBSET S |-> IF T = {} THEN <<>> ELSE h[T \ {First(T)}] \o g[First(T)]]

\* What holds for a subset if it holds for all that are smaller, holds for all of them.
LEMMA SubsetInduction ==
    ASSUME NEW S, IsFiniteSet(S), NEW P,
           \A T \in SUBSET S : (\A U \in SUBSET T : U # T => U \in P) => T \in P
    PROVE  SUBSET S \subseteq P
<1> DEFINE Bad == (SUBSET S) \ P
<1>1. IsWellFoundedOn(StrictSubsetOrdering(S), SUBSET S)
  <2>1. IsWellFoundedOn(StrictSubsetOrdering(S), FiniteSubsetsOf(S))
    BY FS_StrictSubsetOrderingWellFounded
  <2>2. FiniteSubsetsOf(S) = SUBSET S
    BY FS_FiniteSubsetsOfFinite
  <2> QED
    BY <2>1, <2>2
<1> SUFFICES ASSUME Bad # {} PROVE FALSE
  OBVIOUS
<1>2. PICK T \in Bad : \A U \in Bad : ~(<<U, T>> \in StrictSubsetOrdering(S))
  <2>1. Bad \subseteq SUBSET S
    OBVIOUS
  <2> HIDE DEF Bad
  <2> QED
    BY <1>1, <2>1, WFMin
<1>3. ASSUME NEW U \in SUBSET T, U # T PROVE U \in P
  <2>1. U \in SUBSET S /\ T \in SUBSET S
    OBVIOUS
  <2>2. <<U, T>> \in StrictSubsetOrdering(S)
    BY <1>3, <2>1 DEF StrictSubsetOrdering
  <2> QED
    BY <1>2, <2>1, <2>2
<1> QED
  BY <1>2, <1>3

LEMMA FirstIn ==
    ASSUME NEW T, T # {}
    PROVE  First(T) \in T /\ T \ {First(T)} \in SUBSET T /\ T \ {First(T)} # T
BY DEF First

LEMMA AddsAt ==
    ASSUME NEW b, NEW g, NEW S, NEW h, Adds(h, b, g, S)
    PROVE  \A T \in SUBSET S :
               h[T] = IF T = {} THEN b ELSE g[First(T)] + h[T \ {First(T)}]
<1>1. h = [U \in SUBSET S |-> IF U = {} THEN b ELSE g[First(U)] + h[U \ {First(U)}]]
  BY DEF Adds
<1> QED
  BY <1>1

Agree(g1, g2, S) == \A k \in S : g1[k] = g2[k]

\* Two such functions agree where both are defined.
LEMMA AddsAgree ==
    ASSUME NEW b, NEW g1, NEW g2, NEW S1, NEW S2, NEW S, IsFiniteSet(S),
           S \in SUBSET S1, S \in SUBSET S2,
           Agree(g1, g2, S),
           NEW h1, NEW h2, Adds(h1, b, g1, S1), Adds(h2, b, g2, S2)
    PROVE  h1[S] = h2[S]
<1>a. \A T \in SUBSET S1 :
          h1[T] = IF T = {} THEN b ELSE g1[First(T)] + h1[T \ {First(T)}]
  BY AddsAt
<1>b. \A T \in SUBSET S2 :
          h2[T] = IF T = {} THEN b ELSE g2[First(T)] + h2[T \ {First(T)}]
  BY AddsAt
<1> DEFINE Same == {T \in SUBSET S : h1[T] = h2[T]}
<1>1. ASSUME NEW T \in SUBSET S, \A U \in SUBSET T : U # T => U \in Same
      PROVE  T \in Same
  <2>1. T \in SUBSET S1 /\ T \in SUBSET S2
    OBVIOUS
  <2>2. CASE T = {}
    BY <2>1, <2>2, <1>a, <1>b
  <2>3. CASE T # {}
    <3>1. h1[T \ {First(T)}] = h2[T \ {First(T)}] /\ First(T) \in S
      BY <1>1, <2>3, FirstIn
    <3>2. h1[T] = g1[First(T)] + h1[T \ {First(T)}]
      BY <2>1, <2>3, <1>a
    <3>3. h2[T] = g2[First(T)] + h2[T \ {First(T)}]
      BY <2>1, <2>3, <1>b
    <3> QED
      BY <3>1, <3>2, <3>3 DEF Agree
  <2> QED
    BY <2>2, <2>3
<1> HIDE DEF Same
<1>2. SUBSET S \subseteq Same
  BY <1>1, SubsetInduction
<1> QED
  BY <1>2 DEF Same

LEMMA GathersAt ==
    ASSUME NEW b, NEW step, NEW S, NEW h, Gathers(h, b, step, S)
    PROVE  \A T \in SUBSET S : h[T] = IF T = {} THEN b ELSE step[T][h[T \ {First(T)}]]
<1>1. h = [U \in SUBSET S |-> IF U = {} THEN b ELSE step[U][h[U \ {First(U)}]]]
  BY DEF Gathers
<1> QED
  BY <1>1

\* Two such functions agree where both are defined.
LEMMA GathersAgree ==
    ASSUME NEW b, NEW step, NEW S1, NEW S2, NEW S, IsFiniteSet(S),
           S \in SUBSET S1, S \in SUBSET S2,
           NEW h1, NEW h2, Gathers(h1, b, step, S1), Gathers(h2, b, step, S2)
    PROVE  h1[S] = h2[S]
<1>a. \A T \in SUBSET S1 :
          h1[T] = IF T = {} THEN b ELSE step[T][h1[T \ {First(T)}]]
  <2>1. h1 = [U \in SUBSET S1 |-> IF U = {} THEN b ELSE step[U][h1[U \ {First(U)}]]]
    BY DEF Gathers
  <2> QED
    BY <2>1
<1>b. \A T \in SUBSET S2 :
          h2[T] = IF T = {} THEN b ELSE step[T][h2[T \ {First(T)}]]
  <2>1. h2 = [U \in SUBSET S2 |-> IF U = {} THEN b ELSE step[U][h2[U \ {First(U)}]]]
    BY DEF Gathers
  <2> QED
    BY <2>1
<1> DEFINE Same == {T \in SUBSET S : h1[T] = h2[T]}
<1>1. ASSUME NEW T \in SUBSET S, \A U \in SUBSET T : U # T => U \in Same
      PROVE  T \in Same
  <2>1. T \in SUBSET S1 /\ T \in SUBSET S2
    OBVIOUS
  <2>2. CASE T = {}
    BY <2>1, <2>2, <1>a, <1>b
  <2>3. CASE T # {}
    <3>1. h1[T \ {First(T)}] = h2[T \ {First(T)}]
      BY <1>1, <2>3, FirstIn
    <3>2. h1[T] = step[T][h1[T \ {First(T)}]]
      BY <2>1, <2>3, <1>a
    <3>3. h2[T] = step[T][h2[T \ {First(T)}]]
      BY <2>1, <2>3, <1>b
    <3> QED
      BY <3>1, <3>2, <3>3
  <2> QED
    BY <2>2, <2>3
<1> HIDE DEF Same
<1>2. SUBSET S \subseteq Same
  BY <1>1, SubsetInduction
<1> QED
  BY <1>2 DEF Same

\* And there is one.
LEMMA GathersExists ==
    ASSUME NEW b, NEW step, NEW S, IsFiniteSet(S)
    PROVE  \E h : Gathers(h, b, step, S)
<1> DEFINE Good == {T \in SUBSET S : \E h : Gathers(h, b, step, T)}
<1>1. ASSUME NEW T \in SUBSET S, \A U \in SUBSET T : U # T => U \in Good
      PROVE  T \in Good
  <2> DEFINE H(k) == CHOOSE h : Gathers(h, b, step, T \ {k})
             h == [U \in SUBSET T |->
                     IF U = {} THEN b
                     ELSE IF U = T THEN step[T][H(First(T))[T \ {First(T)}]]
                     ELSE H(CHOOSE k \in T : k \notin U)[U]]
  <2>1. ASSUME NEW k \in T PROVE Gathers(H(k), b, step, T \ {k})
    <3>1. T \ {k} \in Good
      BY <1>1
    <3>2. \E j : Gathers(j, b, step, T \ {k})
      BY <3>1
    <3> QED
      BY <3>2
  <2>2. IsFiniteSet(T)
    BY FS_Subset
  <2> HIDE DEF H
  <2>a. ASSUME NEW k \in T
        PROVE  \A U \in SUBSET (T \ {k}) :
                   H(k)[U] = IF U = {} THEN b ELSE step[U][H(k)[U \ {First(U)}]]
    <3> DEFINE hk == H(k)  Sk == T \ {k}
    <3>1. Gathers(hk, b, step, Sk)
      BY <2>1
    <3> HIDE DEF hk, Sk
    <3>2. \A U \in SUBSET Sk : hk[U] = IF U = {} THEN b ELSE step[U][hk[U \ {First(U)}]]
      BY <3>1, GathersAt
    <3> QED
      BY <3>2 DEF hk, Sk
  <2>3. ASSUME NEW k \in T, NEW U \in SUBSET (T \ {k})
        PROVE  h[U] = H(k)[U]
    <3>1. U \in SUBSET T /\ U # T
      OBVIOUS
    <3>2. CASE U = {}
      BY <2>a, <3>1, <3>2
    <3>3. CASE U # {}
      <4> DEFINE j == CHOOSE j \in T : j \notin U
      <4>1. j \in T /\ j \notin U
        OBVIOUS
      <4>2. h[U] = H(j)[U]
        BY <3>1, <3>3
      <4> HIDE DEF j
      <4>3. IsFiniteSet(U) /\ U \subseteq (T \ {j}) \cap (T \ {k})
        BY <2>2, <4>1, FS_Subset
      <4>4. Gathers(H(j), b, step, T \ {j}) /\ Gathers(H(k), b, step, T \ {k})
        BY <2>1, <4>1
      <4> DEFINE hj == H(j)  hk == H(k)  Sj == T \ {j}  Sk == T \ {k}
      <4>5. hj[U] = hk[U]
        <5>1. Gathers(hj, b, step, Sj) /\ Gathers(hk, b, step, Sk) /\ U \in SUBSET Sj /\ U \in SUBSET Sk
          BY <4>3, <4>4
        <5> HIDE DEF hj, hk, Sj, Sk
        <5> QED
          BY <4>3, <5>1, GathersAgree
      <4> QED
        BY <4>2, <4>5
    <3> QED
      BY <3>2, <3>3
  <2>4. ASSUME NEW U \in SUBSET T
        PROVE  h[U] = IF U = {} THEN b ELSE step[U][h[U \ {First(U)}]]
    <3>1. CASE U = {}
      BY <3>1
    <3>2. CASE U # {} /\ U = T
      <4>1. First(T) \in T /\ T \ {First(T)} \in SUBSET (T \ {First(T)})
        BY <3>2, FirstIn
      <4>2. h[T \ {First(T)}] = H(First(T))[T \ {First(T)}]
        BY <4>1, <2>3
      <4>3. h[T] = step[T][H(First(T))[T \ {First(T)}]]
        BY <3>2
      <4> HIDE DEF h
      <4> QED
        BY <3>2, <4>2, <4>3
    <3>3. CASE U # {} /\ U # T
      <4>1. PICK k \in T : k \notin U
        BY <3>3
      <4>2. /\ U \in SUBSET (T \ {k}) /\ First(U) \in U
            /\ U \ {First(U)} \in SUBSET (T \ {k})
        BY <3>3, <4>1, FirstIn
      <4>3. h[U] = H(k)[U] /\ h[U \ {First(U)}] = H(k)[U \ {First(U)}]
        BY <2>3, <4>2
      <4>4. H(k)[U] = step[U][H(k)[U \ {First(U)}]]
        BY <2>a, <3>3, <4>2
      <4> HIDE DEF h
      <4> QED
        BY <3>3, <4>3, <4>4
    <3> QED
      BY <3>1, <3>2, <3>3
  <2>5. h = [U \in SUBSET T |-> h[U]]
    OBVIOUS
  <2> HIDE DEF h
  <2>6. Gathers(h, b, step, T)
    BY <2>4, <2>5 DEF Gathers
  <2> QED
    BY <2>6
<1> HIDE DEF Good
<1>2. SUBSET S \subseteq Good
  BY <1>1, SubsetInduction
<1> QED
  BY <1>2 DEF Good

\* So there is one that adds up numbers,
LEMMA AddsExists ==
    ASSUME NEW b \in Nat, NEW g, NEW S, IsFiniteSet(S), \A k \in S : g[k] \in Nat
    PROVE  \E h : Adds(h, b, g, S)
<1> DEFINE step == [T \in SUBSET S |-> [n \in Nat |-> g[First(T)] + n]]
<1>1. PICK h : Gathers(h, b, step, S)
  BY GathersExists
<1>2. \A T \in SUBSET S : h[T] = IF T = {} THEN b ELSE step[T][h[T \ {First(T)}]]
  <2> HIDE DEF step
  <2> QED
    BY <1>1, GathersAt
<1>3. \A T \in SUBSET S : T # {} => /\ First(T) \in S /\ T \ {First(T)} \in SUBSET S
                                   /\ \A n \in Nat : step[T][n] = g[First(T)] + n
  BY FirstIn
<1> DEFINE Good == {T \in SUBSET S : h[T] \in Nat}
<1>4. ASSUME NEW T \in SUBSET S, \A U \in SUBSET T : U # T => U \in Good PROVE T \in Good
  <2>1. CASE T = {}
    BY <1>2, <2>1
  <2>2. CASE T # {}
    <3>1. h[T \ {First(T)}] \in Nat /\ g[First(T)] \in Nat
      BY <1>3, <1>4, <2>2, FirstIn
    <3>2. h[T] = g[First(T)] + h[T \ {First(T)}]
      BY <1>2, <1>3, <2>2, <3>1
    <3> QED
      BY <3>1, <3>2
  <2> QED
    BY <2>1, <2>2
<1> HIDE DEF Good
<1>5. SUBSET S \subseteq Good
  BY <1>4, SubsetInduction
<1>6. h = [T \in SUBSET S |-> h[T]]
  BY <1>1 DEF Gathers
<1>7. \A T \in SUBSET S : h[T] = IF T = {} THEN b ELSE g[First(T)] + h[T \ {First(T)}]
  BY <1>2, <1>3, <1>5 DEF Good
<1> HIDE DEF step
<1> QED
  BY <1>6, <1>7 DEF Adds

\* and one that joins sequences.
LEMMA JoinsExists ==
    ASSUME NEW Y, NEW g, NEW S, IsFiniteSet(S), \A k \in S : g[k] \in Seq(Y)
    PROVE  \E h : Joins(h, g, S)
<1> DEFINE b == <<>>  step == [T \in SUBSET S |-> [s \in Seq(Y) |-> s \o g[First(T)]]]
<1>1. PICK h : Gathers(h, b, step, S)
  BY GathersExists
<1>2. \A T \in SUBSET S : h[T] = IF T = {} THEN b ELSE step[T][h[T \ {First(T)}]]
  <2> HIDE DEF step, b
  <2> QED
    BY <1>1, GathersAt
<1>3. \A T \in SUBSET S : T # {} => /\ First(T) \in S /\ T \ {First(T)} \in SUBSET S
                                   /\ \A s \in Seq(Y) : step[T][s] = s \o g[First(T)]
  BY FirstIn
<1> DEFINE Good == {T \in SUBSET S : h[T] \in Seq(Y)}
<1>4. ASSUME NEW T \in SUBSET S, \A U \in SUBSET T : U # T => U \in Good PROVE T \in Good
  <2>1. CASE T = {}
    <3>1. h[T] = b
      BY <1>2, <2>1
    <3>2. <<>> \in Seq(Y)
      OBVIOUS
    <3> QED
      BY <3>1, <3>2
  <2>2. CASE T # {}
    <3>1. h[T \ {First(T)}] \in Seq(Y) /\ g[First(T)] \in Seq(Y)
      BY <1>3, <1>4, <2>2, FirstIn
    <3>2. h[T] = h[T \ {First(T)}] \o g[First(T)]
      BY <1>2, <1>3, <2>2, <3>1
    <3> HIDE DEF step
    <3>3. h[T] \in Seq(Y)
      BY <3>1, <3>2
    <3> QED
      BY <3>3
  <2> QED
    BY <2>1, <2>2
<1> HIDE DEF Good
<1>5. SUBSET S \subseteq Good
  BY <1>4, SubsetInduction
<1>6. h = [T \in SUBSET S |-> h[T]]
  BY <1>1 DEF Gathers
<1>7. \A T \in SUBSET S : h[T] = IF T = {} THEN <<>> ELSE h[T \ {First(T)}] \o g[First(T)]
  BY <1>2, <1>3, <1>5 DEF Good
<1> HIDE DEF step
<1> QED
  BY <1>6, <1>7 DEF Joins

LEMMA JoinsFit ==
    ASSUME NEW Y, NEW g, NEW S, IsFiniteSet(S), \A k \in S : g[k] \in Seq(Y),
           NEW h, Joins(h, g, S)
    PROVE  h[S] \in Seq(Y)
<1>1. h = [T \in SUBSET S |-> IF T = {} THEN <<>> ELSE h[T \ {First(T)}] \o g[First(T)]]
  BY DEF Joins
<1>2. \A T \in SUBSET S : h[T] = IF T = {} THEN <<>> ELSE h[T \ {First(T)}] \o g[First(T)]
  BY <1>1
<1> DEFINE Good == {T \in SUBSET S : h[T] \in Seq(Y)}
<1>3. ASSUME NEW T \in SUBSET S, \A U \in SUBSET T : U # T => U \in Good PROVE T \in Good
  <2>1. CASE T = {}
    <3>1. h[T] = <<>>
      BY <1>2, <2>1
    <3>2. <<>> \in Seq(Y)
      OBVIOUS
    <3> QED
      BY <3>1, <3>2
  <2>2. CASE T # {}
    <3>1. h[T \ {First(T)}] \in Seq(Y) /\ g[First(T)] \in Seq(Y)
      BY <1>3, <2>2, FirstIn
    <3>2. h[T] = h[T \ {First(T)}] \o g[First(T)]
      BY <1>2, <2>2
    <3>3. h[T] \in Seq(Y)
      BY <3>1, <3>2
    <3> QED
      BY <3>3
  <2> QED
    BY <2>1, <2>2
<1> HIDE DEF Good
<1>4. SUBSET S \subseteq Good
  BY <1>3, SubsetInduction
<1>5. S \in Good
  BY <1>4
<1> QED
  BY <1>5 DEF Good

\* What the fold gives is what such a function gives.
LEMMA TotalIs ==
    ASSUME NEW b \in Nat, NEW g, NEW S, IsFiniteSet(S), \A k \in S : g[k] \in Nat
    PROVE  \E h : Adds(h, b, g, S) /\ Total(b, g, S) = h[S]
<1> DEFINE it == CHOOSE h : h = [T \in SUBSET S |-> IF T = {} THEN b
                            ELSE g[CHOOSE k \in T : TRUE] + h[T \ {CHOOSE k \in T : TRUE}]]
<1>1. Total(b, g, S) = it[S]
  BY DEF Total, MapThenFoldSet
<1>2. Adds(it, b, g, S)
  <2>1. \E h : Adds(h, b, g, S)
    BY AddsExists
  <2> QED
    BY <2>1 DEF Adds, First
<1> QED
  BY <1>1, <1>2

LEMMA TotalEmpty == \A b \in Nat : \A g : Total(b, g, {}) = b
<1> SUFFICES ASSUME NEW b \in Nat, NEW g PROVE Total(b, g, {}) = b
  OBVIOUS
<1>1. PICK h : Adds(h, b, g, {}) /\ Total(b, g, {}) = h[{}]
  BY TotalIs, FS_EmptySet
<1>2. \A T \in SUBSET {} : h[T] = IF T = {} THEN b ELSE g[First(T)] + h[T \ {First(T)}]
  BY <1>1, AddsAt
<1> QED
  BY <1>1, <1>2

LEMMA TotalSame ==
    ASSUME NEW b \in Nat, NEW g1, NEW g2, NEW S, IsFiniteSet(S), Agree(g1, g2, S),
           \A k \in S : g1[k] \in Nat
    PROVE  Total(b, g1, S) = Total(b, g2, S)
<1>1. PICK h1 : Adds(h1, b, g1, S) /\ Total(b, g1, S) = h1[S]
  BY TotalIs
<1>2. PICK h2 : Adds(h2, b, g2, S) /\ Total(b, g2, S) = h2[S]
  BY TotalIs DEF Agree
<1>3. h1[S] = h2[S]
  BY <1>1, <1>2, AddsAgree
<1> QED
  BY <1>1, <1>2, <1>3

\* It does not matter which element is taken first, and b is added once.
LEMMA AddsAny ==
    ASSUME NEW b \in Nat, NEW g, NEW S, IsFiniteSet(S), \A k \in S : g[k] \in Nat,
           NEW h, Adds(h, b, g, S)
    PROVE  \A T \in SUBSET S : h[T] \in Nat /\ \A k \in T : h[T] = g[k] + h[T \ {k}]
<1>a. \A T \in SUBSET S : h[T] = IF T = {} THEN b ELSE g[First(T)] + h[T \ {First(T)}]
  BY AddsAt
<1> DEFINE Good == {T \in SUBSET S : h[T] \in Nat /\ \A k \in T : h[T] = g[k] + h[T \ {k}]}
<1>1. ASSUME NEW T \in SUBSET S, \A U \in SUBSET T : U # T => U \in Good
      PROVE  T \in Good
  <2>1. CASE T = {}
    BY <2>1, <1>a
  <2>2. CASE T # {}
    <3> DEFINE c == First(T)
    <3>1. c \in T /\ h[T] = g[c] + h[T \ {c}]
      BY <2>2, FirstIn, <1>a
    <3> HIDE DEF c
    <3>2. \A k \in T : T \ {k} \in Good /\ T \ {k} \in SUBSET S
      BY <1>1
    <3>3. \A k \in T : h[T \ {k}] \in Nat /\ g[k] \in Nat
      BY <3>2
    <3>4. h[T] \in Nat
      BY <3>1, <3>3
    <3>5. ASSUME NEW k \in T PROVE h[T] = g[k] + h[T \ {k}]
      <4>1. CASE k = c
        BY <4>1, <3>1
      <4>2. CASE k # c
        <5>1. h[T \ {c}] = g[k] + h[(T \ {c}) \ {k}]
          BY <3>1, <3>2, <4>2
        <5>2. h[T \ {k}] = g[c] + h[(T \ {k}) \ {c}]
          BY <3>1, <3>2, <4>2
        <5>3. (T \ {c}) \ {k} = (T \ {k}) \ {c} /\ (T \ {c}) \ {k} \in SUBSET T
              /\ (T \ {c}) \ {k} # T
          BY <3>1
        <5>4. h[(T \ {c}) \ {k}] \in Nat
          BY <1>1, <5>3
        <5>5. h[T] = g[c] + (g[k] + h[(T \ {c}) \ {k}])
          BY <3>1, <5>1
        <5>6. h[T \ {k}] = g[c] + h[(T \ {c}) \ {k}]
          BY <5>2, <5>3
        <5> DEFINE u == g[c]  v == g[k]  w == h[(T \ {c}) \ {k}]
        <5>7. u \in Nat /\ v \in Nat /\ w \in Nat
          BY <3>1, <3>3, <5>4
        <5> HIDE DEF u, v, w
        <5>8. u + (v + w) = v + (u + w)
          BY <5>7
        <5> QED
          BY <5>5, <5>6, <5>8 DEF u, v, w
      <4> QED
        BY <4>1, <4>2
    <3> QED
      BY <3>4, <3>5
  <2> QED
    BY <2>1, <2>2
<1> HIDE DEF Good
<1>2. SUBSET S \subseteq Good
  BY <1>1, SubsetInduction
<1> QED
  BY <1>2 DEF Good

LEMMA TotalNat ==
    ASSUME NEW b \in Nat, NEW g, NEW S, IsFiniteSet(S), \A k \in S : g[k] \in Nat
    PROVE  Total(b, g, S) \in Nat
<1>1. PICK h : Adds(h, b, g, S) /\ Total(b, g, S) = h[S]
  BY TotalIs
<1> QED
  BY <1>1, AddsAny

LEMMA TotalRemove ==
    ASSUME NEW b \in Nat, NEW g, NEW S, IsFiniteSet(S), \A j \in S : g[j] \in Nat, NEW k \in S
    PROVE  Total(b, g, S) = g[k] + Total(b, g, S \ {k})
<1>1. PICK h : Adds(h, b, g, S) /\ Total(b, g, S) = h[S]
  BY TotalIs
<1>2. IsFiniteSet(S \ {k})
  BY FS_Subset
<1>3. PICK i : Adds(i, b, g, S \ {k}) /\ Total(b, g, S \ {k}) = i[S \ {k}]
  BY <1>2, TotalIs
<1>4. i[S \ {k}] = h[S \ {k}]
  <2> DEFINE U == S \ {k}
  <2>1. /\ IsFiniteSet(U) /\ U \in SUBSET U /\ U \in SUBSET S /\ Agree(g, g, U)
        /\ Adds(h, b, g, S) /\ Adds(i, b, g, U)
    BY <1>1, <1>2, <1>3 DEF Agree
  <2> HIDE DEF U
  <2>2. i[U] = h[U]
    BY <2>1, AddsAgree
  <2> QED
    BY <2>2 DEF U
<1>5. h[S] = g[k] + h[S \ {k}]
  BY <1>1, AddsAny
<1> QED
  BY <1>1, <1>3, <1>4, <1>5

LEMMA TotalBase ==
    ASSUME NEW b \in Nat, NEW d \in Nat, NEW g, NEW S, IsFiniteSet(S), \A j \in S : g[j] \in Nat
    PROVE  Total(b + d, g, S) = d + Total(b, g, S)
<1>1. PICK h : Adds(h, b, g, S) /\ Total(b, g, S) = h[S]
  BY TotalIs
<1>2. PICK i : Adds(i, b + d, g, S) /\ Total(b + d, g, S) = i[S]
  BY TotalIs
<1>a. \A T \in SUBSET S : h[T] = IF T = {} THEN b ELSE g[First(T)] + h[T \ {First(T)}]
  BY <1>1, AddsAt
<1>b. \A T \in SUBSET S : i[T] = IF T = {} THEN b + d ELSE g[First(T)] + i[T \ {First(T)}]
  <2>1. Adds(i, b + d, g, S)
    BY <1>2
  <2> QED
    BY <2>1, AddsAt
<1>c. \A T \in SUBSET S : h[T] \in Nat
  BY <1>1, AddsAny
<1> DEFINE Good == {T \in SUBSET S : i[T] = d + h[T]}
<1>3. ASSUME NEW T \in SUBSET S, \A U \in SUBSET T : U # T => U \in Good
      PROVE  T \in Good
  <2>1. CASE T = {}
    <3>1. i[T] = b + d /\ h[T] = b
      BY <1>a, <1>b, <2>1
    <3> QED
      BY <3>1
  <2>2. CASE T # {}
    <3> DEFINE c == First(T)
    <3>1. /\ c \in T /\ h[T] = g[c] + h[T \ {c}] /\ i[T] = g[c] + i[T \ {c}]
          /\ T \ {c} \in SUBSET T /\ T \ {c} # T
      BY <1>a, <1>b, <2>2, FirstIn
    <3> HIDE DEF c
    <3>2. i[T \ {c}] = d + h[T \ {c}]
      BY <1>3, <3>1
    <3>3. h[T \ {c}] \in Nat /\ g[c] \in Nat
      BY <1>c, <3>1
    <3> QED
      BY <3>1, <3>2, <3>3
  <2> QED
    BY <2>1, <2>2
<1> HIDE DEF Good
<1>4. SUBSET S \subseteq Good
  BY <1>3, SubsetInduction
<1> QED
  BY <1>1, <1>2, <1>4 DEF Good

LEMMA TotalMore ==
    ASSUME NEW b \in Nat, NEW g, NEW S, IsFiniteSet(S), \A j \in S : g[j] \in Nat
    PROVE  Total(b + 1, g, S) = Total(b, g, S) + 1
<1>1. Total(b, g, S) \in Nat
  BY TotalNat
<1>2. Total(b + 1, g, S) = 1 + Total(b, g, S)
  <2> DEFINE d == 1
  <2>1. d \in Nat
    OBVIOUS
  <2> HIDE DEF d
  <2>2. Total(b + d, g, S) = d + Total(b, g, S)
    BY <2>1, TotalBase
  <2> QED
    BY <2>2 DEF d
<1> QED
  BY <1>1, <1>2

\* It is the same whether an element is added up or taken for b.
LEMMA TotalTaken ==
    ASSUME NEW g, NEW S, IsFiniteSet(S), \A j \in S : g[j] \in Nat, NEW k \in S
    PROVE  Total(g[k], g, S \ {k}) = Total(0, g, S)
<1> DEFINE b == 0  d == g[k]  R == S \ {k}
<1>1. b \in Nat /\ d \in Nat /\ IsFiniteSet(R) /\ \A j \in R : g[j] \in Nat
  BY FS_Subset
<1>2. Total(b, g, S) = g[k] + Total(b, g, S \ {k})
  BY TotalRemove
<1>3. Total(b + d, g, R) = d + Total(b, g, R)
  <2> HIDE DEF b, d, R
  <2> QED
    BY <1>1, TotalBase
<1>4. b + d = g[k]
  BY <1>1
<1> QED
  BY <1>2, <1>3, <1>4

\* One element changes, and the sum by as much.
LEMMA TotalChanges ==
    ASSUME NEW S, IsFiniteSet(S), NEW k \in S, NEW g \in [S -> Nat], NEW n \in Nat
    PROVE  /\ Total(0, g, S) \in Nat
           /\ Total(0, [g EXCEPT ![k] = n], S) = Total(0, g, S) - g[k] + n
<1> DEFINE h == [g EXCEPT ![k] = n]
<1>1. h \in [S -> Nat] /\ h[k] = n /\ Agree(h, g, S \ {k}) /\ IsFiniteSet(S \ {k})
  BY FS_Subset DEF Agree
<1> HIDE DEF h
<1>2. Total(0, g, S) = g[k] + Total(0, g, S \ {k}) /\ Total(0, h, S) = n + Total(0, h, S \ {k})
  BY <1>1, TotalRemove
<1>3. Total(0, h, S \ {k}) = Total(0, g, S \ {k})
  BY <1>1, TotalSame
<1>4. Total(0, g, S \ {k}) \in Nat /\ Total(0, g, S) \in Nat
  BY <1>1, TotalNat
<1> QED
  BY <1>2, <1>3, <1>4 DEF h

\* The folds of the modules.
LEMMA TotalFolds ==
    ASSUME NEW g, NEW S
    PROVE  FoldFunctionOnSet(+, 0, g, S) = Total(0, g, S)
BY DEF FoldFunctionOnSet, Total

LEMMA TotalZero ==
    ASSUME NEW S, IsFiniteSet(S), NEW g, \A k \in S : g[k] = 0
    PROVE  Total(0, g, S) = 0
<1> DEFINE Good == {T \in SUBSET S : Total(0, g, T) = 0}
<1>1. ASSUME NEW T \in SUBSET S, \A U \in SUBSET T : U # T => U \in Good PROVE T \in Good
  <2>1. IsFiniteSet(T) /\ \A k \in T : g[k] = 0
    BY FS_Subset
  <2>2. CASE T = {}
    BY <2>2, TotalEmpty
  <2>3. CASE T # {}
    <3>1. PICK k \in T : TRUE
      BY <2>3
    <3>2. Total(0, g, T) = g[k] + Total(0, g, T \ {k})
      BY <2>1, TotalRemove
    <3>3. T \ {k} \in Good
      BY <1>1, <3>1
    <3> QED
      BY <2>1, <3>2, <3>3
  <2> QED
    BY <2>2, <2>3
<1> HIDE DEF Good
<1>2. SUBSET S \subseteq Good
  BY <1>1, SubsetInduction
<1>3. S \in Good
  BY <1>2
<1> QED
  BY <1>3 DEF Good

\* Elements that are all alike.
LEMMA TotalLevel ==
    ASSUME NEW S, IsFiniteSet(S), NEW n \in Nat, NEW g, \A k \in S : g[k] = n
    PROVE  Total(0, g, S) = n * Cardinality(S)
<1> DEFINE Good == {T \in SUBSET S : Total(0, g, T) = n * Cardinality(T)}
<1>1. ASSUME NEW T \in SUBSET S, \A U \in SUBSET T : U # T => U \in Good PROVE T \in Good
  <2>1. IsFiniteSet(T) /\ (\A k \in T : g[k] = n) /\ \A k \in T : g[k] \in Nat
    BY FS_Subset
  <2>2. CASE T = {}
    <3>1. Cardinality({}) = 0
      BY FS_EmptySet
    <3>2. Total(0, g, {}) = 0
      BY TotalEmpty
    <3> QED
      BY <2>2, <3>1, <3>2
  <2>3. CASE T # {}
    <3>1. PICK k \in T : TRUE
      BY <2>3
    <3>2. Total(0, g, T) = g[k] + Total(0, g, T \ {k})
      BY <2>1, TotalRemove
    <3>3. T \ {k} \in Good
      BY <1>1, <3>1
    <3>4. IsFiniteSet(T \ {k}) /\ Cardinality(T \ {k}) = Cardinality(T) - 1 /\ Cardinality(T) \in Nat
      BY <2>1, <3>1, FS_RemoveElement, FS_CardinalityType
    <3>5. Total(0, g, T \ {k}) = n * (Cardinality(T) - 1)
      BY <3>3, <3>4
    <3>6. \A c \in Nat : n + n * (c - 1) = n * c
      OBVIOUS
    <3> QED
      BY <2>1, <3>2, <3>4, <3>5, <3>6
  <2> QED
    BY <2>2, <2>3
<1> HIDE DEF Good
<1>2. SUBSET S \subseteq Good
  BY <1>1, SubsetInduction
<1>3. S \in Good
  BY <1>2
<1> QED
  BY <1>3 DEF Good

\* A function that differs in one element, in two that make up for each other, or elsewhere only.
LEMMA TotalBecomes ==
    ASSUME NEW S, IsFiniteSet(S), NEW g \in [S -> Nat], NEW k \in S, NEW h \in [S -> Nat], 
           \A j \in S \ {k} : h[j] = g[j]
    PROVE  Total(0, h, S) = Total(0, g, S) - g[k] + h[k] /\ Total(0, g, S) \in Nat
<1>1. IsFiniteSet(S \ {k}) /\ Agree(h, g, S \ {k}) /\ \A j \in S : h[j] \in Nat /\ g[j] \in Nat
  BY FS_Subset DEF Agree
<1>2. Total(0, g, S) = g[k] + Total(0, g, S \ {k})
  BY <1>1, TotalRemove
<1>3. Total(0, h, S) = h[k] + Total(0, h, S \ {k})
  BY <1>1, TotalRemove
<1>4. Total(0, h, S \ {k}) = Total(0, g, S \ {k})
  BY <1>1, TotalSame
<1>5. Total(0, g, S \ {k}) \in Nat /\ Total(0, g, S) \in Nat
  BY <1>1, TotalNat
<1> QED
  BY <1>1, <1>2, <1>3, <1>4, <1>5

LEMMA TotalMoves ==
    ASSUME NEW S, IsFiniteSet(S), NEW r \in [S -> Nat], NEW v \in [S -> Nat], NEW i \in S, NEW j \in S, i # j,
           v[i] = r[i] + 1, v[j] = r[j] - 1, \A k \in S \ {i, j} : v[k] = r[k]
    PROVE  Total(0, v, S) = Total(0, r, S)
<1>4. PICK u : u = [r EXCEPT ![i] = v[i]]
  OBVIOUS
<1>5. u \in [S -> Nat] /\ u[j] = r[j] /\ u[i] = v[i] /\ (\A k \in S \ {i} : u[k] = r[k]) /\ (\A k \in S \ {j} : v[k] = u[k])
  BY <1>4
<1>6. Total(0, u, S) = Total(0, r, S) - r[i] + u[i] /\ Total(0, r, S) \in Nat
  BY <1>5, TotalBecomes
<1>7. Total(0, v, S) = Total(0, u, S) - u[j] + v[j]
  BY <1>5, TotalBecomes
<1> QED
  BY <1>5, <1>6, <1>7

LEMMA TotalWithin ==
    ASSUME NEW S, IsFiniteSet(S), NEW g, \A k \in S : g[k] \in Nat, NEW r, r = [k \in S |-> g[k]]
    PROVE  Total(0, g, S) = Total(0, r, S)
<1>1. Agree(g, r, S)
  BY DEF Agree
<1>2. \A b \in Nat : Total(b, g, S) = Total(b, r, S)
  BY <1>1, TotalSame
<1> QED
  BY <1>2

-----------------------------------------------------------------------------
(* Remainders.                                                             *)

LEMMA Division ==
    ASSUME NEW b \in Nat \ {0}, NEW x \in Nat
    PROVE  /\ x \div b \in Nat /\ (x % b) \in 0 .. b - 1
           /\ x = b * (x \div b) + (x % b)
  OBVIOUS

LEMMA Multiple ==
    ASSUME NEW b \in Nat \ {0}, NEW p \in Nat, NEW q \in Nat, p > q
    PROVE  b * p >= b * q + b
<1>1. PICK d \in Nat : p = q + 1 + d
  <2> WITNESS p - q - 1 \in Nat
  <2> QED OBVIOUS
<1>2. b * p = b * q + b + b * d
  BY <1>1
<1>3. b * d \in Nat /\ b * q \in Nat
  OBVIOUS
<1> QED BY <1>2, <1>3

LEMMA NearMultiples ==
    ASSUME NEW b \in Nat \ {0}, NEW p \in Nat, NEW q \in Nat, NEW r \in Int, NEW s \in Int,
           r - s < b, s - r < b, b * p + r = b * q + s
    PROVE  p = q /\ r = s
<1>1. b * p \in Nat /\ b * q \in Nat
  OBVIOUS
<1>2. ~(p > q)
  BY Multiple, <1>1
<1>3. ~(q > p)
  BY Multiple, <1>1
<1>4. p = q
  BY <1>2, <1>3
<1> QED BY <1>4, <1>1

\* Two numbers that are near to each other and have the same remainder are the same.
LEMMA ModUnique ==
    ASSUME NEW b \in Nat \ {0}, NEW x \in Nat, NEW y \in Nat,
           x - y < b, y - x < b, (x % b) = (y % b)
    PROVE  x = y
<1> DEFINE p == x \div b
           q == y \div b
           r == x % b
<1>1. p \in Nat /\ q \in Nat /\ r \in Nat /\ x = b * p + r /\ y = b * q + r
  <2>1. p \in Nat /\ r \in 0 .. b - 1 /\ x = b * p + r
    BY Division
  <2>2. q \in Nat /\ y = b * q + (y % b)
    BY Division
  <2> QED BY <2>1, <2>2
<1> HIDE DEF p, q, r
<1>2. b * p \in Nat /\ b * q \in Nat
  BY <1>1
<1>3. b * p + (y - x) = b * q + 0
  BY <1>1, <1>2
<1>4. y - x = 0
  BY <1>1, <1>3, NearMultiples
<1> QED BY <1>4
=============================================================================

-------------------------- MODULE TextEditsProofs --------------------------
(***************************************************************************)
(* Theorems about TextEdits, for texts of any length and answers of up to  *)
(* twelve edits: a command asks about the place that is selected, offsets  *)
(* come back from their positions, and what a command leaves in the window *)
(* is the document that the server means.                                  *)
(*                                                                         *)
(* What a recursive definition computes is shown by induction over a set   *)
(* of numbers (Induction, Recursion).  The second theorem rests on an      *)
(* invariant of the edits one by one: the part of the text below the edits *)
(* that are left is as it was read, the part from there on is what the     *)
(* edits above have made of it.                                            *)
(***************************************************************************)
EXTENDS TextEdits, FiniteSetTheorems, SequenceTheorems, TLAPS
-----------------------------------------------------------------------------
(* Induction over data.  A set of numbers that holds 0 and with each number *)
(* its successor holds them all.                                           *)

Below == {ss \in Nat \X Nat : ss[1] < ss[2]}

LEMMA Least ==
    ASSUME NEW S \in SUBSET Nat, S # {}
    PROVE  \E x \in S : \A y \in S : x <= y
  <1>1. IsWellFoundedOn(Below, Nat)
    BY NatLessThanWellFounded DEF OpToRel, Below
  <1>2. PICK x \in S : \A y \in S : <<y, x>> \notin Below
    BY <1>1, WFMin
  <1>3. ASSUME NEW y \in S PROVE x <= y
    <2>1. x \in Nat /\ y \in Nat /\ ~(y < x)
      BY <1>2 DEF Below
    <2> QED
      BY <2>1
  <1> QED
    BY <1>3

LEMMA Induction ==
    ASSUME NEW S, 0 \in S, \A n \in Nat : n \in S => n + 1 \in S
    PROVE  \A n \in Nat : n \in S
  <1> DEFINE T == {n \in Nat : n \notin S}
  <1>1. SUFFICES ASSUME T # {} PROVE FALSE
    OBVIOUS
  <1>2. PICK x \in T : \A y \in T : x <= y
    BY <1>1, Least
  <1>3. x \in Nat /\ x # 0 /\ x - 1 \in Nat /\ x - 1 \notin T
    BY <1>2
  <1>4. x - 1 \in S /\ (x - 1) + 1 = x
    BY <1>3
  <1> QED
    BY <1>2, <1>3, <1>4

LEMMA MaxIs ==
    ASSUME NEW S \in SUBSET Int, S # {}, NEW b \in Int, \A x \in S : x <= b
    PROVE  Max(S) \in S /\ \A y \in S : y <= Max(S)
  <1> DEFINE T == {n \in Nat : b - n \in S}
  <1>1. T # {}
    <2>1. PICK x \in S : TRUE
      OBVIOUS
    <2>2. b - x \in Nat /\ b - (b - x) = x
      BY <2>1
    <2> QED
      BY <2>1, <2>2
  <1>2. PICK n \in T : \A m \in T : n <= m
    BY <1>1, Least
  <1>3. b - n \in S /\ \A y \in S : b - n >= y
    <2>1. ASSUME NEW y \in S PROVE b - n >= y
      <3>1. b - y \in Nat /\ b - (b - y) = y
        OBVIOUS
      <3>2. b - y \in T
        BY <3>1
      <3> QED
        BY <1>2, <3>2
    <2> QED
      BY <1>2, <2>1
  <1>4. Max(S) \in S /\ \A y \in S : Max(S) >= y
    BY <1>3 DEF Max
  <1> QED
    BY <1>4

LEMMA MinIs ==
    ASSUME NEW S \in SUBSET Nat, S # {}
    PROVE  Min(S) \in S /\ \A y \in S : Min(S) <= y
  BY Least DEF Min

\* A function on the numbers may be defined by recursion: f begins with a and
\* goes on to the value that h makes of a number and the value there.
Begins(f, n, T, a, h) ==
    /\ f \in [0..n -> T] /\ f[0] = a
    /\ \A k \in 0..(n - 1) : f[k + 1] = h[<<k, f[k]>>]

LEMMA Recursion ==
    ASSUME NEW T, NEW a \in T, NEW h \in [Nat \X T -> T], NEW n \in Nat
    PROVE  \E f : Begins(f, n, T, a, h)
  <1> DEFINE S == {m \in Nat : \E f : Begins(f, m, T, a, h)}
  <1>1. 0 \in S
    <2>1. Begins([k \in 0..0 |-> a], 0, T, a, h)
      BY DEF Begins
    <2> QED
      BY <2>1
  <1>2. ASSUME NEW m \in Nat, m \in S PROVE m + 1 \in S
    <2>1. PICK g : Begins(g, m, T, a, h)
      BY <1>2
    <2>2. g \in [0..m -> T] /\ m \in 0..m
      BY <2>1 DEF Begins
    <2>3. h[<<m, g[m]>>] \in T
      BY <2>2
    <2> DEFINE e == [k \in 0..(m + 1) |-> IF k = m + 1 THEN h[<<m, g[m]>>] ELSE g[k]]
    <2>4. e \in [0..(m + 1) -> T]
      <3>1. ASSUME NEW k \in 0..(m + 1), k # m + 1 PROVE g[k] \in T
        <4>1. k \in 0..m
          BY <3>1
        <4> QED
          BY <2>2, <4>1
      <3> QED
        BY <2>3, <3>1
    <2>5. \A k \in 0..m : e[k] = g[k]
      OBVIOUS
    <2>6. e[m + 1] = h[<<m, g[m]>>]
      OBVIOUS
    <2> HIDE DEF e
    <2>7. e[0] = a
      BY <2>1, <2>5 DEF Begins
    <2>8. ASSUME NEW k \in 0..((m + 1) - 1) PROVE e[k + 1] = h[<<k, e[k]>>]
      <3>1. CASE k = m
        BY <2>5, <2>6, <3>1
      <3>2. CASE k # m
        <4>1. k \in 0..(m - 1) /\ k \in 0..m /\ k + 1 \in 0..m
          BY <3>2
        <4>2. g[k + 1] = h[<<k, g[k]>>]
          BY <2>1, <4>1 DEF Begins
        <4> QED
          BY <2>5, <4>1, <4>2
      <3> QED
        BY <3>1, <3>2
    <2>9. Begins(e, m + 1, T, a, h)
      BY <2>4, <2>7, <2>8 DEF Begins
    <2> QED
      BY <2>9
  <1> HIDE DEF S
  <1>3. n \in S
    BY <1>1, <1>2, Induction
  <1> QED
    BY <1>3 DEF S
-----------------------------------------------------------------------------
(* The elements of a set of numbers in their order.                        *)

\* f lists the n elements of S in their order.
Lists(f, n, S) ==
    /\ f \in [1..n -> S]
    /\ \A i, j \in 1..n : i < j => f[i] < f[j]
    /\ \A x \in S : \E i \in 1..n : f[i] = x

LEMMA ListedCardinality ==
    ASSUME NEW S \in SUBSET Int, NEW n \in Nat, NEW f, Lists(f, n, S)
    PROVE  IsFiniteSet(S) /\ Cardinality(S) = n
  <1>1. f \in Bijection(1..n, S)
    <2>1. f \in [1..n -> S] /\ \A x \in S : \E i \in 1..n : f[i] = x
      BY DEF Lists
    <2>2. ASSUME NEW i \in 1..n, NEW j \in 1..n, f[i] = f[j] PROVE i = j
      <3>1. f[i] \in Int /\ f[j] \in Int
        BY <2>1
      <3>2. ~(i < j) /\ ~(j < i)
        BY <2>2, <3>1 DEF Lists
      <3> QED
        BY <3>2
    <2> QED
      BY <2>1, <2>2 DEF Bijection, Injection, Surjection, IsInjective
  <1>2. ExistsBijection(1..n, S)
    BY <1>1 DEF ExistsBijection
  <1> QED
    BY <1>2, FS_CountingElements, FS_NatBijection

LEMMA Listable ==
    ASSUME NEW n \in Nat, NEW S \in SUBSET (0..n)
    PROVE  \E m \in Nat : \E f : Lists(f, m, S)
  <1> DEFINE G == {k \in Nat : \A T \in SUBSET (0..(k - 1)) : \E m \in Nat : \E f : Lists(f, m, T)}
  <1>1. 0 \in G
    <2> SUFFICES ASSUME NEW T \in SUBSET (0..(0 - 1)) PROVE \E m \in Nat : \E f : Lists(f, m, T)
      OBVIOUS
    <2>1. T = {} /\ 1..0 = {}
      OBVIOUS
    <2>2. Lists([i \in 1..0 |-> 0], 0, T)
      BY <2>1 DEF Lists
    <2> QED
      BY <2>2
  <1>2. ASSUME NEW k \in Nat, k \in G PROVE k + 1 \in G
    <2> SUFFICES ASSUME NEW T \in SUBSET (0..k) PROVE \E m \in Nat : \E f : Lists(f, m, T)
      OBVIOUS
    <2>1. T \ {k} \in SUBSET (0..(k - 1))
      OBVIOUS
    <2>2a. PICK m \in Nat : \E f : Lists(f, m, T \ {k})
      BY <1>2, <2>1
    <2>2. PICK f : Lists(f, m, T \ {k})
      BY <2>2a
    <2>3. CASE k \notin T
      <3>1. T \ {k} = T
        BY <2>3
      <3> QED
        BY <2>2, <3>1
    <2>4. CASE k \in T
      <3> DEFINE e == [i \in 1..(m + 1) |-> IF i = m + 1 THEN k ELSE f[i]]
      <3>1. e[m + 1] = k /\ \A i \in 1..m : e[i] = f[i] /\ f[i] \in T /\ f[i] \in 0..(k - 1)
        <4>1. f \in [1..m -> T \ {k}]
          BY <2>2 DEF Lists
        <4>2. e[m + 1] = k
          OBVIOUS
        <4>3. ASSUME NEW i \in 1..m PROVE e[i] = f[i]
          <5>1. i \in 1..(m + 1) /\ i # m + 1
            OBVIOUS
          <5> QED
            BY <5>1
        <4>4. ASSUME NEW i \in 1..m PROVE f[i] \in T /\ f[i] \in 0..(k - 1)
          <5>1. f[i] \in T \ {k}
            BY <4>1
          <5> QED
            BY <2>1, <5>1
        <4> QED
          BY <4>2, <4>3, <4>4
      <3>2. e \in [1..(m + 1) -> T]
        <4>1. ASSUME NEW i \in 1..(m + 1), i # m + 1 PROVE f[i] \in T
          <5>1. i \in 1..m
            BY <4>1
          <5> QED
            BY <3>1, <5>1
        <4> QED
          BY <2>4, <4>1
      <3> HIDE DEF e
      <3>3. ASSUME NEW i \in 1..(m + 1), NEW j \in 1..(m + 1), i < j PROVE e[i] < e[j]
        <4>1. i \in 1..m
          BY <3>3
        <4>2. CASE j = m + 1
          BY <3>1, <4>1, <4>2
        <4>3. CASE j # m + 1
          <5>1. j \in 1..m
            BY <4>3
          <5> QED
            BY <2>2, <3>1, <3>3, <4>1, <5>1 DEF Lists
        <4> QED
          BY <4>2, <4>3
      <3>4. ASSUME NEW x \in T PROVE \E i \in 1..(m + 1) : e[i] = x
        <4>1. CASE x = k
          BY <3>1, <4>1
        <4>2. CASE x # k
          <5>1. PICK i \in 1..m : f[i] = x
            BY <2>2, <4>2 DEF Lists
          <5>2. i \in 1..(m + 1)
            OBVIOUS
          <5> QED
            BY <3>1, <5>1, <5>2
        <4> QED
          BY <4>1, <4>2
      <3>5. Lists(e, m + 1, T)
        BY <3>2, <3>3, <3>4 DEF Lists
      <3> QED
        BY <3>5
    <2> QED
      BY <2>3, <2>4
  <1> HIDE DEF G
  <1>3. n + 1 \in G
    BY <1>1, <1>2, Induction
  <1>4. 0..((n + 1) - 1) = 0..n
    OBVIOUS
  <1> QED
    BY <1>3, <1>4 DEF G

LEMMA AscendingLists ==
    ASSUME NEW S \in SUBSET Int, NEW n \in Nat, NEW g, Lists(g, n, S)
    PROVE  /\ IsFiniteSet(S) /\ Cardinality(S) = n
           /\ Lists(Ascending(S), n, S)
  <1>1. IsFiniteSet(S) /\ Cardinality(S) = n
    BY ListedCardinality
  <1>2. Ascending(S) \in [1..n -> S] /\ \A i, j \in 1..n : i < j => Ascending(S)[i] < Ascending(S)[j]
    <2>1. g \in [1..n -> S] /\ \A i, j \in DOMAIN g : i < j => g[i] < g[j]
      BY DEF Lists
    <2>2. Ascending(S) \in [1..n -> S]
          /\ \A i, j \in DOMAIN Ascending(S) : i < j => Ascending(S)[i] < Ascending(S)[j]
      BY <1>1, <2>1 DEF Ascending
    <2> QED
      BY <2>2
  <1>3. Ascending(S) \in Injection(1..n, S)
    <2>1. ASSUME NEW i \in 1..n, NEW j \in 1..n, Ascending(S)[i] = Ascending(S)[j] PROVE i = j
      <3>1. Ascending(S)[i] \in Int /\ Ascending(S)[j] \in Int
        BY <1>2
      <3>2. ~(i < j) /\ ~(j < i)
        BY <1>2, <2>1, <3>1
      <3> QED
        BY <3>2
    <2> QED
      BY <1>2, <2>1 DEF Injection, IsInjective
  <1>4. Cardinality(1..n) = n
    BY FS_Interval
  <1>5. Ascending(S) \in Surjection(1..n, S)
    BY <1>1, <1>3, <1>4, FS_Injection
  <1> QED
    BY <1>1, <1>2, <1>5 DEF Lists, Surjection
-----------------------------------------------------------------------------
(* line.go.  The lines of a text: where they start, in their order.        *)

Nl(s) == Ascending(LineStarts(s))
Lines(s) == Cardinality(LineStarts(s))

LEMMA LineStartsAre ==
    ASSUME NEW R, NEW s \in Seq(R)
    PROVE  LineStarts(s) \in SUBSET (0..Len(s)) /\ 0 \in LineStarts(s) /\ Len(s) \in Nat
  BY DEF LineStarts

\* The offsets list the line starts; the first is 0.
LEMMA NlLists ==
    ASSUME NEW R, NEW s \in Seq(R)
    PROVE  /\ Lines(s) \in Nat \ {0}
           /\ Lists(Nl(s), Lines(s), LineStarts(s))
           /\ Nl(s) \in Seq(Nat) /\ Len(Nl(s)) = Lines(s)
           /\ \A i \in 1..Lines(s) : Nl(s)[i] \in 0..Len(s) /\ Nl(s)[i] \in LineStarts(s)
           /\ IsFiniteSet(LineStarts(s))
  <1>1. LineStarts(s) \in SUBSET (0..Len(s)) /\ 0 \in LineStarts(s) /\ Len(s) \in Nat
    BY LineStartsAre
  <1>2a. PICK m \in Nat : \E g : Lists(g, m, LineStarts(s))
    BY <1>1, Listable
  <1>2. PICK g : Lists(g, m, LineStarts(s))
    BY <1>2a
  <1>3. LineStarts(s) \in SUBSET Int
    BY <1>1
  <1>4. /\ IsFiniteSet(LineStarts(s)) /\ Lines(s) = m
        /\ Lists(Nl(s), m, LineStarts(s))
    BY <1>2, <1>3, AscendingLists DEF Nl, Lines
  <1>5. Nl(s) \in [1..m -> LineStarts(s)]
    BY <1>4 DEF Lists
  <1>6. m # 0
    <2>1. PICK i \in 1..m : Nl(s)[i] = 0
      BY <1>1, <1>4 DEF Lists
    <2> QED
      BY <2>1
  <1>7. Nl(s) \in [1..m -> Nat]
    BY <1>1, <1>5
  <1>8. Nl(s) \in Seq(Nat) /\ Len(Nl(s)) = m
    BY <1>7
  <1>9. \A i \in 1..m : Nl(s)[i] \in LineStarts(s)
    BY <1>5
  <1> QED
    BY <1>1, <1>4, <1>6, <1>8, <1>9

\* As many lines start before the i-th as i - 1.
LEMMA StartsBefore ==
    ASSUME NEW R, NEW s \in Seq(R), NEW i \in 1..Lines(s)
    PROVE  Cardinality({o \in LineStarts(s) : o < Nl(s)[i]}) = i - 1
  <1> DEFINE S == {o \in LineStarts(s) : o < Nl(s)[i]}
             f == [j \in 1..(i - 1) |-> Nl(s)[j]]
  <1>1. Lines(s) \in Nat /\ Lists(Nl(s), Lines(s), LineStarts(s)) /\ i \in Nat \ {0}
        /\ \A j \in 1..Lines(s) : Nl(s)[j] \in 0..Len(s)
        /\ Len(s) \in Nat /\ LineStarts(s) \in SUBSET (0..Len(s))
    BY NlLists, LineStartsAre
  <1>2. \A j \in 1..(i - 1) : f[j] = Nl(s)[j] /\ j \in 1..Lines(s) /\ j < i
    BY <1>1
  <1>3. f \in [1..(i - 1) -> S]
    <2>1. ASSUME NEW j \in 1..(i - 1) PROVE Nl(s)[j] \in S
      BY <1>1, <1>2 DEF Lists
    <2> QED
      BY <2>1
  <1>4. \A j, k \in 1..(i - 1) : j < k => f[j] < f[k]
    BY <1>1, <1>2 DEF Lists
  <1>5. ASSUME NEW x \in S PROVE \E j \in 1..(i - 1) : f[j] = x
    <2>1. PICK j \in 1..Lines(s) : Nl(s)[j] = x
      BY <1>1 DEF Lists
    <2>2. j < i
      <3>1. CASE j = i
        BY <1>1, <2>1, <3>1
      <3>2. CASE i < j
        <4>1. Nl(s)[i] < Nl(s)[j]
          BY <1>1, <3>2 DEF Lists
        <4>2. x < Nl(s)[i] /\ x \in Int /\ Nl(s)[i] \in Int
          BY <1>1
        <4> QED
          BY <2>1, <4>1, <4>2
      <3> QED
        BY <1>1, <3>1, <3>2
    <2>3. j \in 1..(i - 1)
      BY <1>1, <2>2
    <2> QED
      BY <1>2, <2>1, <2>3
  <1>6. Lists(f, i - 1, S)
    BY <1>3, <1>4, <1>5 DEF Lists
  <1>7. S \in SUBSET Int /\ i - 1 \in Nat
    BY <1>1
  <1> HIDE DEF S, f
  <1>8. Cardinality(S) = i - 1
    BY <1>6, <1>7, ListedCardinality
  <1> QED
    BY <1>8 DEF S

\* The line of an offset q: the last that starts at q or before.
LEMMA PositionIs ==
    ASSUME NEW R, NEW s \in Seq(R), NEW q \in 0..Len(s)
    PROVE  \E k \in 1..Lines(s) :
              /\ PositionOf(s, q) = [line |-> k - 1, col |-> q - Nl(s)[k]]
              /\ Nl(s)[k] <= q
              /\ \A i \in 1..Lines(s) : Nl(s)[i] <= q => i <= k
  <1> DEFINE S == {o \in LineStarts(s) : o <= q}
  <1>1. /\ Lines(s) \in Nat /\ Lists(Nl(s), Lines(s), LineStarts(s))
        /\ \A j \in 1..Lines(s) : Nl(s)[j] \in 0..Len(s) /\ Nl(s)[j] \in LineStarts(s)
        /\ Len(s) \in Nat /\ LineStarts(s) \in SUBSET (0..Len(s)) /\ 0 \in LineStarts(s)
    BY NlLists, LineStartsAre
  <1>2. S \in SUBSET Int /\ S # {} /\ q \in Int /\ \A x \in S : x <= q
    BY <1>1
  <1> DEFINE start == Max(S)
  <1>3. start \in S /\ \A y \in S : y <= start
    <2> HIDE DEF S
    <2> QED
      BY <1>2, MaxIs
  <1>4. PICK k \in 1..Lines(s) : Nl(s)[k] = start
    BY <1>1, <1>3 DEF Lists
  <1>5. Cardinality({o \in LineStarts(s) : o < start}) = k - 1
    BY <1>4, StartsBefore
  <1>6. PositionOf(s, q) = [line |-> k - 1, col |-> q - Nl(s)[k]]
    BY <1>4, <1>5 DEF PositionOf
  <1>7. ASSUME NEW i \in 1..Lines(s), Nl(s)[i] <= q PROVE i <= k
    <2>1. Nl(s)[i] <= Nl(s)[k]
      BY <1>1, <1>3, <1>4, <1>7
    <2>2. ~(k < i)
      <3>1. SUFFICES ASSUME k < i PROVE FALSE
        OBVIOUS
      <3>2. Nl(s)[k] < Nl(s)[i]
        BY <1>1, <3>1 DEF Lists
      <3>3. Nl(s)[k] \in Int /\ Nl(s)[i] \in Int
        BY <1>1
      <3> QED
        BY <2>1, <3>2, <3>3
    <2> QED
      BY <1>1, <2>2
  <1>8. Nl(s)[k] <= q
    BY <1>3, <1>4
  <1> QED
    BY <1>6, <1>7, <1>8

\* The search of OffsetToLine finds the position that the server means
\* (line.go:63-73).
LEMMA OffsetToLineIsPosition ==
    ASSUME NEW R, NEW s \in Seq(R), NEW q \in 0..Len(s)
    PROVE  OffsetToLine(NewlineOffsets(s), q) = PositionOf(s, q)
  <1>1. PICK k \in 1..Lines(s) :
              /\ PositionOf(s, q) = [line |-> k - 1, col |-> q - Nl(s)[k]]
              /\ Nl(s)[k] <= q
              /\ \A i \in 1..Lines(s) : Nl(s)[i] <= q => i <= k
    BY PositionIs
  <1>2. /\ Lines(s) \in Nat /\ Lists(Nl(s), Lines(s), LineStarts(s)) /\ Len(s) \in Nat
        /\ \A j \in 1..Lines(s) : Nl(s)[j] \in 0..Len(s)
        /\ Len(Nl(s)) = Lines(s)
    BY NlLists, LineStartsAre
  <1>3. NewlineOffsets(s).nl = Nl(s)
    BY DEF NewlineOffsets, Nl
  <1> DEFINE later == {i \in 1..Lines(s) : Nl(s)[i] > q}
             at == IF later = {} THEN Lines(s) ELSE Min(later) - 1
  <1>4. at = k
    <2>1. CASE later = {}
      <3>1. Lines(s) \in 1..Lines(s) /\ ~(Nl(s)[Lines(s)] > q)
        BY <1>2, <2>1
      <3>2. Nl(s)[Lines(s)] <= q
        BY <1>2, <3>1
      <3>3. Lines(s) <= k
        BY <1>1, <3>1, <3>2
      <3> QED
        BY <1>2, <2>1, <3>3
    <2>2. CASE later # {}
      <3>1. later \in SUBSET Nat
        OBVIOUS
      <3> DEFINE m == Min(later)
      <3>2. m \in later /\ \A y \in later : m <= y
        <4> HIDE DEF later
        <4> QED
          BY <2>2, <3>1, MinIs
      <3>3. m \in 1..Lines(s) /\ Nl(s)[m] > q
        BY <3>2
      <3> HIDE DEF m
      <3>4. k < m
        <4>1. SUFFICES ASSUME m <= k PROVE FALSE
          BY <3>3
        <4>2. m = k \/ Nl(s)[m] < Nl(s)[k]
          BY <1>2, <3>3, <4>1 DEF Lists
        <4>3. Nl(s)[m] \in Int /\ Nl(s)[k] \in Int /\ q \in Int
          BY <1>2, <3>3
        <4> QED
          BY <1>1, <3>3, <4>2, <4>3
      <3>5. ~(k < m - 1)
        <4>1. SUFFICES ASSUME k < m - 1 PROVE FALSE
          OBVIOUS
        <4>2. m - 1 \in 1..Lines(s)
          BY <1>2, <3>3, <4>1
        <4>3. ~(Nl(s)[m - 1] <= q)
          BY <1>1, <4>1, <4>2
        <4>4. m - 1 \in later
          BY <1>2, <4>2, <4>3
        <4> QED
          BY <3>2, <3>3, <4>4 DEF m
      <3>6. m - 1 = k
        BY <3>3, <3>4, <3>5
      <3> QED
        BY <2>2, <3>6 DEF m
    <2> QED
      BY <2>1, <2>2
  <1> HIDE DEF at
  <1>5. OffsetToLine(NewlineOffsets(s), q) = [line |-> at - 1, col |-> q - Nl(s)[at]]
    BY <1>2, <1>3 DEF OffsetToLine, at
  <1> QED
    BY <1>1, <1>4, <1>5
-----------------------------------------------------------------------------
(* The position that a command asks about.                                 *)

Written == {"a", "w", "n"}
Runes == Written \cup {"x", "y", "t"}

\* Until the answer the body is the document, unless something has been
\* typed, and the position is the cursor's as soon as Position has run.
CursorInv ==
    /\ typed \in Nat /\ DOMAIN pos = {"line", "col"}
    /\ pc = "start" => body \in Seq(Written)
    /\ pc \in {"dot", "position", "answer", "answered"} /\ typed = 0 =>
          /\ body = doc /\ doc \in Seq(Written)
          /\ command \in Completions => cursor \in 0..Len(doc)
    /\ pc \in {"dot", "position"} => command \in Completions
    /\ pc = "position" /\ typed = 0 => pos.col = cursor
    /\ AsksAboutTheCursor

LEMMA CursorInit == Init => CursorInv
  <1> SUFFICES ASSUME Init PROVE CursorInv
    OBVIOUS
  <1>1. body \in Seq(Written)
    <2>1. PICK n \in 0..MaxRunes : body \in [1..n -> Letters \cup {"n"}]
      BY DEF Init, Bodies
    <2>2. Letters \cup {"n"} = Written
      BY DEF Letters, Written
    <2> QED
      BY <2>1, <2>2, TextAssumption
  <1> QED
    BY <1>1 DEF Init, CursorInv, AsksAboutTheCursor

LEMMA CursorNext == CursorInv /\ [Next]_vars => CursorInv'
  <1> SUFFICES ASSUME CursorInv, [Next]_vars PROVE CursorInv'
    OBVIOUS
  <1> USE DEF CursorInv, AsksAboutTheCursor, Completions
  <1>1. CASE Start
    <2>1. body \in Seq(Written) /\ doc' = body /\ body' = body /\ typed' = typed /\ pos' = pos
      BY <1>1 DEF Start
    <2>2. CASE command' = "edits" /\ pc' = "answer"
      BY <2>1, <2>2
    <2>3. CASE command' \in Completions /\ pc' = "dot" /\ cursor' \in 0..Len(body)
      BY <2>1, <2>3
    <2> QED
      BY <1>1, <2>2, <2>3 DEF Start
  <1>2. CASE ReadDot
    <2>1. pos'.col = cursor /\ DOMAIN pos' = {"line", "col"}
      BY <1>2 DEF ReadDot
    <2> QED
      BY <1>2, <2>1 DEF ReadDot
  <1>3. CASE Position
    <2>1. pos' = OffsetToLine(NewlineOffsets(body), pos.col) /\ pc' = "answer" /\ pc = "position"
          /\ UNCHANGED <<body, cursor, doc, typed, command>>
      BY <1>3 DEF Position
    <2>2. DOMAIN pos' = {"line", "col"}
      BY <2>1 DEF OffsetToLine
    <2>3. ASSUME typed = 0 PROVE pos' = PositionOf(doc, cursor)
      <3>1. pos.col = cursor /\ cursor \in 0..Len(doc) /\ body = doc /\ doc \in Seq(Written)
        BY <2>1, <2>3
      <3> QED
        BY <2>1, <3>1, OffsetToLineIsPosition
    <2>4. typed' = 0 => pos' = PositionOf(doc', cursor')
      BY <2>1, <2>3
    <2> QED
      BY <2>1, <2>2, <2>4
  <1>4. CASE Answer
    <2>1. pc = "answer" /\ pc' = "answered" /\ UNCHANGED <<body, cursor, command, pos, doc, typed>>
      BY <1>4 DEF Answer
    <2>2. command \in Completions /\ typed = 0 => pos = PositionOf(doc, cursor)
      BY <2>1
    <2>3. command' \in Completions /\ typed' = 0 => pos' = PositionOf(doc', cursor')
      BY <2>1, <2>2
    <2> QED
      BY <2>1, <2>3
  <1>5. CASE List
    BY <1>5 DEF List
  <1>6. CASE ReadBody
    BY <1>6 DEF ReadBody
  <1>7. CASE SetAddr
    BY <1>7 DEF SetAddr
  <1>8. CASE WriteData
    BY <1>8 DEF WriteData
  <1>9. CASE EditDone
    BY <1>9 DEF EditDone
  <1>10. CASE Type
    <2>1. typed' \in Nat /\ typed' # 0 /\ pc' = pc /\ pos' = pos /\ pc # "start" /\ pc # "dot" /\ command' = command
      BY <1>10 DEF Type
    <2> QED
      BY <2>1
  <1>11. CASE Poll
    BY <1>11 DEF Poll
  <1>12. CASE UNCHANGED vars
    <2>1. UNCHANGED <<body, cursor, command, pc, pos, doc, typed>>
      BY <1>12 DEF vars
    <2>2. PositionOf(doc, cursor)' = PositionOf(doc, cursor)
      BY <2>1
    <2> QED
      BY <2>1, <2>2
  <1> QED
    BY <1>1, <1>2, <1>3, <1>4, <1>5, <1>6, <1>7, <1>8, <1>9, <1>10, <1>11, <1>12 DEF Next

\* The position in a request for completions is, in the lines and columns of
\* the server, the place that was selected: reading the selection, reading
\* the text and searching its lines (edit.go:93-120, line.go:63-73) agree
\* with the server about every text of every length, unless the user types
\* between the two reads.
THEOREM AsksRight == Spec => []AsksAboutTheCursor
  <1>1. CursorInv => AsksAboutTheCursor
    BY DEF CursorInv
  <1> QED
    BY CursorInit, CursorNext, <1>1, PTL DEF Spec
-----------------------------------------------------------------------------
(* What FlattenSeq of the community modules makes of sequences of          *)
(* sequences of any length.                                                *)

LEMMA FlattenIs ==
    ASSUME NEW T, NEW u \in Seq(Seq(T)), Len(u) # 0
    PROVE  \E f \in [1..Len(u) -> Seq(T)] :
              /\ f[1] = u[1]
              /\ \A i \in 2..Len(u) : f[i] = f[i - 1] \o u[i]
              /\ FlattenSeq(u) = f[Len(u)]
  <1>1. Len(u) \in Nat \ {0} /\ \A i \in 1..Len(u) : u[i] \in Seq(T)
    OBVIOUS
  <1> DEFINE n == Len(u) - 1
             h == [p \in Nat \X Seq(T) |-> IF p[1] + 2 <= Len(u) THEN p[2] \o u[p[1] + 2] ELSE p[2]]
  <1>2. n \in Nat /\ u[1] \in Seq(T)
    BY <1>1
  <1>3. h \in [Nat \X Seq(T) -> Seq(T)]
    <2>1. ASSUME NEW p \in Nat \X Seq(T), p[1] + 2 <= Len(u) PROVE p[2] \o u[p[1] + 2] \in Seq(T)
      <3>1. p[1] \in Nat /\ p[1] + 2 \in 1..Len(u) /\ p[2] \in Seq(T)
        BY <1>1, <2>1
      <3>2. u[p[1] + 2] \in Seq(T)
        BY <1>1, <3>1
      <3> QED
        BY <3>1, <3>2, ConcatProperties
    <2>2. \A p \in Nat \X Seq(T) : p[2] \in Seq(T)
      OBVIOUS
    <2> QED
      BY <2>1, <2>2
  <1>4. PICK g : Begins(g, n, Seq(T), u[1], h)
    <2> HIDE DEF h, n
    <2> QED
      BY <1>2, <1>3, Recursion
  <1>5. g \in [0..n -> Seq(T)] /\ g[0] = u[1] /\ \A k \in 0..(n - 1) : g[k + 1] = h[<<k, g[k]>>]
    BY <1>4 DEF Begins
  <1> DEFINE f == [i \in 1..Len(u) |-> g[i - 1]]
  <1>6. \A i \in 1..Len(u) : f[i] = g[i - 1] /\ i - 1 \in 0..n
    BY <1>1
  <1>7. f \in [1..Len(u) -> Seq(T)]
    BY <1>5, <1>6
  <1>8. f[1] = u[1]
    BY <1>1, <1>5, <1>6
  <1>9. ASSUME NEW i \in 2..Len(u) PROVE f[i] = f[i - 1] \o u[i]
    <2>1. i - 2 \in 0..(n - 1) /\ i - 2 \in 0..n /\ i - 1 \in 1..Len(u) /\ (i - 2) + 2 = i /\ (i - 2) + 1 = i - 1
          /\ i \in 1..Len(u) /\ (i - 1) - 1 = i - 2 /\ i <= Len(u)
      BY <1>1
    <2>2. g[i - 1] = h[<<i - 2, g[i - 2]>>]
      BY <1>5, <2>1
    <2>3. g[i - 2] \in Seq(T)
      BY <1>5, <2>1
    <2>4. h[<<i - 2, g[i - 2]>>] = g[i - 2] \o u[i]
      <3>1. \A p \in Nat \X Seq(T) : p[1] + 2 <= Len(u) => h[p] = p[2] \o u[p[1] + 2]
        OBVIOUS
      <3>2. <<i - 2, g[i - 2]>> \in Nat \X Seq(T)
        BY <2>1, <2>3
      <3> HIDE DEF h
      <3> QED
        BY <2>1, <3>1, <3>2
    <2>5. f[i] = g[i - 1] /\ f[i - 1] = g[i - 2]
      BY <1>6, <2>1
    <2> QED
      BY <2>2, <2>4, <2>5
  <1> HIDE DEF f
  <1>10. f = [i \in 1..Len(u) |-> IF i = 1 THEN u[i] ELSE f[i - 1] \o u[i]]
    <2>1. ASSUME NEW i \in 1..Len(u) PROVE f[i] = IF i = 1 THEN u[i] ELSE f[i - 1] \o u[i]
      <3>1. CASE i = 1
        BY <1>8, <3>1
      <3>2. CASE i # 1
        <4>1. i \in 2..Len(u)
          BY <3>2
        <4> QED
          BY <1>9, <3>2, <4>1
      <3> QED
        BY <3>1, <3>2
    <2> QED
      BY <1>7, <2>1
  <1> DEFINE c == CHOOSE c : c = [i \in 1..Len(u) |-> IF i = 1 THEN u[i] ELSE c[i - 1] \o u[i]]
  <1>11. c = [i \in 1..Len(u) |-> IF i = 1 THEN u[i] ELSE c[i - 1] \o u[i]]
    BY <1>10
  <1>12. FlattenSeq(u) = c[Len(u)]
    BY <1>1 DEF FlattenSeq
  <1> HIDE DEF c
  <1>13. c[1] = u[1] /\ \A i \in 2..Len(u) : c[i] = c[i - 1] \o u[i]
    <2>1. \A i \in 1..Len(u) : c[i] = IF i = 1 THEN u[i] ELSE c[i - 1] \o u[i]
      BY <1>11
    <2>2. 1 \in 1..Len(u) /\ \A i \in 2..Len(u) : i \in 1..Len(u) /\ i # 1
      BY <1>1
    <2>3. c[1] = u[1]
      BY <2>1, <2>2
    <2>4. ASSUME NEW i \in 2..Len(u) PROVE c[i] = c[i - 1] \o u[i]
      BY <2>1, <2>2
    <2> QED
      BY <2>3, <2>4
  <1> DEFINE G == {k \in Nat : k + 1 <= Len(u) => c[k + 1] = f[k + 1]}
  <1>14. 0 \in G
    BY <1>8, <1>13
  <1>15. ASSUME NEW k \in Nat, k \in G PROVE k + 1 \in G
    <2>1. SUFFICES ASSUME (k + 1) + 1 <= Len(u) PROVE c[(k + 1) + 1] = f[(k + 1) + 1]
      OBVIOUS
    <2>2. (k + 1) + 1 \in 2..Len(u) /\ ((k + 1) + 1) - 1 = k + 1 /\ k + 1 <= Len(u)
      BY <1>1, <2>1
    <2>3. c[k + 1] = f[k + 1]
      BY <1>15, <2>2
    <2> QED
      BY <1>9, <1>13, <2>2, <2>3
  <1> HIDE DEF G
  <1>16. Len(u) - 1 \in G
    BY <1>2, <1>14, <1>15, Induction
  <1>17. c[Len(u)] = f[Len(u)]
    BY <1>1, <1>16 DEF G
  <1> QED
    BY <1>7, <1>8, <1>9, <1>12, <1>17

LEMMA FlattenNone ==
    FlattenSeq(<<>>) = <<>>
  BY DEF FlattenSeq

LEMMA FlattenAppend ==
    ASSUME NEW T, NEW u \in Seq(Seq(T)), NEW x \in Seq(T)
    PROVE  /\ FlattenSeq(u) \in Seq(T)
           /\ FlattenSeq(Append(u, x)) = FlattenSeq(u) \o x
  <1> DEFINE v == Append(u, x)
  <1>1. v \in Seq(Seq(T)) /\ Len(v) = Len(u) + 1 /\ Len(u) \in Nat /\ Len(v) # 0
        /\ v[Len(u) + 1] = x /\ \A i \in 1..Len(u) : v[i] = u[i]
    BY AppendProperties
  <1> HIDE DEF v
  <1>2. PICK g \in [1..Len(v) -> Seq(T)] :
              /\ g[1] = v[1]
              /\ \A i \in 2..Len(v) : g[i] = g[i - 1] \o v[i]
              /\ FlattenSeq(v) = g[Len(v)]
    BY <1>1, FlattenIs
  <1>3. CASE Len(u) = 0
    <2>1. u = <<>> /\ FlattenSeq(u) = <<>>
      BY <1>3 DEF FlattenSeq
    <2>2. FlattenSeq(v) = x
      BY <1>1, <1>2, <1>3
    <2>3. <<>> \o x = x
      BY ConcatEmptySeq
    <2> QED
      BY <2>1, <2>2, <2>3, EmptySeq DEF v
  <1>4. CASE Len(u) # 0
    <2>1. PICK f \in [1..Len(u) -> Seq(T)] :
              /\ f[1] = u[1]
              /\ \A i \in 2..Len(u) : f[i] = f[i - 1] \o u[i]
              /\ FlattenSeq(u) = f[Len(u)]
      BY <1>4, FlattenIs
    <2> DEFINE G == {k \in Nat : k + 1 <= Len(u) => g[k + 1] = f[k + 1]}
    <2>2. 0 \in G
      BY <1>1, <1>2, <1>4, <2>1
    <2>3. ASSUME NEW k \in Nat, k \in G PROVE k + 1 \in G
      <3>1. SUFFICES ASSUME (k + 1) + 1 <= Len(u) PROVE g[(k + 1) + 1] = f[(k + 1) + 1]
        OBVIOUS
      <3>2. (k + 1) + 1 \in 2..Len(u) /\ ((k + 1) + 1) - 1 = k + 1 /\ k + 1 <= Len(u)
            /\ (k + 1) + 1 \in 2..Len(v) /\ (k + 1) + 1 \in 1..Len(u)
        BY <1>1, <3>1
      <3>3. g[k + 1] = f[k + 1]
        BY <2>3, <3>2
      <3>4. v[(k + 1) + 1] = u[(k + 1) + 1]
        BY <1>1, <3>2
      <3> QED
        BY <1>2, <2>1, <3>2, <3>3, <3>4
    <2> HIDE DEF G
    <2>4. Len(u) - 1 \in Nat
      BY <1>1, <1>4
    <2>5. Len(u) - 1 \in G
      BY <2>2, <2>3, <2>4, Induction
    <2>6. g[Len(u)] = f[Len(u)]
      BY <1>1, <2>4, <2>5 DEF G
    <2>7. Len(v) \in 2..Len(v) /\ Len(v) - 1 = Len(u) /\ Len(u) \in 1..Len(u)
      BY <1>1, <1>4
    <2>8. FlattenSeq(v) = g[Len(u)] \o x
      BY <1>1, <1>2, <2>7
    <2> QED
      BY <2>1, <2>6, <2>7, <2>8 DEF v
  <1> QED
    BY <1>3, <1>4

\* The concatenation as an operator of its own keeps the provers from taking
\* it apart.
Cat(a, b) == a \o b

LEMMA Assoc ==
    ASSUME NEW T, NEW a \in Seq(T), NEW b \in Seq(T), NEW c \in Seq(T)
    PROVE  Cat(Cat(a, b), c) = Cat(a, Cat(b, c))
  BY DEF Cat

LEMMA FlattenConcat ==
    ASSUME NEW T, NEW u \in Seq(Seq(T)), NEW v \in Seq(Seq(T))
    PROVE  FlattenSeq(u \o v) = FlattenSeq(u) \o FlattenSeq(v)
  <1> DEFINE G == {n \in Nat : \A w \in Seq(Seq(T)) :
                      Len(w) = n => FlattenSeq(u \o w) = FlattenSeq(u) \o FlattenSeq(w)}
  <1>1. 0 \in G
    <2> SUFFICES ASSUME NEW w \in Seq(Seq(T)), Len(w) = 0
                 PROVE  FlattenSeq(u \o w) = FlattenSeq(u) \o FlattenSeq(w)
      OBVIOUS
    <2>1. w = <<>>
      BY EmptySeq
    <2>2. u \o <<>> = u
      BY ConcatEmptySeq
    <2>3. FlattenSeq(u) \o <<>> = FlattenSeq(u)
      <3>1. FlattenSeq(u) \in Seq(T)
        BY FlattenAppend, EmptySeq
      <3> QED
        BY <3>1, ConcatEmptySeq
    <2> QED
      BY <2>1, <2>2, <2>3, FlattenNone
  <1>2. ASSUME NEW n \in Nat, n \in G PROVE n + 1 \in G
    <2> SUFFICES ASSUME NEW w \in Seq(Seq(T)), Len(w) = n + 1
                 PROVE  FlattenSeq(u \o w) = FlattenSeq(u) \o FlattenSeq(w)
      OBVIOUS
    <2>1. PICK y \in Seq(Seq(T)), x \in Seq(T) : w = Append(y, x)
      <3>1. w # <<>>
        BY EmptySeq
      <3> QED
        BY <3>1, SequenceEmptyOrAppend
    <2>2. Len(y) = n
      BY <2>1, AppendProperties
    <2>3. FlattenSeq(u \o y) = FlattenSeq(u) \o FlattenSeq(y)
      BY <1>2, <2>2
    <2>4. u \o w = Append(u \o y, x) /\ u \o y \in Seq(Seq(T))
      BY <2>1
    <2>5. FlattenSeq(u \o w) = FlattenSeq(u \o y) \o x
      BY <2>4, FlattenAppend
    <2>6. FlattenSeq(w) = FlattenSeq(y) \o x
      BY <2>1, FlattenAppend
    <2>7. FlattenSeq(u) \in Seq(T) /\ FlattenSeq(y) \in Seq(T)
      BY FlattenAppend, EmptySeq
    <2>8. Cat(Cat(FlattenSeq(u), FlattenSeq(y)), x) = Cat(FlattenSeq(u), Cat(FlattenSeq(y), x))
      BY <2>7, Assoc
    <2> QED
      BY <2>3, <2>5, <2>6, <2>8 DEF Cat
  <1> HIDE DEF G
  <1>3. Len(v) \in Nat
    OBVIOUS
  <1>4. Len(v) \in G
    BY <1>1, <1>2, <1>3, Induction
  <1> QED
    BY <1>4 DEF G

\* Empty parts add nothing.
LEMMA FlattenEmpties ==
    ASSUME NEW T, NEW u \in Seq(Seq(T)), \A i \in 1..Len(u) : u[i] = <<>>
    PROVE  FlattenSeq(u) = <<>>
  <1> DEFINE G == {n \in Nat : \A w \in Seq(Seq(T)) :
                      Len(w) = n /\ (\A i \in 1..Len(w) : w[i] = <<>>) => FlattenSeq(w) = <<>>}
  <1>1. 0 \in G
    <2> SUFFICES ASSUME NEW w \in Seq(Seq(T)), Len(w) = 0 PROVE FlattenSeq(w) = <<>>
      OBVIOUS
    <2> QED
      BY EmptySeq, FlattenNone
  <1>2. ASSUME NEW n \in Nat, n \in G PROVE n + 1 \in G
    <2> SUFFICES ASSUME NEW w \in Seq(Seq(T)), Len(w) = n + 1, \A i \in 1..Len(w) : w[i] = <<>>
                 PROVE  FlattenSeq(w) = <<>>
      OBVIOUS
    <2>1. PICK y \in Seq(Seq(T)), x \in Seq(T) : w = Append(y, x)
      <3>1. w # <<>>
        BY EmptySeq
      <3> QED
        BY <3>1, SequenceEmptyOrAppend
    <2>2. Len(y) = n /\ (\A i \in 1..Len(y) : y[i] = w[i]) /\ x = w[n + 1]
      BY <2>1, AppendProperties
    <2>3. FlattenSeq(y) = <<>> /\ x = <<>>
      BY <1>2, <2>2
    <2>4. FlattenSeq(w) = <<>> \o <<>>
      BY <2>1, <2>3, FlattenAppend
    <2> QED
      BY <2>4, EmptySeq, ConcatEmptySeq
  <1> HIDE DEF G
  <1>3. Len(u) \in Nat
    OBVIOUS
  <1>4. Len(u) \in G
    BY <1>1, <1>2, <1>3, Induction
  <1> QED
    BY <1>4 DEF G

\* The elements of a sequence one by one make the sequence.
Singly(w, r) == Len(w) = Len(r) /\ \A i \in 1..Len(r) : w[i] = <<r[i]>>

LEMMA FlattenSingles ==
    ASSUME NEW T, NEW s \in Seq(T), NEW u \in Seq(Seq(T)), Singly(u, s)
    PROVE  FlattenSeq(u) = s
  <1> DEFINE G == {n \in Nat : \A w \in Seq(Seq(T)), r \in Seq(T) :
                      Len(r) = n /\ Singly(w, r) => FlattenSeq(w) = r}
  <1>1. 0 \in G
    <2> SUFFICES ASSUME NEW w \in Seq(Seq(T)), NEW r \in Seq(T), Len(r) = 0, Singly(w, r)
                 PROVE  FlattenSeq(w) = r
      OBVIOUS
    <2> QED
      BY EmptySeq, FlattenNone DEF Singly
  <1>2. ASSUME NEW n \in Nat, n \in G PROVE n + 1 \in G
    <2> SUFFICES ASSUME NEW w \in Seq(Seq(T)), NEW r \in Seq(T), Len(r) = n + 1, Singly(w, r)
                 PROVE  FlattenSeq(w) = r
      OBVIOUS
    <2>0. Len(w) = n + 1 /\ \A i \in 1..(n + 1) : w[i] = <<r[i]>>
      BY DEF Singly
    <2>1. PICK y \in Seq(Seq(T)), x \in Seq(T) : w = Append(y, x)
      <3>1. w # <<>>
        BY <2>0, EmptySeq
      <3> QED
        BY <3>1, SequenceEmptyOrAppend
    <2>2. PICK p \in Seq(T), e \in T : r = Append(p, e)
      <3>1. r # <<>>
        BY EmptySeq
      <3> QED
        BY <3>1, SequenceEmptyOrAppend
    <2>3. Len(y) = n /\ (\A i \in 1..Len(y) : y[i] = w[i]) /\ x = w[n + 1]
      BY <2>0, <2>1, AppendProperties
    <2>4. Len(p) = n /\ (\A i \in 1..Len(p) : p[i] = r[i]) /\ e = r[n + 1]
      BY <2>2, AppendProperties
    <2>5. \A i \in 1..n : y[i] = <<p[i]>>
      BY <2>0, <2>3, <2>4
    <2>6. FlattenSeq(y) = p /\ x = <<e>>
      <3>1. Singly(y, p)
        BY <2>3, <2>4, <2>5 DEF Singly
      <3>2. n + 1 \in 1..(n + 1)
        OBVIOUS
      <3> QED
        BY <1>2, <2>0, <2>3, <2>4, <3>1, <3>2
    <2>7. FlattenSeq(w) = p \o <<e>>
      BY <2>1, <2>6, FlattenAppend
    <2>8. r = p \o <<e>>
      BY <2>2, AppendIsConcat
    <2> QED
      BY <2>7, <2>8
  <1> HIDE DEF G
  <1>3. Len(s) \in Nat
    OBVIOUS
  <1>4. Len(s) \in G
    BY <1>1, <1>2, <1>3, Induction
  <1> QED
    BY <1>4 DEF G
-----------------------------------------------------------------------------
(* Slices of a text.                                                       *)

LEMMA SliceIs ==
    ASSUME NEW T, NEW s \in Seq(T), NEW a \in 0..Len(s), NEW b \in a..Len(s)
    PROVE  /\ Slice(s, a, b) \in Seq(T) /\ Len(Slice(s, a, b)) = b - a
           /\ \A i \in 1..(b - a) : Slice(s, a, b)[i] = s[a + i]
  <1>1. a + 1 \in Int /\ b \in Int /\ \A i \in (a + 1)..b : s[i] \in T
    BY ElementOfSeq
  <1>2. /\ SubSeq(s, a + 1, b) \in Seq(T)
        /\ Len(SubSeq(s, a + 1, b)) = IF a + 1 <= b THEN b - (a + 1) + 1 ELSE 0
        /\ \A i \in 1..(b - (a + 1) + 1) : SubSeq(s, a + 1, b)[i] = s[(a + 1) + i - 1]
    BY <1>1, SubSeqProperties
  <1>3. b - (a + 1) + 1 = b - a /\ (\A i \in 1..(b - a) : (a + 1) + i - 1 = a + i)
    BY <1>1
  <1> QED
    BY <1>2, <1>3 DEF Slice

LEMMA SliceNone ==
    ASSUME NEW T, NEW s \in Seq(T), NEW a \in 0..Len(s)
    PROVE  Slice(s, a, a) = <<>>
  BY SubSeqEmpty DEF Slice

LEMMA SliceAll ==
    ASSUME NEW T, NEW s \in Seq(T)
    PROVE  Slice(s, 0, Len(s)) = s
  BY SubSeqFull DEF Slice

LEMMA SliceJoin ==
    ASSUME NEW T, NEW s \in Seq(T), NEW a \in 0..Len(s), NEW b \in a..Len(s), NEW c \in b..Len(s)
    PROVE  Slice(s, a, b) \o Slice(s, b, c) = Slice(s, a, c)
  <1>1. a + 1 \in 1..(Len(s) + 1) /\ b \in ((a + 1) - 1)..Len(s) /\ c \in b..Len(s)
    OBVIOUS
  <1> QED
    BY <1>1, ConcatAdjacentSubSeq DEF Slice

LEMMA SliceOfFirst ==
    ASSUME NEW T, NEW u \in Seq(T), NEW v \in Seq(T), NEW a \in 0..Len(u)
    PROVE  Slice(u \o v, 0, a) = Slice(u, 0, a)
  <1>1. u \o v \in Seq(T) /\ Len(u \o v) = Len(u) + Len(v)
        /\ \A i \in 1..Len(u) : (u \o v)[i] = u[i]
    BY ConcatProperties
  <1>2. a \in 0..Len(u \o v) /\ 0 \in 0..Len(u \o v) /\ 0 \in 0..Len(u) /\ a - 0 = a
        /\ a \in Nat /\ \A i \in 1..a : 0 + i = i /\ i \in 1..Len(u)
    BY <1>1
  <1>3. Slice(u \o v, 0, a) \in Seq(T) /\ Len(Slice(u \o v, 0, a)) = a
        /\ \A i \in 1..a : Slice(u \o v, 0, a)[i] = (u \o v)[i]
    <2> HIDE DEF Slice
    <2>1. Slice(u \o v, 0, a) \in Seq(T) /\ Len(Slice(u \o v, 0, a)) = a - 0
          /\ \A i \in 1..(a - 0) : Slice(u \o v, 0, a)[i] = (u \o v)[0 + i]
      BY <1>1, <1>2, SliceIs
    <2> QED
      BY <1>2, <2>1
  <1>4. Slice(u, 0, a) \in Seq(T) /\ Len(Slice(u, 0, a)) = a
        /\ \A i \in 1..a : Slice(u, 0, a)[i] = u[i]
    <2>1. Slice(u, 0, a) \in Seq(T) /\ Len(Slice(u, 0, a)) = a - 0
          /\ \A i \in 1..(a - 0) : Slice(u, 0, a)[i] = u[0 + i]
      BY <1>2, SliceIs
    <2> QED
      BY <1>2, <2>1
  <1> QED
    BY <1>1, <1>2, <1>3, <1>4, SeqEqual

LEMMA SliceOfSecond ==
    ASSUME NEW T, NEW u \in Seq(T), NEW v \in Seq(T)
    PROVE  Slice(u \o v, Len(u), Len(u \o v)) = v
  <1>1. u \o v \in Seq(T) /\ Len(u \o v) = Len(u) + Len(v) /\ Len(u) \in Nat /\ Len(v) \in Nat
        /\ \A i \in 1..Len(v) : (u \o v)[Len(u) + i] = v[i]
    <2>1. /\ u \o v \in Seq(T) /\ Len(u \o v) = Len(u) + Len(v)
          /\ \A i \in 1..(Len(u) + Len(v)) :
                (u \o v)[i] = IF i <= Len(u) THEN u[i] ELSE v[i - Len(u)]
      BY ConcatProperties
    <2>2. ASSUME NEW i \in 1..Len(v) PROVE (u \o v)[Len(u) + i] = v[i]
      <3>1. Len(u) + i \in 1..(Len(u) + Len(v)) /\ ~(Len(u) + i <= Len(u))
            /\ (Len(u) + i) - Len(u) = i
        OBVIOUS
      <3> QED
        BY <2>1, <3>1
    <2> QED
      BY <2>1, <2>2
  <1> DEFINE w == u \o v
  <1>2. w \in Seq(T) /\ Len(u) \in 0..Len(w) /\ Len(w) \in Len(u)..Len(w) /\ Len(w) - Len(u) = Len(v)
    BY <1>1
  <1> HIDE DEF w
  <1>3. Slice(w, Len(u), Len(w)) \in Seq(T) /\ Len(Slice(w, Len(u), Len(w))) = Len(v)
        /\ \A i \in 1..Len(v) : Slice(w, Len(u), Len(w))[i] = w[Len(u) + i]
    BY <1>2, SliceIs
  <1>4. \A i \in 1..Len(v) : Slice(w, Len(u), Len(w))[i] = v[i]
    BY <1>1, <1>3 DEF w
  <1>5. Slice(w, Len(u), Len(w)) = v
    BY <1>3, <1>4, SeqEqual
  <1> QED
    BY <1>5 DEF w

LEMMA FlattenOne ==
    ASSUME NEW T, NEW x \in Seq(T)
    PROVE  FlattenSeq(<<x>>) = x
  <1>1. <<>> \in Seq(Seq(T)) /\ <<>> \in Seq(T)
    BY EmptySeq
  <1>2. FlattenSeq(Append(<<>>, x)) = FlattenSeq(<<>>) \o x
    BY <1>1, FlattenAppend
  <1>3. Append(<<>>, x) = <<x>>
    OBVIOUS
  <1>4. <<>> \o x = x
    BY ConcatEmptySeq
  <1> QED
    BY <1>2, <1>3, <1>4, FlattenNone
-----------------------------------------------------------------------------
(* What the edits of an answer mean: the first of them is a replacement in *)
(* what the others mean.                                                   *)

Starts(s, e) == OffsetOf(s, e.start)
Ends(s, e) == OffsetOf(s, e.end)

New(s, es, q) == FlattenSeq([i \in DOMAIN es |-> IF Starts(s, es[i]) = q THEN es[i].new ELSE <<>>])
Kept(s, es, q) == q < Len(s) /\ \A i \in DOMAIN es : ~(Starts(s, es[i]) <= q /\ q < Ends(s, es[i]))
Pieces(s, es) ==
    [k \in 1..(Len(s) + 1) |-> New(s, es, k - 1) \o (IF Kept(s, es, k - 1) THEN <<s[k]>> ELSE <<>>)]

LEMMA MeantIs ==
    ASSUME NEW s, NEW es
    PROVE  Meant(s, es) = FlattenSeq(Pieces(s, es))
  BY DEF Meant, Pieces, New, Kept, Starts, Ends

\* Edits of s from its first rune to its last.
Edit(s) == {e \in [start : Positions(s), end : Positions(s), new : Seq(Runes)] :
                Starts(s, e) \in 0..Len(s) /\ Ends(s, e) \in Starts(s, e)..Len(s)}
Proper(s, es) ==
    /\ es \in Seq(Edit(s))
    /\ \A i, j \in 1..Len(es) : i < j => Ends(s, es[i]) <= Starts(s, es[j])

LEMMA PiecesAre ==
    ASSUME NEW s \in Seq(Runes), NEW es \in Seq(Edit(s))
    PROVE  /\ \A q : New(s, es, q) \in Seq(Runes)
           /\ Pieces(s, es) \in Seq(Seq(Runes)) /\ Len(Pieces(s, es)) = Len(s) + 1
           /\ \A k \in 1..(Len(s) + 1) : Pieces(s, es)[k] =
                New(s, es, k - 1) \o (IF Kept(s, es, k - 1) THEN <<s[k]>> ELSE <<>>)
           /\ Len(s) \in Nat
  <1>1. ASSUME NEW q PROVE New(s, es, q) \in Seq(Runes)
    <2> DEFINE u == [i \in DOMAIN es |-> IF Starts(s, es[i]) = q THEN es[i].new ELSE <<>>]
    <2>1. DOMAIN es = 1..Len(es) /\ Len(es) \in Nat
      OBVIOUS
    <2>2. \A i \in 1..Len(es) : es[i].new \in Seq(Runes) /\ <<>> \in Seq(Runes)
      BY EmptySeq DEF Edit
    <2>3. u \in [1..Len(es) -> Seq(Runes)]
      BY <2>1, <2>2
    <2>4. u \in Seq(Seq(Runes))
      BY <2>1, <2>3
    <2> HIDE DEF u
    <2>5. FlattenSeq(u) \in Seq(Runes)
      BY <2>4, FlattenAppend, EmptySeq
    <2> QED
      BY <2>5 DEF New, u
  <1>2. Len(s) \in Nat
    OBVIOUS
  <1> DEFINE p(k) == New(s, es, k - 1) \o (IF Kept(s, es, k - 1) THEN <<s[k]>> ELSE <<>>)
  <1>3. ASSUME NEW k \in 1..(Len(s) + 1) PROVE p(k) \in Seq(Runes)
    <2>1. (IF Kept(s, es, k - 1) THEN <<s[k]>> ELSE <<>>) \in Seq(Runes)
      <3>1. CASE Kept(s, es, k - 1)
        <4>1. k \in 1..Len(s)
          BY <1>2, <3>1 DEF Kept
        <4>2. s[k] \in Runes
          BY <4>1, ElementOfSeq
        <4> QED
          BY <3>1, <4>2
      <3>2. CASE ~Kept(s, es, k - 1)
        BY <3>2, EmptySeq
      <3> QED
        BY <3>1, <3>2
    <2> HIDE DEF Kept
    <2> QED
      BY <1>1, <2>1, ConcatProperties
  <1>4. Pieces(s, es) = [k \in 1..(Len(s) + 1) |-> p(k)]
    BY DEF Pieces
  <1> HIDE DEF p
  <1>5. Pieces(s, es) \in [1..(Len(s) + 1) -> Seq(Runes)]
    BY <1>3, <1>4
  <1>6. Pieces(s, es) \in Seq(Seq(Runes)) /\ Len(Pieces(s, es)) = Len(s) + 1
    BY <1>2, <1>5
  <1>7. \A k \in 1..(Len(s) + 1) : Pieces(s, es)[k] = p(k)
    BY <1>4
  <1> QED
    BY <1>1, <1>2, <1>6, <1>7 DEF p

LEMMA MeantNone ==
    ASSUME NEW s \in Seq(Runes)
    PROVE  Meant(s, <<>>) = s
  <1> DEFINE P == Pieces(s, <<>>)
  <1>1. <<>> \in Seq(Edit(s)) /\ Len(s) \in Nat
    BY EmptySeq
  <1>2. /\ P \in Seq(Seq(Runes)) /\ Len(P) = Len(s) + 1
        /\ \A k \in 1..(Len(s) + 1) : P[k] =
                New(s, <<>>, k - 1) \o (IF Kept(s, <<>>, k - 1) THEN <<s[k]>> ELSE <<>>)
    BY <1>1, PiecesAre
  <1>3. \A q : New(s, <<>>, q) = <<>>
    <2>1. ASSUME NEW q PROVE New(s, <<>>, q) = <<>>
      <3>1. [i \in DOMAIN <<>> |-> IF Starts(s, <<>>[i]) = q THEN <<>>[i].new ELSE <<>>] = <<>>
        OBVIOUS
      <3> QED
        BY <3>1, FlattenNone DEF New
    <2> QED
      BY <2>1
  <1>4. \A k \in 1..Len(s) : Kept(s, <<>>, k - 1)
    BY <1>1 DEF Kept
  <1>5. ~Kept(s, <<>>, Len(s))
    BY <1>1 DEF Kept
  <1> HIDE DEF P
  <1>6. ASSUME NEW k \in 1..Len(s) PROVE P[k] = <<s[k]>>
    <2>1. k \in 1..(Len(s) + 1) /\ Kept(s, <<>>, k - 1) /\ s[k] \in Runes
      BY <1>1, <1>4, ElementOfSeq
    <2>2. P[k] = <<>> \o <<s[k]>>
      BY <1>2, <1>3, <2>1
    <2>3. <<s[k]>> \in Seq(Runes)
      BY <2>1
    <2> QED
      BY <2>2, <2>3, ConcatEmptySeq
  <1>7. P[Len(s) + 1] = <<>>
    <2>1. Len(s) + 1 \in 1..(Len(s) + 1) /\ (Len(s) + 1) - 1 = Len(s)
      BY <1>1
    <2>2. PICK k \in 1..(Len(s) + 1) : k = Len(s) + 1
      BY <2>1
    <2>3. k - 1 = Len(s)
      BY <1>1, <2>2
    <2>4. ~Kept(s, <<>>, k - 1) /\ New(s, <<>>, k - 1) = <<>>
      BY <1>3, <1>5, <2>3
    <2>5. P[k] = <<>> \o <<>>
      BY <1>2, <2>4
    <2> QED
      BY <2>2, <2>5, EmptySeq, ConcatEmptySeq
  <1>8. Len(s) \in 0..Len(P) /\ 0 \in 0..Len(P) /\ Len(s) \in 0..Len(P) /\ Len(P) \in Len(s)..Len(P)
        /\ Len(P) - Len(s) = 1
    BY <1>1, <1>2
  <1>9. FlattenSeq(Slice(P, 0, Len(s))) = s
    <2>1. Slice(P, 0, Len(s)) \in Seq(Seq(Runes)) /\ Len(Slice(P, 0, Len(s))) = Len(s) - 0
          /\ \A i \in 1..(Len(s) - 0) : Slice(P, 0, Len(s))[i] = P[0 + i]
      BY <1>2, <1>8, SliceIs
    <2>2. Singly(Slice(P, 0, Len(s)), s)
      <3>1. Len(s) - 0 = Len(s) /\ \A i \in 1..Len(s) : 0 + i = i
        BY <1>1
      <3> QED
        BY <1>6, <2>1, <3>1 DEF Singly
    <2> QED
      BY <2>1, <2>2, FlattenSingles
  <1>10. FlattenSeq(Slice(P, Len(s), Len(P))) = <<>>
    <2>0. Slice(P, Len(s), Len(P)) \in Seq(Seq(Runes)) /\ Len(Slice(P, Len(s), Len(P))) = Len(P) - Len(s)
          /\ \A i \in 1..(Len(P) - Len(s)) : Slice(P, Len(s), Len(P))[i] = P[Len(s) + i]
      BY <1>2, <1>8, SliceIs
    <2>1. Slice(P, Len(s), Len(P)) \in Seq(Seq(Runes)) /\ Len(Slice(P, Len(s), Len(P))) = 1
          /\ \A i \in 1..1 : Slice(P, Len(s), Len(P))[i] = P[Len(s) + i]
      BY <1>8, <2>0
    <2>2. \A i \in 1..Len(Slice(P, Len(s), Len(P))) : Slice(P, Len(s), Len(P))[i] = <<>>
      BY <1>7, <2>1
    <2> QED
      BY <2>1, <2>2, FlattenEmpties
  <1>11. Slice(P, 0, Len(s)) \o Slice(P, Len(s), Len(P)) = P
    <2>1. Slice(P, 0, Len(s)) \o Slice(P, Len(s), Len(P)) = Slice(P, 0, Len(P))
      BY <1>2, <1>8, SliceJoin
    <2> QED
      BY <1>2, <2>1, SliceAll
  <1>12. FlattenSeq(P) = s \o <<>>
    <2>1. Slice(P, 0, Len(s)) \in Seq(Seq(Runes)) /\ Slice(P, Len(s), Len(P)) \in Seq(Seq(Runes))
      BY <1>2, <1>8, SliceIs
    <2>2. FlattenSeq(Slice(P, 0, Len(s)) \o Slice(P, Len(s), Len(P)))
              = FlattenSeq(Slice(P, 0, Len(s))) \o FlattenSeq(Slice(P, Len(s), Len(P)))
      BY <2>1, FlattenConcat
    <2> QED
      BY <1>9, <1>10, <1>11, <2>2
  <1>13. s \o <<>> = s
    BY ConcatEmptySeq
  <1>14. Meant(s, <<>>) = FlattenSeq(P)
    BY MeantIs DEF P
  <1> QED
    BY <1>12, <1>13, <1>14

\* What the first edit adds to the pieces of the others.
LEMMA PiecesOfFirst ==
    ASSUME NEW s \in Seq(Runes), NEW e \in Edit(s), NEW rest \in Seq(Edit(s)),
           Proper(s, <<e>> \o rest)
    PROVE  LET P == Pieces(s, <<e>> \o rest)
               Q == Pieces(s, rest)
               f == Starts(s, e)
               t == Ends(s, e)
           IN  /\ \A k \in 1..t : Q[k] = <<s[k]>>
               /\ \A k \in 1..f : P[k] = <<s[k]>>
               /\ \A k \in (f + 2)..t : P[k] = <<>>
               /\ \A k \in (t + 1)..(Len(s) + 1) : k # f + 1 => P[k] = Q[k]
               /\ P[f + 1] = IF f < t THEN e.new ELSE e.new \o Q[f + 1]
  <1> DEFINE es == <<e>> \o rest
             P == Pieces(s, es)
             Q == Pieces(s, rest)
             f == Starts(s, e)
             t == Ends(s, e)
  <1>1. /\ es \in Seq(Edit(s)) /\ Len(es) = Len(rest) + 1 /\ Len(rest) \in Nat
        /\ es[1] = e /\ \A i \in 1..Len(rest) : es[i + 1] = rest[i]
    <2>1. <<e>> \in Seq(Edit(s)) /\ Len(<<e>>) = 1 /\ <<e>>[1] = e
      OBVIOUS
    <2>2. /\ es \in Seq(Edit(s)) /\ Len(es) = Len(<<e>>) + Len(rest)
          /\ \A i \in 1..(Len(<<e>>) + Len(rest)) :
                es[i] = IF i <= Len(<<e>>) THEN <<e>>[i] ELSE rest[i - Len(<<e>>)]
      BY <2>1, ConcatProperties
    <2>3. ASSUME NEW i \in 1..Len(rest) PROVE es[i + 1] = rest[i]
      <3>1. i + 1 \in 1..(1 + Len(rest)) /\ ~(i + 1 <= 1) /\ (i + 1) - 1 = i
        OBVIOUS
      <3> HIDE DEF es
      <3> QED
        BY <2>1, <2>2, <3>1
    <2>4. Len(rest) \in Nat
      OBVIOUS
    <2> HIDE DEF es
    <2> QED
      BY <2>1, <2>2, <2>3, <2>4
  <1> HIDE DEF es
  <1>2. f \in 0..Len(s) /\ t \in f..Len(s) /\ e.new \in Seq(Runes) /\ Len(s) \in Nat
        /\ f \in Nat /\ t \in Nat
    BY DEF Edit
  <1>3. \A i \in 1..Len(rest) :
            /\ t <= Starts(s, rest[i]) /\ Starts(s, rest[i]) \in Nat
            /\ Ends(s, rest[i]) \in Nat /\ Starts(s, rest[i]) <= Ends(s, rest[i])
            /\ Starts(s, rest[i]) <= Len(s)
    <2>1. ASSUME NEW i \in 1..Len(rest) PROVE t <= Starts(s, rest[i])
      <3>1. 1 \in 1..Len(es) /\ i + 1 \in 1..Len(es) /\ 1 < i + 1
        BY <1>1
      <3>2. Ends(s, es[1]) <= Starts(s, es[i + 1])
        BY <3>1 DEF Proper, es
      <3> QED
        BY <1>1, <3>2
    <2>2. \A i \in 1..Len(rest) : rest[i] \in Edit(s)
      BY ElementOfSeq
    <2>3. \A i \in 1..Len(rest) : Starts(s, rest[i]) \in 0..Len(s) /\ Ends(s, rest[i]) \in Starts(s, rest[i])..Len(s)
      BY <2>2 DEF Edit
    <2> QED
      BY <1>2, <2>1, <2>3
  <1>4. ASSUME NEW q PROVE New(s, es, q) = (IF f = q THEN e.new ELSE <<>>) \o New(s, rest, q)
    <2> DEFINE n(d) == IF Starts(s, d) = q THEN d.new ELSE <<>>
               u == [i \in DOMAIN es |-> n(es[i])]
               v == [i \in DOMAIN rest |-> n(rest[i])]
    <2>1. \A d \in Edit(s) : n(d) \in Seq(Runes)
      BY EmptySeq DEF Edit
    <2>2. DOMAIN es = 1..(Len(rest) + 1) /\ DOMAIN rest = 1..Len(rest)
      BY <1>1
    <2>3. \A i \in 1..Len(rest) : rest[i] \in Edit(s)
      BY ElementOfSeq
    <2>4. New(s, es, q) = FlattenSeq(u) /\ New(s, rest, q) = FlattenSeq(v) /\ (IF f = q THEN e.new ELSE <<>>) = n(e)
      BY DEF New
    <2> HIDE DEF n
    <2>5. v \in Seq(Seq(Runes)) /\ Len(v) = Len(rest) /\ \A i \in 1..Len(rest) : v[i] = n(rest[i])
      <3>1. v \in [1..Len(rest) -> Seq(Runes)]
        BY <2>1, <2>2, <2>3
      <3> QED
        BY <1>1, <2>2, <3>1
    <2>6. \A i \in 1..(Len(rest) + 1) : es[i] \in Edit(s)
      BY <1>1, ElementOfSeq
    <2>7. u \in Seq(Seq(Runes)) /\ Len(u) = Len(rest) + 1 /\ \A i \in 1..(Len(rest) + 1) : u[i] = n(es[i])
      <3>1. u \in [1..(Len(rest) + 1) -> Seq(Runes)]
        BY <2>1, <2>2, <2>6
      <3> QED
        BY <1>1, <2>2, <3>1
    <2> HIDE DEF u, v
    <2>8. n(e) \in Seq(Runes) /\ <<n(e)>> \in Seq(Seq(Runes)) /\ Len(<<n(e)>>) = 1 /\ <<n(e)>>[1] = n(e)
      BY <2>1
    <2>9. u = <<n(e)>> \o v
      <3>1. <<n(e)>> \o v \in Seq(Seq(Runes)) /\ Len(<<n(e)>> \o v) = 1 + Len(v)
            /\ \A i \in 1..(1 + Len(v)) : (<<n(e)>> \o v)[i] = IF i <= 1 THEN <<n(e)>>[i] ELSE v[i - 1]
        BY <2>5, <2>8, ConcatProperties
      <3>2. ASSUME NEW i \in 1..Len(u) PROVE u[i] = (<<n(e)>> \o v)[i]
        <4>1. i \in 1..(Len(rest) + 1) /\ i \in 1..(1 + Len(v))
          BY <1>1, <2>5, <2>7
        <4>2. CASE i = 1
          <5>1. u[1] = n(e)
            BY <1>1, <2>7, <4>1, <4>2
          <5>2. (<<n(e)>> \o v)[1] = n(e)
            BY <2>8, <3>1, <4>1, <4>2
          <5> QED
            BY <4>2, <5>1, <5>2
        <4>3. CASE i # 1
          <5>1. i - 1 \in 1..Len(rest) /\ (i - 1) + 1 = i /\ ~(i <= 1)
            BY <1>1, <4>1, <4>3
          <5>2. es[i] = rest[i - 1]
            BY <1>1, <5>1
          <5>3. v[i - 1] = n(rest[i - 1]) /\ u[i] = n(es[i])
            BY <2>5, <2>7, <4>1, <5>1
          <5> QED
            BY <3>1, <4>1, <5>1, <5>2, <5>3
        <4> QED
          BY <4>2, <4>3
      <3>3. Len(u) = Len(<<n(e)>> \o v)
        BY <1>1, <2>5, <2>7, <3>1
      <3> QED
        BY <2>7, <3>1, <3>2, <3>3, SeqEqual
    <2>10. FlattenSeq(u) = FlattenSeq(<<n(e)>>) \o FlattenSeq(v)
      BY <2>5, <2>8, <2>9, FlattenConcat
    <2>11. FlattenSeq(<<n(e)>>) = n(e)
      BY <2>8, FlattenOne
    <2> QED
      BY <2>4, <2>10, <2>11
  <1>5. ASSUME NEW q PROVE Kept(s, es, q) <=> Kept(s, rest, q) /\ ~(f <= q /\ q < t)
    <2>1. DOMAIN es = 1..(Len(rest) + 1) /\ DOMAIN rest = 1..Len(rest)
      BY <1>1
    <2> DEFINE c(d) == ~(Starts(s, d) <= q /\ q < Ends(s, d))
    <2>2. Kept(s, es, q) <=> q < Len(s) /\ \A i \in 1..(Len(rest) + 1) : c(es[i])
      BY <2>1 DEF Kept
    <2>3. Kept(s, rest, q) <=> q < Len(s) /\ \A i \in 1..Len(rest) : c(rest[i])
      BY <2>1 DEF Kept
    <2>4. c(e) <=> ~(f <= q /\ q < t)
      OBVIOUS
    <2> HIDE DEF c, f, t
    <2>5. (\A i \in 1..(Len(rest) + 1) : c(es[i])) <=> c(e) /\ \A i \in 1..Len(rest) : c(rest[i])
      <3>1. ASSUME \A i \in 1..(Len(rest) + 1) : c(es[i]) PROVE c(e) /\ \A i \in 1..Len(rest) : c(rest[i])
        <4>1. 1 \in 1..(Len(rest) + 1) /\ \A i \in 1..Len(rest) : i + 1 \in 1..(Len(rest) + 1)
          BY <1>1
        <4> QED
          BY <1>1, <3>1, <4>1
      <3>2. ASSUME c(e), \A i \in 1..Len(rest) : c(rest[i]), NEW i \in 1..(Len(rest) + 1) PROVE c(es[i])
        <4>1. CASE i = 1
          BY <1>1, <3>2, <4>1
        <4>2. CASE i # 1
          <5>1. i - 1 \in 1..Len(rest) /\ (i - 1) + 1 = i
            BY <1>1, <4>2
          <5>2. es[i] = rest[i - 1]
            BY <1>1, <5>1
          <5> QED
            BY <3>2, <5>1, <5>2
        <4> QED
          BY <4>1, <4>2
      <3> QED
        BY <3>1, <3>2
    <2> QED
      BY <2>2, <2>3, <2>4, <2>5
  <1>6. \A k \in 1..(Len(s) + 1) :
            /\ P[k] = New(s, es, k - 1) \o (IF Kept(s, es, k - 1) THEN <<s[k]>> ELSE <<>>)
            /\ Q[k] = New(s, rest, k - 1) \o (IF Kept(s, rest, k - 1) THEN <<s[k]>> ELSE <<>>)
    BY <1>1, PiecesAre
  <1>7. /\ \A q : New(s, rest, q) \in Seq(Runes) /\ New(s, es, q) \in Seq(Runes)
        /\ Q \in Seq(Seq(Runes)) /\ Len(Q) = Len(s) + 1
    BY <1>1, PiecesAre
  <1>8. \A x \in Seq(Runes) : <<>> \o x = x /\ x \o <<>> = x
    BY ConcatEmptySeq
  <1>9. <<>> \in Seq(Runes)
    BY EmptySeq
  \* before its end the others leave the text as it is
  <1>10. ASSUME NEW q \in 0..(t - 1) PROVE New(s, rest, q) = <<>> /\ Kept(s, rest, q)
    <2>1. \A i \in 1..Len(rest) : Starts(s, rest[i]) # q /\ ~(Starts(s, rest[i]) <= q)
      BY <1>2, <1>3
    <2>2. DOMAIN rest = 1..Len(rest)
      OBVIOUS
    <2> DEFINE v == [i \in DOMAIN rest |-> IF Starts(s, rest[i]) = q THEN rest[i].new ELSE <<>>]
    <2>3. v = [i \in 1..Len(rest) |-> <<>>]
      BY <2>1, <2>2
    <2> HIDE DEF v
    <2>4. v \in Seq(Seq(Runes)) /\ \A i \in 1..Len(v) : v[i] = <<>>
      <3>1. v \in [1..Len(rest) -> Seq(Runes)] /\ \A i \in 1..Len(rest) : v[i] = <<>>
        BY <1>9, <2>3
      <3>2. v \in Seq(Seq(Runes)) /\ Len(v) = Len(rest)
        BY <1>1, <3>1
      <3> QED
        BY <3>1, <3>2
    <2>5. FlattenSeq(v) = <<>>
      BY <2>4, FlattenEmpties
    <2>6. New(s, rest, q) = <<>>
      BY <2>5 DEF New, v
    <2>7. q < Len(s)
      BY <1>2
    <2> QED
      BY <2>1, <2>2, <2>6, <2>7 DEF Kept
  <1> HIDE DEF P, Q
  <1>11. ASSUME NEW k \in 1..t PROVE Q[k] = <<s[k]>> /\ <<s[k]>> \in Seq(Runes)
    <2>1. k - 1 \in 0..(t - 1) /\ k \in 1..(Len(s) + 1) /\ k \in 1..Len(s)
      BY <1>2
    <2>2. Q[k] = <<>> \o <<s[k]>>
      BY <1>6, <1>10, <2>1
    <2>3. s[k] \in Runes
      BY <2>1, ElementOfSeq
    <2>4. <<s[k]>> \in Seq(Runes)
      BY <2>3
    <2> QED
      BY <1>8, <2>2, <2>4
  <1>12. ASSUME NEW k \in 1..f PROVE P[k] = <<s[k]>>
    <2>1. k - 1 \in 0..(t - 1) /\ k \in 1..(Len(s) + 1) /\ f # k - 1 /\ ~(f <= k - 1) /\ k \in 1..t
      BY <1>2
    <2>2. New(s, es, k - 1) = <<>> \o <<>>
      BY <1>4, <1>10, <2>1
    <2>3. New(s, es, k - 1) = <<>>
      BY <1>8, <1>9, <2>2
    <2>4. Kept(s, es, k - 1)
      BY <1>5, <1>10, <2>1
    <2>5. P[k] = <<>> \o <<s[k]>>
      BY <1>6, <2>1, <2>3, <2>4
    <2> QED
      BY <1>8, <1>11, <2>1, <2>5
  <1>13. ASSUME NEW k \in (f + 2)..t PROVE P[k] = <<>>
    <2>1. k - 1 \in 0..(t - 1) /\ k \in 1..(Len(s) + 1) /\ f # k - 1 /\ f <= k - 1 /\ k - 1 < t
      BY <1>2
    <2>2. New(s, es, k - 1) = <<>> \o <<>>
      BY <1>4, <1>10, <2>1
    <2>3. New(s, es, k - 1) = <<>>
      BY <1>8, <1>9, <2>2
    <2>4. ~Kept(s, es, k - 1)
      BY <1>5, <2>1
    <2>5. P[k] = <<>> \o <<>>
      BY <1>6, <2>1, <2>3, <2>4
    <2> QED
      BY <1>8, <1>9, <2>5
  <1>14. ASSUME NEW k \in (t + 1)..(Len(s) + 1), k # f + 1 PROVE P[k] = Q[k]
    <2>1. k \in 1..(Len(s) + 1) /\ f # k - 1 /\ ~(k - 1 < t)
      BY <1>2, <1>14
    <2>2. New(s, es, k - 1) = <<>> \o New(s, rest, k - 1)
      BY <1>4, <2>1
    <2>3. New(s, es, k - 1) = New(s, rest, k - 1)
      BY <1>7, <1>8, <2>2
    <2>4. Kept(s, es, k - 1) <=> Kept(s, rest, k - 1)
      BY <1>5, <2>1
    <2> QED
      BY <1>6, <2>1, <2>3, <2>4
  <1>15. P[f + 1] = IF f < t THEN e.new ELSE e.new \o Q[f + 1]
    <2>1. PICK k \in 1..(Len(s) + 1) : k = f + 1
      BY <1>2
    <2>2. k - 1 = f
      BY <1>2, <2>1
    <2>3. New(s, es, k - 1) = e.new \o New(s, rest, k - 1)
      BY <1>4, <2>2
    <2>4. CASE f < t
      <3>1. k - 1 \in 0..(t - 1)
        BY <1>2, <2>2, <2>4
      <3>2. New(s, es, k - 1) = e.new
        BY <1>2, <1>8, <1>10, <2>3, <3>1
      <3>3. ~Kept(s, es, k - 1)
        BY <1>2, <1>5, <2>2, <2>4
      <3>4. P[k] = e.new \o <<>>
        BY <1>6, <3>2, <3>3
      <3> QED
        BY <1>2, <1>8, <2>1, <2>4, <3>4
    <2>5. CASE ~(f < t)
      <3> DEFINE w == IF Kept(s, rest, k - 1) THEN <<s[k]>> ELSE <<>>
                 n == New(s, rest, k - 1)
      <3>1. Kept(s, es, k - 1) <=> Kept(s, rest, k - 1)
        BY <1>2, <1>5, <2>2, <2>5
      <3>2. P[k] = (e.new \o n) \o w /\ Q[k] = n \o w
        BY <1>6, <2>3, <3>1
      <3>3. w \in Seq(Runes)
        <4>1. CASE Kept(s, rest, k - 1)
          <5>1. k - 1 < Len(s)
            BY <4>1 DEF Kept
          <5>2. k \in 1..Len(s)
            BY <1>2, <5>1
          <5>3. s[k] \in Runes
            BY <5>2, ElementOfSeq
          <5> QED
            BY <4>1, <5>3
        <4>2. CASE ~Kept(s, rest, k - 1)
          BY <1>9, <4>2
        <4> QED
          BY <4>1, <4>2
      <3>4. n \in Seq(Runes)
        BY <1>7
      <3> HIDE DEF w, n
      <3>5. Cat(Cat(e.new, n), w) = Cat(e.new, Cat(n, w))
        BY <1>2, <3>3, <3>4, Assoc
      <3> QED
        BY <2>1, <2>5, <3>2, <3>5 DEF Cat
    <2> QED
      BY <2>4, <2>5
  <1> QED
    BY <1>11, <1>12, <1>13, <1>14, <1>15 DEF P, Q, es

\* The pieces from an offset on, where there are two ways to cut them.
LEMMA FlattenSlice ==
    ASSUME NEW P \in Seq(Seq(Runes)), NEW a \in 0..Len(P), NEW b \in a..Len(P)
    PROVE  /\ Slice(P, a, b) \in Seq(Seq(Runes)) /\ FlattenSeq(Slice(P, a, b)) \in Seq(Runes)
  <1>1. Slice(P, a, b) \in Seq(Seq(Runes))
    BY SliceIs
  <1>2. FlattenSeq(Slice(P, a, b)) \in Seq(Runes)
    BY <1>1, FlattenAppend, EmptySeq
  <1> QED
    BY <1>1, <1>2

LEMMA FlattenCut ==
    ASSUME NEW P \in Seq(Seq(Runes)), NEW a \in 0..Len(P), NEW b \in a..Len(P), NEW c \in b..Len(P)
    PROVE  FlattenSeq(Slice(P, a, c)) = FlattenSeq(Slice(P, a, b)) \o FlattenSeq(Slice(P, b, c))
  <1>1. b \in 0..Len(P)
    OBVIOUS
  <1>2. Slice(P, a, b) \in Seq(Seq(Runes)) /\ Slice(P, b, c) \in Seq(Seq(Runes))
    BY <1>1, FlattenSlice
  <1>3. Slice(P, a, b) \o Slice(P, b, c) = Slice(P, a, c)
    BY SliceJoin
  <1>4. FlattenSeq(Slice(P, a, b) \o Slice(P, b, c)) = FlattenSeq(Slice(P, a, b)) \o FlattenSeq(Slice(P, b, c))
    BY <1>2, FlattenConcat
  <1> QED
    BY <1>3, <1>4

\* The first n pieces, when they are the first n runes, make these.
LEMMA FlattenFirst ==
    ASSUME NEW s \in Seq(Runes), NEW P \in Seq(Seq(Runes)), NEW n \in 0..Len(s), n <= Len(P),
           \A k \in 1..n : P[k] = <<s[k]>>
    PROVE  FlattenSeq(Slice(P, 0, n)) = Slice(s, 0, n)
  <1>1. 0 \in 0..Len(P) /\ 0 \in 0..Len(s) /\ n \in 0..Len(P) /\ n \in 0..Len(s) /\ n \in Nat
    OBVIOUS
  <1>2. Slice(P, 0, n) \in Seq(Seq(Runes)) /\ Len(Slice(P, 0, n)) = n - 0
        /\ \A i \in 1..(n - 0) : Slice(P, 0, n)[i] = P[0 + i]
    BY <1>1, SliceIs
  <1>3. Slice(s, 0, n) \in Seq(Runes) /\ Len(Slice(s, 0, n)) = n - 0
        /\ \A i \in 1..(n - 0) : Slice(s, 0, n)[i] = s[0 + i]
    BY <1>1, SliceIs
  <1>4. n - 0 = n /\ \A i \in 1..n : 0 + i = i
    BY <1>1
  <1>5. Singly(Slice(P, 0, n), Slice(s, 0, n))
    BY <1>2, <1>3, <1>4 DEF Singly
  <1> QED
    BY <1>2, <1>3, <1>5, FlattenSingles

\* Pieces that are alike from an offset on.
LEMMA SliceAlike ==
    ASSUME NEW P \in Seq(Seq(Runes)), NEW Q \in Seq(Seq(Runes)), Len(P) = Len(Q),
           NEW a \in 0..Len(P), \A k \in (a + 1)..Len(P) : P[k] = Q[k]
    PROVE  Slice(P, a, Len(P)) = Slice(Q, a, Len(Q))
  <1>1. Len(P) \in a..Len(P) /\ a \in 0..Len(Q) /\ Len(Q) \in a..Len(Q)
    OBVIOUS
  <1>2. Slice(P, a, Len(P)) \in Seq(Seq(Runes)) /\ Len(Slice(P, a, Len(P))) = Len(P) - a
        /\ \A i \in 1..(Len(P) - a) : Slice(P, a, Len(P))[i] = P[a + i]
    BY <1>1, SliceIs
  <1>3. Slice(Q, a, Len(Q)) \in Seq(Seq(Runes)) /\ Len(Slice(Q, a, Len(Q))) = Len(Q) - a
        /\ \A i \in 1..(Len(Q) - a) : Slice(Q, a, Len(Q))[i] = Q[a + i]
    BY <1>1, SliceIs
  <1>4. \A i \in 1..(Len(P) - a) : P[a + i] = Q[a + i]
    <2>1. ASSUME NEW i \in 1..(Len(P) - a) PROVE P[a + i] = Q[a + i]
      <3>1. a + i \in (a + 1)..Len(P)
        BY <1>1
      <3> QED
        BY <3>1
    <2> QED
      BY <2>1
  <1> QED
    BY <1>2, <1>3, <1>4, SeqEqual

LEMMA MeantFirst ==
    ASSUME NEW s \in Seq(Runes), NEW e \in Edit(s), NEW rest \in Seq(Edit(s)),
           Proper(s, <<e>> \o rest)
    PROVE  /\ Meant(s, rest) \in Seq(Runes)
           /\ Ends(s, e) <= Len(Meant(s, rest))
           /\ Slice(Meant(s, rest), 0, Ends(s, e)) = Slice(s, 0, Ends(s, e))
           /\ Meant(s, <<e>> \o rest) = Replaced(Meant(s, rest), Starts(s, e), Ends(s, e), e.new)
  <1> DEFINE P == Pieces(s, <<e>> \o rest)
             Q == Pieces(s, rest)
             f == Starts(s, e)
             t == Ends(s, e)
  <1>1. f \in 0..Len(s) /\ t \in f..Len(s) /\ e.new \in Seq(Runes) /\ Len(s) \in Nat
        /\ f \in Nat /\ t \in Nat /\ f <= t
    BY DEF Edit
  <1>2. <<e>> \o rest \in Seq(Edit(s))
    BY DEF Proper
  <1>3. P \in Seq(Seq(Runes)) /\ Len(P) = Len(s) + 1 /\ Q \in Seq(Seq(Runes)) /\ Len(Q) = Len(s) + 1
    BY <1>2, PiecesAre
  <1>4. /\ \A k \in 1..t : Q[k] = <<s[k]>>
        /\ \A k \in 1..f : P[k] = <<s[k]>>
        /\ \A k \in (f + 2)..t : P[k] = <<>>
        /\ \A k \in (t + 1)..(Len(s) + 1) : k # f + 1 => P[k] = Q[k]
        /\ P[f + 1] = IF f < t THEN e.new ELSE e.new \o Q[f + 1]
    BY PiecesOfFirst
  <1>5. Meant(s, <<e>> \o rest) = FlattenSeq(P) /\ Meant(s, rest) = FlattenSeq(Q)
    BY MeantIs
  <1> HIDE DEF P, Q, f, t
  <1>6. Slice(P, 0, Len(P)) = P /\ Slice(Q, 0, Len(Q)) = Q
    BY <1>3, SliceAll
  <1>7. /\ 0 \in 0..Len(P) /\ f \in 0..Len(P) /\ t \in 0..Len(P) /\ Len(P) \in t..Len(P)
        /\ f + 1 \in 0..Len(P) /\ f + 1 \in f..Len(P) /\ t \in f..Len(P) /\ Len(P) \in f..Len(P)
        /\ Len(P) \in (f + 1)..Len(P) /\ (f < t => t \in (f + 1)..Len(P))
        /\ 0 \in 0..Len(Q) /\ t \in 0..Len(Q) /\ Len(Q) \in t..Len(Q)
        /\ f + 1 \in 0..Len(Q) /\ f + 1 \in f..Len(Q) /\ f \in 0..Len(Q) /\ (f = t => f + 1 \in t..Len(Q))
        /\ Len(Q) \in (f + 1)..Len(Q)
        /\ t \in 0..Len(s) /\ f \in 0..Len(s) /\ f <= Len(P) /\ t <= Len(Q)
        /\ Len(P) = Len(Q) /\ 0 \in 0..Len(s) /\ Len(s) \in t..Len(s)
    BY <1>1, <1>3
  <1> DEFINE X == FlattenSeq(Slice(Q, t, Len(Q)))
             A == Slice(s, 0, t)
             B == Slice(s, 0, f)
  <1>8. X \in Seq(Runes)
    BY <1>1, <1>3, <1>7, FlattenSlice
  <1>9. FlattenSeq(Q) = A \o X
    <2>1. FlattenSeq(Slice(Q, 0, Len(Q))) = FlattenSeq(Slice(Q, 0, t)) \o X
      BY <1>1, <1>3, <1>7, FlattenCut
    <2>2. FlattenSeq(Slice(Q, 0, t)) = A
      BY <1>1, <1>3, <1>4, <1>7, FlattenFirst
    <2> QED
      BY <1>6, <2>1, <2>2
  <1>10. FlattenSeq(P) = B \o FlattenSeq(Slice(P, f, Len(P)))
    <2>1. FlattenSeq(Slice(P, 0, Len(P))) = FlattenSeq(Slice(P, 0, f)) \o FlattenSeq(Slice(P, f, Len(P)))
      BY <1>1, <1>3, <1>7, FlattenCut
    <2>2. FlattenSeq(Slice(P, 0, f)) = B
      BY <1>1, <1>3, <1>4, <1>7, FlattenFirst
    <2> QED
      BY <1>6, <2>1, <2>2
  <1>11. FlattenSeq(Slice(P, f, f + 1)) = P[f + 1]
    <2>1. Slice(P, f, f + 1) \in Seq(Seq(Runes)) /\ Len(Slice(P, f, f + 1)) = (f + 1) - f
          /\ \A i \in 1..((f + 1) - f) : Slice(P, f, f + 1)[i] = P[f + i]
      BY <1>1, <1>3, <1>7, SliceIs
    <2>2. (f + 1) - f = 1
      BY <1>1
    <2>3. Slice(P, f, f + 1) = <<P[f + 1]>>
      BY <2>1, <2>2
    <2>4. P[f + 1] \in Seq(Runes)
      <3>1. f + 1 \in 1..Len(P)
        BY <1>1, <1>3
      <3> QED
        BY <1>1, <1>3, <1>7, <2>1, <3>1, ElementOfSeq
    <2> QED
      BY <2>3, <2>4, FlattenOne
  <1>12. FlattenSeq(Slice(P, f, Len(P))) = FlattenSeq(Slice(P, f, f + 1)) \o FlattenSeq(Slice(P, f + 1, Len(P)))
    BY <1>1, <1>3, <1>7, FlattenCut
  <1>13. FlattenSeq(Slice(P, f, Len(P))) = e.new \o X
    <2>1. CASE f < t
      <3>1. t \in (f + 1)..Len(P) /\ Len(P) \in t..Len(P) /\ f + 1 \in 0..Len(P)
        BY <1>1, <1>7, <2>1
      <3>2. FlattenSeq(Slice(P, f + 1, Len(P))) = FlattenSeq(Slice(P, f + 1, t)) \o FlattenSeq(Slice(P, t, Len(P)))
        BY <1>1, <1>3, <1>7, <2>1, <3>1, FlattenCut
      <3>3. FlattenSeq(Slice(P, f + 1, t)) = <<>>
        <4>1. Slice(P, f + 1, t) \in Seq(Seq(Runes)) /\ Len(Slice(P, f + 1, t)) = t - (f + 1)
              /\ \A i \in 1..(t - (f + 1)) : Slice(P, f + 1, t)[i] = P[(f + 1) + i]
          BY <1>1, <1>3, <1>7, <2>1, <3>1, SliceIs
        <4>2. \A i \in 1..(t - (f + 1)) : (f + 1) + i \in (f + 2)..t
          BY <1>1, <2>1
        <4>3. \A i \in 1..Len(Slice(P, f + 1, t)) : Slice(P, f + 1, t)[i] = <<>>
          BY <1>4, <4>1, <4>2
        <4> QED
          BY <4>1, <4>3, FlattenEmpties
      <3>4. Slice(P, t, Len(P)) = Slice(Q, t, Len(Q))
        <4>1. \A k \in (t + 1)..Len(P) : k # f + 1
          BY <1>1, <2>1
        <4>2. \A k \in (t + 1)..Len(P) : P[k] = Q[k]
          BY <1>1, <1>3, <1>4, <4>1
        <4> QED
          BY <1>1, <1>3, <1>7, <4>2, SliceAlike
      <3>5. <<>> \o X = X
        BY <1>8, ConcatEmptySeq
      <3>6. FlattenSeq(Slice(P, f + 1, Len(P))) = X
        BY <3>2, <3>3, <3>4, <3>5
      <3> QED
        BY <1>4, <1>11, <1>12, <2>1, <3>6
    <2>2. CASE ~(f < t)
      <3>1. f = t
        BY <1>1, <2>2
      <3>2. Slice(P, f + 1, Len(P)) = Slice(Q, f + 1, Len(Q))
        <4>1. \A k \in ((f + 1) + 1)..Len(P) : k # f + 1 /\ k \in (t + 1)..Len(P)
          BY <1>1, <3>1
        <4>2. \A k \in ((f + 1) + 1)..Len(P) : P[k] = Q[k]
          BY <1>1, <1>3, <1>4, <4>1
        <4> QED
          BY <1>1, <1>3, <1>7, <4>2, SliceAlike
      <3>3. X = FlattenSeq(Slice(Q, f, f + 1)) \o FlattenSeq(Slice(Q, f + 1, Len(Q)))
        BY <1>1, <1>3, <1>7, <3>1, FlattenCut
      <3>4. FlattenSeq(Slice(Q, f, f + 1)) = Q[f + 1] /\ Q[f + 1] \in Seq(Runes)
        <4>1. Slice(Q, f, f + 1) \in Seq(Seq(Runes)) /\ Len(Slice(Q, f, f + 1)) = (f + 1) - f
              /\ \A i \in 1..((f + 1) - f) : Slice(Q, f, f + 1)[i] = Q[f + i]
          BY <1>1, <1>3, <1>7, SliceIs
        <4>2. (f + 1) - f = 1
          BY <1>1
        <4>3. Slice(Q, f, f + 1) = <<Q[f + 1]>>
          BY <4>1, <4>2
        <4>4. Q[f + 1] \in Seq(Runes)
          <5>1. f + 1 \in 1..Len(Q)
            BY <1>1, <1>3
          <5> QED
            BY <1>3, <5>1, ElementOfSeq
        <4> QED
          BY <4>3, <4>4, FlattenOne
      <3>5. FlattenSeq(Slice(Q, f + 1, Len(Q))) \in Seq(Runes)
        BY <1>1, <1>3, <1>7, FlattenSlice
      <3>6. Cat(Cat(e.new, Q[f + 1]), FlattenSeq(Slice(Q, f + 1, Len(Q))))
                = Cat(e.new, Cat(Q[f + 1], FlattenSeq(Slice(Q, f + 1, Len(Q)))))
        BY <1>1, <3>4, <3>5, Assoc
      <3> HIDE DEF X
      <3> QED
        BY <1>4, <1>11, <1>12, <2>2, <3>2, <3>3, <3>4, <3>6 DEF Cat
    <2> QED
      BY <2>1, <2>2
  <1> HIDE DEF X
  <1>14. A \in Seq(Runes) /\ Len(A) = t /\ B \in Seq(Runes)
    <2>1. A \in Seq(Runes) /\ Len(A) = t - 0 /\ B \in Seq(Runes)
      BY <1>1, <1>7, SliceIs
    <2> QED
      BY <1>1, <2>1
  <1> DEFINE M == FlattenSeq(Q)
  <1> HIDE DEF A, B
  <1>15. M = A \o X /\ M \in Seq(Runes) /\ Len(M) = t + Len(X) /\ Len(X) \in Nat
    <2>1. A \o X \in Seq(Runes) /\ Len(A \o X) = Len(A) + Len(X)
      BY <1>8, <1>14, ConcatProperties
    <2>2. Len(X) \in Nat
      BY <1>8
    <2> QED
      BY <1>9, <1>14, <2>1, <2>2
  <1>16. Slice(M, 0, t) = A
    <2>1. t \in 0..Len(A) /\ Slice(A, 0, Len(A)) = A
      BY <1>1, <1>14, SliceAll
    <2>2. Slice(A \o X, 0, t) = Slice(A, 0, t)
      BY <1>8, <1>14, <2>1, SliceOfFirst
    <2> HIDE DEF M
    <2> QED
      BY <1>14, <1>15, <2>1, <2>2
  <1>17. Slice(M, t, Len(M)) = X
    <2>1. Slice(A \o X, Len(A), Len(A \o X)) = X
      BY <1>8, <1>14, SliceOfSecond
    <2> HIDE DEF M
    <2> QED
      BY <1>14, <1>15, <2>1
  <1>18. Slice(M, 0, f) = B
    <2>1. f \in 0..Len(A)
      BY <1>1, <1>14
    <2>2. Slice(A \o X, 0, f) = Slice(A, 0, f)
      BY <1>8, <1>14, <2>1, SliceOfFirst
    <2>3. A \o Slice(s, t, Len(s)) = s
      <3>1. A \o Slice(s, t, Len(s)) = Slice(s, 0, Len(s))
        BY <1>1, <1>7, SliceJoin DEF A
      <3> QED
        BY <3>1, SliceAll
    <2>4. Slice(s, t, Len(s)) \in Seq(Runes)
      BY <1>1, <1>7, SliceIs
    <2>5. Slice(A \o Slice(s, t, Len(s)), 0, f) = Slice(A, 0, f)
      BY <1>14, <2>1, <2>4, SliceOfFirst
    <2> HIDE DEF M
    <2>6. Slice(s, 0, f) = Slice(A, 0, f)
      BY <2>3, <2>5
    <2> QED
      BY <1>15, <2>2, <2>6 DEF B
  <1>19. FlattenSeq(P) = B \o (e.new \o X)
    BY <1>10, <1>13
  <1>20. Cat(Cat(B, e.new), X) = Cat(B, Cat(e.new, X))
    BY <1>1, <1>8, <1>14, Assoc
  <1> HIDE DEF M
  <1>21. Replaced(M, f, t, e.new) = (B \o e.new) \o X
    BY <1>17, <1>18 DEF Replaced
  <1>22. t <= Len(M)
    BY <1>1, <1>15
  <1>23. FlattenSeq(P) = Replaced(M, f, t, e.new)
    BY <1>19, <1>20, <1>21 DEF Cat
  <1> QED
    BY <1>5, <1>15, <1>16, <1>22, <1>23 DEF A, M, f, t
-----------------------------------------------------------------------------
(* What the user types, and the replacements above it.                     *)

Plain == Runes \ {"t"}

LEMMA UntypedConcat ==
    ASSUME NEW u \in Seq(Runes), NEW v \in Seq(Runes)
    PROVE  /\ Untyped(u) \in Seq(Runes)
           /\ Untyped(u \o v) = Untyped(u) \o Untyped(v)
  <1> DEFINE x(r) == IF r = "t" THEN <<>> ELSE <<r>>
             parts(s) == [i \in DOMAIN s |-> x(s[i])]
  <1>1. \A s : Untyped(s) = FlattenSeq(parts(s))
    BY DEF Untyped
  <1>2. \A r \in Runes : x(r) \in Seq(Runes)
    <2>1. <<>> \in Seq(Runes) /\ \A r \in Runes : <<r>> \in Seq(Runes)
      BY EmptySeq
    <2> QED
      BY <2>1
  <1> HIDE DEF x
  <1>3. ASSUME NEW s \in Seq(Runes)
        PROVE  /\ parts(s) \in Seq(Seq(Runes)) /\ Len(parts(s)) = Len(s)
               /\ \A i \in 1..Len(s) : parts(s)[i] = x(s[i])
    <2>1. DOMAIN s = 1..Len(s) /\ Len(s) \in Nat /\ \A i \in 1..Len(s) : s[i] \in Runes
      BY ElementOfSeq
    <2>2. parts(s) \in [1..Len(s) -> Seq(Runes)]
      BY <1>2, <2>1
    <2> QED
      BY <2>1, <2>2
  <1>4. u \o v \in Seq(Runes) /\ Len(u \o v) = Len(u) + Len(v)
        /\ \A i \in 1..(Len(u) + Len(v)) : (u \o v)[i] = IF i <= Len(u) THEN u[i] ELSE v[i - Len(u)]
    BY ConcatProperties
  <1> HIDE DEF parts
  <1>5. /\ parts(u) \o parts(v) \in Seq(Seq(Runes)) /\ Len(parts(u) \o parts(v)) = Len(u) + Len(v)
        /\ \A i \in 1..(Len(u) + Len(v)) : (parts(u) \o parts(v))[i] =
                IF i <= Len(u) THEN parts(u)[i] ELSE parts(v)[i - Len(u)]
    <2>1. parts(u) \in Seq(Seq(Runes)) /\ parts(v) \in Seq(Seq(Runes)) /\ Len(parts(u)) = Len(u) /\ Len(parts(v)) = Len(v)
      BY <1>3
    <2>2. /\ parts(u) \o parts(v) \in Seq(Seq(Runes)) /\ Len(parts(u) \o parts(v)) = Len(parts(u)) + Len(parts(v))
          /\ \A i \in 1..(Len(parts(u)) + Len(parts(v))) : (parts(u) \o parts(v))[i] =
                  IF i <= Len(parts(u)) THEN parts(u)[i] ELSE parts(v)[i - Len(parts(u))]
      BY <2>1, ConcatProperties
    <2> QED
      BY <2>1, <2>2
  <1>6. parts(u \o v) = parts(u) \o parts(v)
    <2>1. /\ parts(u \o v) \in Seq(Seq(Runes)) /\ Len(parts(u \o v)) = Len(u) + Len(v)
          /\ \A i \in 1..(Len(u) + Len(v)) : parts(u \o v)[i] = x((u \o v)[i])
      <3>1. PICK w \in Seq(Runes) : w = u \o v
        BY <1>4
      <3>2. /\ parts(w) \in Seq(Seq(Runes)) /\ Len(parts(w)) = Len(w)
            /\ \A i \in 1..Len(w) : parts(w)[i] = x(w[i])
        BY <1>3
      <3> QED
        BY <1>4, <3>1, <3>2
    <2>2. ASSUME NEW i \in 1..(Len(u) + Len(v)) PROVE parts(u \o v)[i] = (parts(u) \o parts(v))[i]
      <3>1. CASE i <= Len(u)
        <4>1. i \in 1..Len(u) /\ (u \o v)[i] = u[i]
          BY <1>4, <3>1
        <4> QED
          BY <1>3, <1>5, <2>1, <3>1, <4>1
      <3>2. CASE ~(i <= Len(u))
        <4>1. i - Len(u) \in 1..Len(v) /\ (u \o v)[i] = v[i - Len(u)]
          BY <1>4, <3>2
        <4>2. parts(v)[i - Len(u)] = x(v[i - Len(u)])
          BY <1>3, <4>1
        <4> QED
          BY <1>5, <2>1, <3>2, <4>1, <4>2
      <3> QED
        BY <3>1, <3>2
    <2> QED
      BY <1>5, <2>1, <2>2, SeqEqual
  <1>7. parts(u) \in Seq(Seq(Runes)) /\ parts(v) \in Seq(Seq(Runes))
    BY <1>3
  <1>8. FlattenSeq(parts(u) \o parts(v)) = FlattenSeq(parts(u)) \o FlattenSeq(parts(v))
    BY <1>7, FlattenConcat
  <1>9. FlattenSeq(parts(u)) \in Seq(Runes)
    BY <1>7, FlattenAppend, EmptySeq
  <1> QED
    BY <1>1, <1>6, <1>8, <1>9

LEMMA UntypedPlain ==
    ASSUME NEW u \in Seq(Plain)
    PROVE  Untyped(u) = u /\ u \in Seq(Runes)
  <1>1. DOMAIN u = 1..Len(u) /\ Len(u) \in Nat /\ \A i \in 1..Len(u) : u[i] \in Runes /\ u[i] # "t"
    BY ElementOfSeq DEF Plain
  <1> DEFINE p == [i \in DOMAIN u |-> IF u[i] = "t" THEN <<>> ELSE <<u[i]>>]
  <1>2. p = [i \in 1..Len(u) |-> <<u[i]>>]
    BY <1>1
  <1> HIDE DEF p
  <1>3. \A i \in 1..Len(u) : <<u[i]>> \in Seq(Runes)
    BY <1>1
  <1>4. p \in [1..Len(u) -> Seq(Runes)] /\ \A i \in 1..Len(u) : p[i] = <<u[i]>>
    BY <1>2, <1>3
  <1>5. p \in Seq(Seq(Runes)) /\ Len(p) = Len(u)
    BY <1>1, <1>4
  <1>6. Singly(p, u)
    BY <1>4, <1>5 DEF Singly
  <1>7. u \in Seq(Runes)
    BY SeqMonotonic DEF Plain
  <1>8. FlattenSeq(p) = u
    BY <1>5, <1>6, <1>7, FlattenSingles
  <1> QED
    BY <1>7, <1>8 DEF Untyped, p

LEMMA UntypedTyped == Untyped(<<"t">>) = <<>> /\ <<"t">> \in Seq(Runes) /\ Len(<<"t">>) = 1
  <1>1. [i \in DOMAIN <<"t">> |-> IF <<"t">>[i] = "t" THEN <<>> ELSE <<<<"t">>[i]>>] = <<<<>>>>
    OBVIOUS
  <1>2. FlattenSeq(<<<<>>>>) = <<>>
    <2>1. <<>> \in Seq(Runes)
      BY EmptySeq
    <2> QED
      BY <2>1, FlattenOne
  <1> QED
    BY <1>1, <1>2 DEF Untyped, Runes

\* A text is what is before an offset and what is after it.
LEMMA Split ==
    ASSUME NEW T, NEW s \in Seq(T), NEW t \in 0..Len(s)
    PROVE  /\ Slice(s, 0, t) \in Seq(T) /\ Slice(s, t, Len(s)) \in Seq(T)
           /\ Len(Slice(s, 0, t)) = t /\ Len(Slice(s, t, Len(s))) = Len(s) - t
           /\ s = Slice(s, 0, t) \o Slice(s, t, Len(s))
  <1>1. 0 \in 0..Len(s) /\ t \in 0..Len(s) /\ Len(s) \in t..Len(s) /\ t - 0 = t
    OBVIOUS
  <1>2. Slice(s, 0, t) \in Seq(T) /\ Len(Slice(s, 0, t)) = t - 0
    BY <1>1, SliceIs
  <1>3. Slice(s, t, Len(s)) \in Seq(T) /\ Len(Slice(s, t, Len(s))) = Len(s) - t
    BY <1>1, SliceIs
  <1>4. Slice(s, 0, t) \o Slice(s, t, Len(s)) = Slice(s, 0, Len(s))
    BY <1>1, SliceJoin
  <1>5. Slice(s, 0, Len(s)) = s
    BY SliceAll
  <1> QED
    BY <1>1, <1>2, <1>3, <1>4, <1>5

\* A replacement above a cut.
LEMMA ReplacedAbove ==
    ASSUME NEW A \in Seq(Runes), NEW Y \in Seq(Runes), NEW f \in 0..Len(A), NEW n
    PROVE  Replaced(Cat(A, Y), f, Len(A), n) = Cat(Cat(Slice(A, 0, f), n), Y)
  <1>1. Slice(A \o Y, 0, f) = Slice(A, 0, f)
    BY SliceOfFirst
  <1>2. Slice(A \o Y, Len(A), Len(A \o Y)) = Y
    BY SliceOfSecond
  <1> QED
    BY <1>1, <1>2 DEF Replaced, Cat

LEMMA LenConcat ==
    ASSUME NEW T, NEW u \in Seq(T), NEW v \in Seq(T)
    PROVE  u \o v \in Seq(T) /\ Len(u \o v) = Len(u) + Len(v) /\ Len(u) \in Nat /\ Len(v) \in Nat
  BY ConcatProperties

\* Typing leaves what is before its place, and adds one rune that is typed.
LEMMA TypingStep ==
    ASSUME NEW s \in Seq(Runes), NEW q \in 0..Len(s), NEW a \in 0..q
    PROVE  LET r == Replaced(s, q, q, <<"t">>)
           IN  /\ r \in Seq(Runes) /\ Len(r) = Len(s) + 1
               /\ Untyped(r) = Untyped(s)
               /\ Slice(r, 0, a) = Slice(s, 0, a)
  <1> DEFINE A == Slice(s, 0, q)
             Y == Slice(s, q, Len(s))
             r == Replaced(s, q, q, <<"t">>)
  <1>1. A \in Seq(Runes) /\ Y \in Seq(Runes) /\ Len(A) = q /\ Len(Y) = Len(s) - q /\ s = A \o Y
    BY Split
  <1>2. Untyped(<<"t">>) = <<>> /\ <<"t">> \in Seq(Runes) /\ Len(<<"t">>) = 1
    BY UntypedTyped
  <1>3. r = (A \o <<"t">>) \o Y
    BY DEF Replaced
  <1>4. q \in Nat /\ Len(s) \in Nat /\ a \in Nat /\ a \in 0..Len(A)
    BY <1>1
  <1> HIDE DEF A, Y, r
  <1>5. A \o <<"t">> \in Seq(Runes) /\ Len(A \o <<"t">>) = q + 1
    BY <1>1, <1>2, LenConcat
  <1>6. r \in Seq(Runes) /\ Len(r) = (q + 1) + (Len(s) - q)
    <2>1. (A \o <<"t">>) \o Y \in Seq(Runes) /\ Len((A \o <<"t">>) \o Y) = Len(A \o <<"t">>) + Len(Y)
      BY <1>1, <1>5, LenConcat
    <2> QED
      BY <1>1, <1>3, <1>5, <2>1
  <1>7. Untyped(r) = Untyped(s)
    <2>0. Untyped(A) \in Seq(Runes)
      BY <1>1, UntypedConcat
    <2>1. Untyped(A \o <<"t">>) = Untyped(A) \o <<>>
      <3>1. Untyped(A \o <<"t">>) = Untyped(A) \o Untyped(<<"t">>)
        BY <1>1, <1>2, UntypedConcat
      <3> QED
        BY <1>2, <3>1
    <2>2. Untyped(A \o <<"t">>) = Untyped(A)
      BY <2>0, <2>1, ConcatEmptySeq
    <2>3. Untyped((A \o <<"t">>) \o Y) = Untyped(A \o <<"t">>) \o Untyped(Y)
      BY <1>1, <1>5, UntypedConcat
    <2>4. Untyped(A \o Y) = Untyped(A) \o Untyped(Y)
      BY <1>1, UntypedConcat
    <2> QED
      BY <1>1, <1>3, <2>2, <2>3, <2>4
  <1>8. Slice(r, 0, a) = Slice(s, 0, a)
    <2>1. Slice(A \o Y, 0, a) = Slice(A, 0, a)
      BY <1>1, <1>4, SliceOfFirst
    <2>2. a \in 0..Len(A \o <<"t">>)
      BY <1>4, <1>1, <1>5
    <2>3. Slice((A \o <<"t">>) \o Y, 0, a) = Slice(A \o <<"t">>, 0, a)
      BY <1>1, <1>5, <2>2, SliceOfFirst
    <2>4. Slice(A \o <<"t">>, 0, a) = Slice(A, 0, a)
      BY <1>1, <1>2, <1>4, SliceOfFirst
    <2> QED
      BY <1>1, <1>3, <2>1, <2>3, <2>4
  <1> QED
    BY <1>4, <1>6, <1>7, <1>8 DEF r

LEMMA SplitRunes ==
    ASSUME NEW s \in Seq(Runes), NEW t \in 0..Len(s)
    PROVE  /\ Slice(s, 0, t) \in Seq(Runes) /\ Slice(s, t, Len(s)) \in Seq(Runes)
           /\ Len(Slice(s, 0, t)) = t /\ s = Slice(s, 0, t) \o Slice(s, t, Len(s))
  BY Split

\* A replacement in what is still the document d.
LEMMA WritingStep ==
    ASSUME NEW d \in Seq(Written), NEW s \in Seq(Runes), NEW n \in Seq(Plain),
           NEW t \in 0..Len(s), NEW f \in 0..t, NEW a \in 0..f,
           t <= Len(d), Slice(s, 0, t) = Slice(d, 0, t)
    PROVE  LET r == Replaced(s, f, t, n)
           IN  /\ r \in Seq(Runes)
               /\ Untyped(r) = Replaced(Untyped(s), f, t, n)
               /\ Len(r) - Len(Untyped(r)) = Len(s) - Len(Untyped(s))
               /\ a <= Len(r) /\ Slice(r, 0, a) = Slice(d, 0, a)
  <1> DEFINE A == Slice(s, 0, t)
             Y == Slice(s, t, Len(s))
             B == Slice(A, 0, f)
             r == Replaced(s, f, t, n)
  <1>1. A \in Seq(Runes) /\ Y \in Seq(Runes) /\ Len(A) = t /\ s = A \o Y
    BY SplitRunes
  <1>2. A \in Seq(Plain)
    <2>1. d \in Seq(Plain)
      <3>1. Written \subseteq Plain
        BY DEF Written, Plain, Runes
      <3> QED
        BY <3>1, SeqMonotonic
    <2>2. t \in 0..Len(d)
      OBVIOUS
    <2>3. Slice(d, 0, t) \in Seq(Plain)
      BY <2>1, <2>2, Split
    <2> QED
      BY <2>3
  <1>3. f \in 0..Len(A) /\ a \in 0..f /\ f \in Nat /\ a \in Nat /\ t \in Nat
    BY <1>1
  <1>4. n \in Seq(Runes) /\ Untyped(n) = n
    BY UntypedPlain
  <1> HIDE DEF A, Y
  <1>5. B \in Seq(Plain) /\ Len(B) = f
    BY <1>2, <1>3, Split
  <1>6. B \in Seq(Runes)
    BY <1>5, UntypedPlain
  <1>24. A \in Seq(Runes) /\ Y \in Seq(Runes) /\ f \in 0..Len(A)
    BY <1>1, <1>3
  <1>25. Replaced(Cat(A, Y), f, Len(A), n) = Cat(Cat(B, n), Y)
    BY <1>24, ReplacedAbove
  <1>7. Replaced(A \o Y, f, Len(A), n) = (B \o n) \o Y
    BY <1>25 DEF Cat
  <1>8. r = (B \o n) \o Y
    BY <1>1, <1>7
  <1>9. Untyped(A) = A
    BY <1>2, UntypedPlain
  <1>10. Untyped(s) = A \o Untyped(Y) /\ Untyped(Y) \in Seq(Runes)
    BY <1>1, <1>9, UntypedConcat
  <1>26. Replaced(Cat(A, Untyped(Y)), f, Len(A), n) = Cat(Cat(B, n), Untyped(Y))
    BY <1>10, <1>24, ReplacedAbove
  <1>11. Replaced(A \o Untyped(Y), f, Len(A), n) = (B \o n) \o Untyped(Y)
    BY <1>26 DEF Cat
  <1> HIDE DEF B, r
  <1>12. B \o n \in Seq(Plain)
    BY <1>5, ConcatProperties
  <1>13. B \o n \in Seq(Runes) /\ Untyped(B \o n) = B \o n
    BY <1>12, UntypedPlain
  <1>14. Untyped((B \o n) \o Y) = (B \o n) \o Untyped(Y)
    BY <1>1, <1>13, UntypedConcat
  <1>15. Untyped(r) = Replaced(Untyped(s), f, t, n)
    BY <1>1, <1>8, <1>10, <1>11, <1>14
  <1>16. r \in Seq(Runes) /\ Len(r) = Len(B \o n) + Len(Y)
    BY <1>1, <1>8, <1>13, LenConcat
  <1>17. Len(Untyped(r)) = Len(B \o n) + Len(Untyped(Y))
    BY <1>8, <1>10, <1>13, <1>14, LenConcat
  <1>18. Len(s) = Len(A) + Len(Y) /\ Len(Untyped(s)) = Len(A) + Len(Untyped(Y))
    <2>1. Len(A \o Y) = Len(A) + Len(Y)
      BY <1>1, LenConcat
    <2>2. Len(A \o Untyped(Y)) = Len(A) + Len(Untyped(Y))
      BY <1>1, <1>10, LenConcat
    <2> QED
      BY <1>1, <1>10, <2>1, <2>2
  <1>19. Len(B \o n) \in Nat /\ Len(Y) \in Nat /\ Len(Untyped(Y)) \in Nat /\ Len(A) \in Nat
         /\ Len(B \o n) = f + Len(n) /\ Len(n) \in Nat
    BY <1>1, <1>4, <1>5, <1>6, <1>10, <1>13, LenConcat
  <1>20. Len(r) - Len(Untyped(r)) = Len(s) - Len(Untyped(s))
    BY <1>16, <1>17, <1>18, <1>19
  <1>21. a <= Len(r)
    BY <1>3, <1>16, <1>19
  <1>22. Slice(r, 0, a) = Slice(B, 0, a)
    <2>1. a \in 0..Len(B \o n) /\ a \in 0..Len(B)
      BY <1>3, <1>5, <1>19
    <2>2. Slice((B \o n) \o Y, 0, a) = Slice(B \o n, 0, a)
      BY <1>1, <1>13, <2>1, SliceOfFirst
    <2>3. Slice(B \o n, 0, a) = Slice(B, 0, a)
      BY <1>4, <1>6, <2>1, SliceOfFirst
    <2> QED
      BY <1>8, <2>2, <2>3
  <1>23. Slice(B, 0, a) = Slice(d, 0, a)
    <2>1. f \in 0..Len(A) /\ a \in 0..Len(B) /\ a \in 0..Len(A)
      BY <1>1, <1>3, <1>5
    <2>2. A = B \o Slice(A, f, Len(A)) /\ Slice(A, f, Len(A)) \in Seq(Runes)
      BY <1>1, <2>1, Split DEF B
    <2>3. Slice(B \o Slice(A, f, Len(A)), 0, a) = Slice(B, 0, a)
      BY <1>6, <2>1, <2>2, SliceOfFirst
    <2>4. t \in 0..Len(d) /\ A = Slice(d, 0, t)
      BY DEF A
    <2>5. A \in Seq(Written) /\ Slice(d, t, Len(d)) \in Seq(Written) /\ d = A \o Slice(d, t, Len(d))
      BY <2>4, Split
    <2>6. Slice(A \o Slice(d, t, Len(d)), 0, a) = Slice(A, 0, a)
      BY <2>1, <2>5, SliceOfFirst
    <2> QED
      BY <2>2, <2>3, <2>5, <2>6
  <1> QED
    BY <1>15, <1>16, <1>20, <1>21, <1>22, <1>23 DEF r
-----------------------------------------------------------------------------
(* Positions and offsets.                                                  *)

\* The position of an offset and no other is its position, and is not Past.
LEMMA OffsetOfPosition ==
    ASSUME NEW R, NEW s \in Seq(R), NEW q \in 0..Len(s)
    PROVE  OffsetOf(s, PositionOf(s, q)) = q /\ PositionOf(s, q) # Past(s)
  <1>1. \A i \in 1..Lines(s) : Nl(s)[i] \in 0..Len(s)
    BY NlLists
  <1>2. Lines(s) \in Nat /\ Len(s) \in Nat
    BY NlLists
  <1>3. PICK k \in 1..Lines(s) : PositionOf(s, q) = [line |-> k - 1, col |-> q - Nl(s)[k]]
    BY PositionIs
  <1>4. PositionOf(s, q) # Past(s)
    <2>1. Past(s).line = Lines(s) /\ PositionOf(s, q).line = k - 1
      BY <1>3 DEF Past, Lines
    <2> QED
      BY <1>2, <2>1
  <1>5. ASSUME NEW r \in 0..Len(s), PositionOf(s, r) = PositionOf(s, q) PROVE r = q
    <2>1. PICK j \in 1..Lines(s) : PositionOf(s, r) = [line |-> j - 1, col |-> r - Nl(s)[j]]
      BY PositionIs
    <2>2. j - 1 = k - 1 /\ r - Nl(s)[j] = q - Nl(s)[k]
      BY <1>3, <1>5, <2>1
    <2>3. j = k
      BY <1>2, <2>2
    <2> QED
      BY <1>1, <1>2, <2>2, <2>3
  <1>6. OffsetOf(s, PositionOf(s, q)) = CHOOSE r \in 0..Len(s) : PositionOf(s, r) = PositionOf(s, q)
    BY <1>4 DEF OffsetOf
  <1> QED
    BY <1>4, <1>5, <1>6

\* The last line starts at the greatest of the line starts.
LEMMA LastLine ==
    ASSUME NEW R, NEW s \in Seq(R)
    PROVE  Nl(s)[Lines(s)] = Max(LineStarts(s)) /\ Last(Nl(s)) = Nl(s)[Lines(s)]
  <1>1. /\ Lines(s) \in Nat \ {0} /\ Lists(Nl(s), Lines(s), LineStarts(s)) /\ Len(s) \in Nat
        /\ \A j \in 1..Lines(s) : Nl(s)[j] \in 0..Len(s) /\ Nl(s)[j] \in LineStarts(s)
        /\ LineStarts(s) \in SUBSET (0..Len(s)) /\ 0 \in LineStarts(s) /\ Len(Nl(s)) = Lines(s)
    BY NlLists, LineStartsAre
  <1>2. LineStarts(s) \in SUBSET Int /\ LineStarts(s) # {} /\ Len(s) \in Int
        /\ \A x \in LineStarts(s) : x <= Len(s)
    BY <1>1
  <1>3. Max(LineStarts(s)) \in LineStarts(s) /\ \A y \in LineStarts(s) : y <= Max(LineStarts(s))
    BY <1>2, MaxIs
  <1>4. PICK k \in 1..Lines(s) : Nl(s)[k] = Max(LineStarts(s))
    BY <1>1, <1>3 DEF Lists
  <1>5. Lines(s) \in 1..Lines(s)
    BY <1>1
  <1>6. Nl(s)[Lines(s)] <= Nl(s)[k]
    BY <1>1, <1>3, <1>4, <1>5
  <1>7. k = Lines(s)
    <2>1. SUFFICES ASSUME k < Lines(s) PROVE FALSE
      BY <1>1
    <2>2. Nl(s)[k] < Nl(s)[Lines(s)]
      BY <1>1, <1>5, <2>1 DEF Lists
    <2>3. Nl(s)[k] \in Int /\ Nl(s)[Lines(s)] \in Int
      BY <1>1, <1>5
    <2> QED
      BY <1>6, <2>2, <2>3
  <1>8. Last(Nl(s)) = Nl(s)[Lines(s)]
    BY <1>1 DEF Last
  <1> QED
    BY <1>4, <1>7, <1>8

\* A position of the text is a line and a column, and LineToOffset makes of it
\* its offset (line.go:41-60), if the bytes after the last newline are runes.
LEMMA LineToOffsetIs ==
    ASSUME NEW R, NEW s \in Seq(R), NEW p \in Positions(s), NEW o,
           o.nl = Nl(s), o.leftover = Len(s) - Max(LineStarts(s))
    PROVE  LineToOffset(o, p.line, p.col) = OffsetOf(s, p)
  <1>1. /\ Lines(s) \in Nat \ {0} /\ Len(s) \in Nat /\ Len(Nl(s)) = Lines(s)
        /\ \A j \in 1..Lines(s) : Nl(s)[j] \in 0..Len(s)
    BY NlLists, LineStartsAre
  <1>2. Last(o.nl) + o.leftover = Len(s)
    <2>1. Last(Nl(s)) = Max(LineStarts(s)) /\ Max(LineStarts(s)) \in Int
      <3>1. Lines(s) \in 1..Lines(s)
        BY <1>1
      <3> QED
        BY <1>1, <3>1, LastLine
    <2> QED
      BY <1>1, <2>1
  <1>3. CASE p = Past(s)
    <2>1. p.line = Lines(s) /\ OffsetOf(s, p) = Len(s)
      BY <1>3 DEF Past, OffsetOf, Lines
    <2>2. p.line >= Len(o.nl)
      BY <1>1, <2>1
    <2> QED
      BY <1>2, <2>1, <2>2 DEF LineToOffset
  <1>4. CASE p # Past(s)
    <2>1. PICK q \in 0..Len(s) : p = PositionOf(s, q)
      BY <1>4 DEF Positions
    <2>2. OffsetOf(s, p) = q
      BY <2>1, OffsetOfPosition
    <2>3. PICK k \in 1..Lines(s) : PositionOf(s, q) = [line |-> k - 1, col |-> q - Nl(s)[k]]
      BY PositionIs
    <2>4. p.line = k - 1 /\ p.col = q - Nl(s)[k]
      BY <2>1, <2>3
    <2>5. ~(p.line >= Len(o.nl)) /\ p.line + 1 = k
      BY <1>1, <2>4
    <2>6. o.nl[p.line + 1] + p.col = q
      BY <1>1, <2>4, <2>5
    <2>7. LineToOffset(o, p.line, p.col) = Min({q, Len(s)})
      BY <1>2, <2>5, <2>6 DEF LineToOffset
    <2>8. Min({q, Len(s)}) = q
      <3> DEFINE S == {q, Len(s)}
      <3>1. S \in SUBSET Nat /\ S # {}
        BY <1>1
      <3>2. \A x \in S : x = q \/ x = Len(s)
        OBVIOUS
      <3>3. q \in S
        OBVIOUS
      <3> HIDE DEF S
      <3>4. Min(S) \in S /\ \A y \in S : Min(S) <= y
        BY <3>1, MinIs
      <3>5. Min(S) <= q /\ (Min(S) = q \/ Min(S) = Len(s)) /\ q <= Len(s) /\ q \in Nat
        <4>1. q <= Len(s) /\ q \in Nat
          BY <1>1
        <4>2. Min(S) <= q
          BY <3>3, <3>4
        <4>3. Min(S) = q \/ Min(S) = Len(s)
          BY <3>2, <3>4
        <4> QED
          BY <4>1, <4>2, <4>3
      <3>6. Min(S) = q
        BY <1>1, <3>5
      <3> QED
        BY <3>6 DEF S
    <2> QED
      BY <2>2, <2>7, <2>8
  <1> QED
    BY <1>3, <1>4

\* There are at least as many bytes as runes.
LEMMA BytesAtLeast ==
    ASSUME NEW R, NEW s \in Seq(R)
    PROVE  Bytes(s) \in Nat /\ Bytes(s) >= Len(s)
  <1> DEFINE W == {i \in 1..Len(s) : s[i] = "w"}
  <1>1. Len(s) \in Nat /\ IsFiniteSet(1..Len(s)) /\ W \subseteq 1..Len(s)
    BY FS_Interval
  <1> HIDE DEF W
  <1>2. Cardinality(W) \in Nat
    BY <1>1, FS_Subset, FS_CardinalityType
  <1> QED
    BY <1>1, <1>2 DEF Bytes, W

\* OffsetToLine and LineToOffset undo each other (line.go:41-73): every offset
\* of every text comes back from its line and column, although the offsets
\* count the end of the text in bytes.
THEOREM OffsetsComeBack ==
    ASSUME NEW R, NEW s \in Seq(R), NEW q \in 0..Len(s)
    PROVE  LET o == NewlineOffsets(s)
               p == OffsetToLine(o, q)
           IN  LineToOffset(o, p.line, p.col) = q
  <1> DEFINE o == NewlineOffsets(s)
             p == OffsetToLine(o, q)
             rest == Slice(s, Nl(s)[Lines(s)], Len(s))
             eof == Last(o.nl) + o.leftover
  <1>1. /\ Lines(s) \in Nat \ {0} /\ Len(s) \in Nat /\ Len(Nl(s)) = Lines(s)
        /\ \A j \in 1..Lines(s) : Nl(s)[j] \in 0..Len(s)
    BY NlLists, LineStartsAre
  <1>2. Last(Nl(s)) = Nl(s)[Lines(s)] /\ Nl(s)[Lines(s)] \in 0..Len(s)
    <2>1. Lines(s) \in 1..Lines(s)
      BY <1>1
    <2> QED
      BY <1>1, <2>1, LastLine
  <1>3. o.nl = Nl(s) /\ o.leftover = Bytes(rest)
    BY <1>2 DEF NewlineOffsets, Nl
  <1>4. rest \in Seq(R) /\ Len(rest) = Len(s) - Nl(s)[Lines(s)]
    BY <1>1, <1>2, SliceIs
  <1>5. Bytes(rest) \in Nat /\ Bytes(rest) >= Len(rest)
    <2> HIDE DEF rest
    <2> QED
      BY <1>4, BytesAtLeast
  <1>6. p = PositionOf(s, q)
    BY OffsetToLineIsPosition
  <1>7. PICK k \in 1..Lines(s) : PositionOf(s, q) = [line |-> k - 1, col |-> q - Nl(s)[k]]
    BY PositionIs
  <1> HIDE DEF o, p, rest
  <1>8. eof \in Nat /\ q <= eof
    BY <1>1, <1>2, <1>3, <1>4, <1>5
  <1>9. p.line = k - 1 /\ p.col = q - Nl(s)[k]
    BY <1>6, <1>7
  <1>10. ~(p.line >= Len(o.nl)) /\ o.nl[p.line + 1] + p.col = q
    BY <1>1, <1>3, <1>9
  <1>11. LineToOffset(o, p.line, p.col) = Min({q, eof})
    BY <1>10 DEF LineToOffset
  <1> HIDE DEF eof
  <1>12. Min({q, eof}) = q
    <2> DEFINE S == {q, eof}
    <2>1. S \in SUBSET Nat /\ S # {} /\ q \in S /\ \A x \in S : x = q \/ x = eof
      BY <1>8
    <2> HIDE DEF S
    <2>2. Min(S) \in S /\ \A y \in S : Min(S) <= y
      BY <2>1, MinIs
    <2>3. Min(S) <= q /\ (Min(S) = q \/ Min(S) = eof)
      <3>1. Min(S) <= q
        BY <2>1, <2>2
      <3> QED
        BY <2>1, <2>2, <3>1
    <2>4. Min(S) = q
      BY <1>1, <1>8, <2>3
    <2> QED
      BY <2>4 DEF S
  <1> QED
    BY <1>11, <1>12 DEF o, p

LEMMA OffsetsOf ==
    ASSUME NEW R, NEW s \in Seq(R), NEW p \in Positions(s)
    PROVE  OffsetOf(s, p) \in 0..Len(s) /\ p.line \in Int /\ p.col \in Int
  <1>1. /\ Lines(s) \in Nat \ {0} /\ Len(s) \in Nat
        /\ \A j \in 1..Lines(s) : Nl(s)[j] \in 0..Len(s)
    BY NlLists, LineStartsAre
  <1>2. CASE p = Past(s)
    BY <1>1, <1>2 DEF Past, OffsetOf, Lines
  <1>3. CASE p # Past(s)
    <2>1. PICK q \in 0..Len(s) : p = PositionOf(s, q)
      BY <1>3 DEF Positions
    <2>2. OffsetOf(s, p) = q
      BY <2>1, OffsetOfPosition
    <2>3. PICK k \in 1..Lines(s) : PositionOf(s, q) = [line |-> k - 1, col |-> q - Nl(s)[k]]
      BY PositionIs
    <2>4. p.line = k - 1 /\ p.col = q - Nl(s)[k]
      BY <2>1, <2>3
    <2> QED
      BY <1>1, <2>2, <2>4
  <1> QED
    BY <1>2, <1>3

\* Positions are in the order of their offsets.
Before(p, r) == p.line < r.line \/ (p.line = r.line /\ p.col < r.col)

LEMMA PositionsInOrder ==
    ASSUME NEW R, NEW s \in Seq(R), NEW p \in Positions(s), NEW r \in Positions(s),
           OffsetOf(s, p) < OffsetOf(s, r)
    PROVE  Before(p, r) /\ ~Before(r, p)
  <1>1. /\ Lines(s) \in Nat \ {0} /\ Len(s) \in Nat
        /\ \A j \in 1..Lines(s) : Nl(s)[j] \in 0..Len(s)
    BY NlLists, LineStartsAre
  <1>2. OffsetOf(s, p) \in 0..Len(s) /\ OffsetOf(s, r) \in 0..Len(s)
        /\ p.line \in Int /\ p.col \in Int /\ r.line \in Int /\ r.col \in Int
    BY OffsetsOf
  <1>3. p # Past(s)
    <2>1. OffsetOf(s, Past(s)) = Len(s)
      BY DEF OffsetOf
    <2> QED
      BY <1>1, <1>2, <2>1
  <1>4. PICK q \in 0..Len(s) : p = PositionOf(s, q) /\ OffsetOf(s, p) = q
    BY <1>3, OffsetOfPosition DEF Positions
  <1>5. PICK k \in 1..Lines(s) :
            /\ PositionOf(s, q) = [line |-> k - 1, col |-> q - Nl(s)[k]]
            /\ Nl(s)[k] <= q
    BY PositionIs
  <1>6. p.line = k - 1 /\ p.col = q - Nl(s)[k]
    BY <1>4, <1>5
  <1>7. CASE r = Past(s)
    <2>1. r.line = Lines(s)
      BY <1>7 DEF Past, Lines
    <2>2. p.line < r.line
      BY <1>1, <1>6, <2>1
    <2> QED
      BY <1>2, <2>2 DEF Before
  <1>8. CASE r # Past(s)
    <2>1. PICK x \in 0..Len(s) : r = PositionOf(s, x) /\ OffsetOf(s, r) = x
      BY <1>8, OffsetOfPosition DEF Positions
    <2>2. PICK j \in 1..Lines(s) :
            /\ PositionOf(s, x) = [line |-> j - 1, col |-> x - Nl(s)[j]]
            /\ \A i \in 1..Lines(s) : Nl(s)[i] <= x => i <= j
      BY PositionIs
    <2>3. r.line = j - 1 /\ r.col = x - Nl(s)[j]
      BY <2>1, <2>2
    <2>4. q < x
      BY <1>4, <2>1
    <2>5. k <= j
      <3>1. Nl(s)[k] <= x
        BY <1>1, <1>5, <2>4
      <3> QED
        BY <2>2, <3>1
    <2>6. CASE k = j
      <3>1. p.line = r.line /\ p.col < r.col
        BY <1>1, <1>6, <2>3, <2>4, <2>6
      <3> QED
        BY <1>2, <3>1 DEF Before
    <2>7. CASE k # j
      <3>1. p.line < r.line
        BY <1>1, <1>6, <2>3, <2>5, <2>7
      <3> QED
        BY <1>2, <3>1 DEF Before
    <2> QED
      BY <2>6, <2>7
  <1> QED
    BY <1>7, <1>8
-----------------------------------------------------------------------------
(* The edits of an answer, sorted.                                         *)

\* Concatenation leaves out what is empty, and so only the order of the other
\* elements matters.
Full(u) == {i \in 1..Len(u) : u[i] # <<>>}
Picked(u, f, m) == [k \in 1..m |-> u[f[k]]]

LEMMA FlattenPicked ==
    ASSUME NEW T, NEW u \in Seq(Seq(T)), NEW m \in Nat, NEW f, Lists(f, m, Full(u))
    PROVE  FlattenSeq(u) = FlattenSeq(Picked(u, f, m))
  <1> DEFINE G == {n \in Nat : \A w \in Seq(Seq(T)) : \A l \in Nat : \A g :
                      Len(w) = n /\ Lists(g, l, Full(w)) => FlattenSeq(w) = FlattenSeq(Picked(w, g, l))}
  <1>1. 0 \in G
    <2> SUFFICES ASSUME NEW w \in Seq(Seq(T)), NEW l \in Nat, NEW g, Len(w) = 0, Lists(g, l, Full(w))
                 PROVE  FlattenSeq(w) = FlattenSeq(Picked(w, g, l))
      OBVIOUS
    <2>1. w = <<>> /\ \A i \in 1..Len(w) : FALSE
      BY EmptySeq
    <2>2. l = 0
      <3>1. \A i \in 1..l : g[i] \in Full(w)
        BY DEF Lists
      <3>2. l # 0 => 1 \in 1..l
        OBVIOUS
      <3> QED
        BY <2>1, <3>1, <3>2 DEF Full
    <2>3. Picked(w, g, 0) = <<>>
      BY DEF Picked
    <2> QED
      BY <2>1, <2>2, <2>3
  <1>2. ASSUME NEW n \in Nat, n \in G PROVE n + 1 \in G
    <2> SUFFICES ASSUME NEW w \in Seq(Seq(T)), NEW l \in Nat, NEW g, Len(w) = n + 1, Lists(g, l, Full(w))
                 PROVE  FlattenSeq(w) = FlattenSeq(Picked(w, g, l))
      OBVIOUS
    <2>1. w # <<>>
      <3>1. n + 1 # 0
        OBVIOUS
      <3> QED
        BY <3>1, EmptySeq
    <2>2. PICK x \in Seq(Seq(T)), e \in Seq(T) : w = Append(x, e)
      BY <2>1, SequenceEmptyOrAppend
    <2>3. Len(x) = n /\ w[n + 1] = e /\ \A i \in 1..n : w[i] = x[i]
      <3>1. Len(w) = Len(x) + 1 /\ w[Len(x) + 1] = e /\ (\A i \in 1..Len(x) : w[i] = x[i]) /\ Len(x) \in Nat
        BY <2>2, AppendProperties
      <3>2. Len(x) = n
        BY <3>1
      <3> QED
        BY <3>1, <3>2
    <2>4. FlattenSeq(w) = FlattenSeq(x) \o e /\ FlattenSeq(x) \in Seq(T)
      BY <2>2, FlattenAppend
    <2>5. /\ \A i \in 1..l : g[i] \in Full(w)
          /\ \A i, j \in 1..l : i < j => g[i] < g[j]
          /\ \A y \in Full(w) : \E i \in 1..l : g[i] = y
      BY DEF Lists
    <2>6. \A i : i \in Full(w) <=> i \in Full(x) \/ (i = n + 1 /\ e # <<>>)
      <3>1. \A i : i \in 1..(n + 1) <=> i \in 1..n \/ i = n + 1
        OBVIOUS
      <3>2. n + 1 \notin 1..n
        OBVIOUS
      <3> QED
        BY <2>3, <3>1, <3>2 DEF Full
    <2>7. CASE e = <<>>
      <3>1. Full(w) = Full(x)
        BY <2>6, <2>7
      <3>2. FlattenSeq(x) = FlattenSeq(Picked(x, g, l))
        BY <1>2, <2>3, <3>1
      <3>3. \A i \in 1..l : g[i] \in 1..n
        BY <2>3, <2>5, <3>1 DEF Full
      <3>4. Picked(w, g, l) = Picked(x, g, l)
        BY <2>3, <3>3 DEF Picked
      <3>5. FlattenSeq(x) \o e = FlattenSeq(x)
        BY <2>4, <2>7, ConcatEmptySeq
      <3> QED
        BY <2>4, <3>2, <3>4, <3>5
    <2>8. CASE e # <<>>
      <3>1. n + 1 \in Full(w)
        BY <2>6, <2>8
      <3>2. PICK i \in 1..l : g[i] = n + 1
        BY <2>5, <3>1
      <3>3. \A k \in 1..l : g[k] \in 1..(n + 1)
        <4>1. Full(w) \subseteq 1..(n + 1)
          BY DEF Full
        <4> QED
          BY <2>5, <4>1
      <3>4. i = l
        <4>1. SUFFICES ASSUME i # l PROVE FALSE
          OBVIOUS
        <4>2. l \in 1..l /\ i < l
          BY <4>1
        <4>3. g[i] < g[l] /\ g[l] \in 1..(n + 1)
          BY <2>5, <3>3, <4>2
        <4> QED
          BY <3>2, <4>3
      <3> DEFINE r == [k \in 1..(l - 1) |-> g[k]]
      <3>5. l - 1 \in Nat /\ l \in 1..l
        BY <3>4
      <3>6. ASSUME NEW k \in 1..(l - 1) PROVE r[k] = g[k] /\ k \in 1..l /\ k < l
        OBVIOUS
      <3>7. ASSUME NEW k \in 1..(l - 1) PROVE g[k] \in Full(x)
        <4>1. g[k] \in Full(w) /\ g[k] < g[l] /\ g[k] \in 1..(n + 1)
          BY <2>5, <3>3, <3>5, <3>6
        <4>2. g[k] # n + 1
          BY <3>2, <3>4, <4>1
        <4> QED
          BY <2>6, <4>1, <4>2
      <3>8. r \in [1..(l - 1) -> Full(x)]
        BY <3>7
      <3> HIDE DEF r
      <3>9. \A a, b \in 1..(l - 1) : a < b => r[a] < r[b]
        BY <2>5, <3>6
      <3>10. ASSUME NEW y \in Full(x) PROVE \E k \in 1..(l - 1) : r[k] = y
        <4>1. y \in Full(w) /\ y \in 1..n
          <5>1. y \in 1..n
            BY <2>3 DEF Full
          <5> QED
            BY <2>6, <5>1
        <4>2. PICK k \in 1..l : g[k] = y
          BY <2>5, <4>1
        <4>3. k # l
          BY <3>2, <3>4, <4>1, <4>2
        <4>4. k \in 1..(l - 1)
          BY <4>3
        <4> QED
          BY <3>6, <4>2, <4>4
      <3>11. Lists(r, l - 1, Full(x))
        BY <3>8, <3>9, <3>10 DEF Lists
      <3>12. FlattenSeq(x) = FlattenSeq(Picked(x, r, l - 1))
        BY <1>2, <2>3, <3>5, <3>11
      <3> DEFINE P == Picked(x, r, l - 1)
      <3>13. \A k \in 1..(l - 1) : P[k] = x[r[k]] /\ x[r[k]] \in Seq(T) /\ x[r[k]] = w[g[k]]
        <4>1. ASSUME NEW k \in 1..(l - 1) PROVE P[k] = x[r[k]] /\ x[r[k]] \in Seq(T) /\ x[r[k]] = w[g[k]]
          <5>1. r[k] \in 1..n /\ r[k] = g[k]
            BY <2>3, <3>6, <3>7 DEF Full
          <5>2. x[r[k]] \in Seq(T)
            BY <2>3, <5>1, ElementOfSeq
          <5>3. P[k] = x[r[k]]
            BY DEF Picked
          <5> QED
            BY <2>3, <5>1, <5>2, <5>3
        <4> QED
          BY <4>1
      <3>14. P \in Seq(Seq(T)) /\ Len(P) = l - 1
        <4>1. P = [k \in 1..(l - 1) |-> x[r[k]]]
          BY DEF Picked
        <4> HIDE DEF P
        <4>2. P \in [1..(l - 1) -> Seq(T)]
          BY <3>13, <4>1
        <4> QED
          BY <3>5, <4>2
      <3> HIDE DEF P
      <3>15. /\ Append(P, e) \in Seq(Seq(T)) /\ Len(Append(P, e)) = l /\ Append(P, e)[l] = e
             /\ \A k \in 1..(l - 1) : Append(P, e)[k] = P[k]
        <4>1. /\ Append(P, e) \in Seq(Seq(T)) /\ Len(Append(P, e)) = Len(P) + 1 /\ Append(P, e)[Len(P) + 1] = e
              /\ \A k \in 1..Len(P) : Append(P, e)[k] = P[k]
          BY <3>14, AppendProperties
        <4>2. Len(P) + 1 = l
          BY <3>5, <3>14
        <4> QED
          BY <3>14, <4>1, <4>2
      <3>16. Picked(w, g, l) = Append(P, e)
        <4>1. \A k \in 1..l : Append(P, e)[k] = w[g[k]]
          <5>1. ASSUME NEW k \in 1..l PROVE Append(P, e)[k] = w[g[k]]
            <6>1. CASE k = l
              BY <2>3, <3>2, <3>4, <3>15, <6>1
            <6>2. CASE k # l
              <7>1. k \in 1..(l - 1)
                BY <6>2
              <7> QED
                BY <3>13, <3>15, <7>1
            <6> QED
              BY <6>1, <6>2
          <5> QED
            BY <5>1
        <4>2. Append(P, e) = [k \in 1..l |-> Append(P, e)[k]]
          <5> DEFINE A == Append(P, e)
          <5>1. A \in Seq(Seq(T)) /\ Len(A) = l
            BY <3>15
          <5> HIDE DEF A
          <5>2. A = [k \in 1..l |-> A[k]]
            BY <5>1
          <5> QED
            BY <5>2 DEF A
        <4> QED
          BY <4>1, <4>2 DEF Picked
      <3>17. FlattenSeq(Append(P, e)) = FlattenSeq(P) \o e
        BY <3>14, FlattenAppend
      <3> QED
        BY <2>4, <3>12, <3>16, <3>17 DEF P
    <2> QED
      BY <2>7, <2>8
  <1> HIDE DEF G
  <1>3. Len(u) \in Nat
    OBVIOUS
  <1>4. Len(u) \in G
    BY <1>1, <1>2, <1>3, Induction
  <1> QED
    BY <1>4 DEF G

LEMMA FlattenStable ==
    ASSUME NEW T, NEW u \in Seq(Seq(T)), NEW v \in Seq(Seq(T)), Len(v) = Len(u),
           NEW p \in [1..Len(u) -> 1..Len(u)], \A k \in 1..Len(u) : \E i \in 1..Len(u) : p[i] = k,
           \A i \in 1..Len(u) : v[i] = u[p[i]],
           \A i, j \in 1..Len(u) : i < j /\ v[i] # <<>> /\ v[j] # <<>> => p[i] < p[j]
    PROVE  FlattenSeq(v) = FlattenSeq(u)
  <1>1. Len(u) \in Nat /\ Full(v) \in SUBSET (0..Len(u)) /\ Full(v) \in SUBSET (1..Len(u))
    BY DEF Full
  <1>2a. PICK m \in Nat : \E f : Lists(f, m, Full(v))
    BY <1>1, Listable
  <1>2. PICK f : Lists(f, m, Full(v))
    BY <1>2a
  <1>3. /\ \A k \in 1..m : f[k] \in Full(v)
        /\ \A k, l \in 1..m : k < l => f[k] < f[l]
        /\ \A x \in Full(v) : \E k \in 1..m : f[k] = x
    BY <1>2 DEF Lists
  <1> DEFINE g == [k \in 1..m |-> p[f[k]]]
  <1>4. \A k \in 1..m : g[k] = p[f[k]] /\ f[k] \in 1..Len(u)
    BY <1>1, <1>3
  <1>5. \A i \in 1..Len(u) : i \in Full(v) <=> p[i] \in Full(u)
    BY DEF Full
  <1>6. g \in [1..m -> Full(u)]
    BY <1>3, <1>4, <1>5
  <1> HIDE DEF g
  <1>7. ASSUME NEW k \in 1..m, NEW l \in 1..m, k < l PROVE g[k] < g[l]
    <2>1. f[k] < f[l] /\ v[f[k]] # <<>> /\ v[f[l]] # <<>> /\ f[k] \in 1..Len(u) /\ f[l] \in 1..Len(u)
      BY <1>3, <1>4, <1>7 DEF Full
    <2> QED
      BY <1>4, <2>1
  <1>8. ASSUME NEW x \in Full(u) PROVE \E k \in 1..m : g[k] = x
    <2>1. x \in 1..Len(u)
      BY DEF Full
    <2>2. PICK i \in 1..Len(u) : p[i] = x
      BY <2>1
    <2>3. PICK k \in 1..m : f[k] = i
      BY <1>3, <1>5, <2>2
    <2> QED
      BY <1>4, <2>2, <2>3
  <1>9. Lists(g, m, Full(u))
    BY <1>6, <1>7, <1>8 DEF Lists
  <1>10. Picked(v, f, m) = Picked(u, g, m)
    BY <1>4 DEF Picked
  <1>11. FlattenSeq(v) = FlattenSeq(Picked(v, f, m))
    BY <1>2, FlattenPicked
  <1>12. FlattenSeq(u) = FlattenSeq(Picked(u, g, m))
    BY <1>9, FlattenPicked
  <1> QED
    BY <1>10, <1>11, <1>12

\* The numbers from 1 to n can be put in the order of their keys.
LEMMA InOrderOfKeys ==
    ASSUME NEW n \in Nat, NEW M \in Nat, NEW K \in [1..n -> 0..M],
           \A i, j \in 1..n : K[i] = K[j] => i = j
    PROVE  \E p \in [1..n -> 1..n] : \A i, j \in 1..n : i < j => K[p[i]] < K[p[j]]
  <1> DEFINE S == {K[i] : i \in 1..n}
  <1>1. S \in SUBSET (0..M) /\ S \in SUBSET Int
    OBVIOUS
  <1>2a. PICK m \in Nat : \E f : Lists(f, m, S)
    <2> HIDE DEF S
    <2> QED
      BY <1>1, Listable
  <1>2. PICK f : Lists(f, m, S)
    BY <1>2a
  <1>3. IsFiniteSet(S) /\ Cardinality(S) = m
    <2> HIDE DEF S
    <2> QED
      BY <1>1, <1>2, ListedCardinality
  <1>4. Cardinality(S) = n
    <2>1. K \in Bijection(1..n, S)
      BY DEF Bijection, Injection, Surjection, IsInjective
    <2>2. ExistsBijection(1..n, S)
      BY <2>1 DEF ExistsBijection
    <2> HIDE DEF S
    <2> QED
      BY <1>3, <2>2, FS_CountingElements
  <1>5. /\ \A i \in 1..n : \E k \in 1..n : K[k] = f[i]
        /\ \A i, j \in 1..n : i < j => f[i] < f[j]
    BY <1>2, <1>3, <1>4 DEF Lists
  <1> DEFINE p == [i \in 1..n |-> CHOOSE k \in 1..n : K[k] = f[i]]
  <1>6. \A i \in 1..n : p[i] \in 1..n /\ K[p[i]] = f[i]
    BY <1>5
  <1>7. p \in [1..n -> 1..n]
    BY <1>6
  <1> HIDE DEF p
  <1>8. \A i, j \in 1..n : i < j => K[p[i]] < K[p[j]]
    BY <1>5, <1>6
  <1> QED
    BY <1>7, <1>8

\* One number that orders pairs by their first and then by their second
\* component.
LEMMA KeyIs ==
    ASSUME NEW n \in Nat, NEW a \in Nat, NEW b \in Nat, NEW i \in 1..n, NEW j \in 1..n
    PROVE  a * (n + 1) + i < b * (n + 1) + j <=> a < b \/ (a = b /\ i < j)
  <1>1. ASSUME NEW c \in Nat, NEW d \in Nat, NEW k \in 1..n, NEW l \in 1..n, c < d
        PROVE  c * (n + 1) + k < d * (n + 1) + l
    <2>1. PICK x \in Nat : d = c + 1 + x
      <3>1. d - c - 1 \in Nat /\ d = c + 1 + (d - c - 1)
        BY <1>1
      <3> QED
        BY <3>1
    <2>2. d * (n + 1) = c * (n + 1) + (n + 1) + x * (n + 1)
      BY <2>1
    <2>3. x * (n + 1) >= 0 /\ x * (n + 1) \in Nat /\ c * (n + 1) \in Nat
      OBVIOUS
    <2> QED
      BY <2>2, <2>3
  <1>2. CASE a < b
    BY <1>1, <1>2
  <1>3. CASE a = b
    <2>1. a * (n + 1) \in Nat
      OBVIOUS
    <2> QED
      BY <1>3, <2>1
  <1>4. CASE b < a
    <2>1. b * (n + 1) + j < a * (n + 1) + i /\ a * (n + 1) \in Nat /\ b * (n + 1) \in Nat
      BY <1>1, <1>4
    <2> QED
      BY <1>4, <2>1
  <1> QED
    BY <1>2, <1>3, <1>4

\* The edits es of s in the order of where they start, those that start
\* together in the order in which they come.
Order(s, es, p) ==
    /\ p \in [1..Len(es) -> 1..Len(es)]
    /\ \A k \in 1..Len(es) : \E i \in 1..Len(es) : p[i] = k
    /\ \A i, j \in 1..Len(es) : i < j =>
           \/ Starts(s, es[p[i]]) < Starts(s, es[p[j]])
           \/ Starts(s, es[p[i]]) = Starts(s, es[p[j]]) /\ p[i] < p[j]

\* Edits that start together name that position alike.
Alike(s, es) ==
    \A i, j \in 1..Len(es) : Starts(s, es[i]) = Starts(s, es[j]) => es[i].start = es[j].start

LEMMA SortedIs ==
    ASSUME NEW s \in Seq(Runes), NEW es \in Seq(Edit(s)), Alike(s, es)
    PROVE  \E p : Order(s, es, p) /\ Sorted(es) = [i \in 1..Len(es) |-> es[p[i]]]
  <1> DEFINE n == Len(es)
             st(i) == Starts(s, es[i])
             before(i, j) == Less(es[i], es[j]) \/ (~Less(es[j], es[i]) /\ i < j)
             right(p) == \A i, j \in DOMAIN es : i < j => before(p[i], p[j])
             order == CHOOSE p \in [DOMAIN es -> DOMAIN es] : right(p)
  <1>1. n \in Nat /\ DOMAIN es = 1..n /\ Len(s) \in Nat
    OBVIOUS
  <1>2. Sorted(es) = [i \in DOMAIN es |-> es[order[i]]]
    BY DEF Sorted
  <1>3. \A i \in 1..n : es[i] \in Edit(s) /\ st(i) \in 0..Len(s)
    <2>1. \A i \in 1..n : es[i] \in Edit(s)
      BY ElementOfSeq
    <2> QED
      BY <2>1 DEF Edit
  <1>4. ASSUME NEW i \in 1..n PROVE /\ es[i].start \in Positions(s)
                                    /\ es[i].start.line \in Int /\ es[i].start.col \in Int
    <2>1. es[i].start \in Positions(s)
      BY <1>3 DEF Edit
    <2> QED
      BY <2>1, OffsetsOf
  <1>5. ASSUME NEW i \in 1..n, NEW j \in 1..n, st(i) < st(j)
        PROVE  Less(es[i], es[j]) /\ ~Less(es[j], es[i])
    <2>1. OffsetOf(s, es[i].start) < OffsetOf(s, es[j].start)
      BY <1>5 DEF Starts
    <2>2. Before(es[i].start, es[j].start) /\ ~Before(es[j].start, es[i].start)
      BY <1>4, <2>1, PositionsInOrder
    <2> QED
      BY <2>2 DEF Before, Less
  <1>6. ASSUME NEW i \in 1..n, NEW j \in 1..n, st(i) = st(j)
        PROVE  ~Less(es[i], es[j])
    <2>1. es[i].start = es[j].start
      BY <1>6 DEF Alike
    <2> QED
      BY <1>4, <2>1 DEF Less
  <1>7. ASSUME NEW i \in 1..n, NEW j \in 1..n
        PROVE  before(i, j) <=> st(i) < st(j) \/ (st(i) = st(j) /\ i < j)
    <2>1. st(i) \in Int /\ st(j) \in Int
      BY <1>3
    <2> HIDE DEF st
    <2>2. CASE st(i) < st(j)
      BY <1>5, <2>2
    <2>3. CASE st(i) = st(j)
      BY <1>6, <2>1, <2>3
    <2>4. CASE st(j) < st(i)
      BY <1>5, <2>1, <2>4
    <2> QED
      BY <2>1, <2>2, <2>3, <2>4
  <1> HIDE DEF before, st, n
  <1> DEFINE M == Len(s) * (n + 1) + n
             K == [i \in 1..n |-> st(i) * (n + 1) + i]
  <1>8. M \in Nat
    BY <1>1
  <1>9. ASSUME NEW i \in 1..n PROVE st(i) * (n + 1) + i \in 0..M
    <2>1. PICK d \in Nat : Len(s) = st(i) + d /\ st(i) \in Nat
      <3>1. st(i) \in 0..Len(s)
        BY <1>3
      <3>2. Len(s) - st(i) \in Nat /\ Len(s) = st(i) + (Len(s) - st(i)) /\ st(i) \in Nat
        BY <1>1, <3>1
      <3> QED
        BY <3>2
    <2>2. Len(s) * (n + 1) = st(i) * (n + 1) + d * (n + 1)
      BY <1>1, <2>1
    <2>3. d * (n + 1) \in Nat /\ st(i) * (n + 1) \in Nat
      BY <1>1, <2>1
    <2> QED
      BY <1>1, <2>2, <2>3
  <1>10. K \in [1..n -> 0..M] /\ \A i \in 1..n : K[i] = st(i) * (n + 1) + i
    BY <1>9
  <1>11. ASSUME NEW i \in 1..n, NEW j \in 1..n
         PROVE  K[i] < K[j] <=> st(i) < st(j) \/ (st(i) = st(j) /\ i < j)
    <2>1. st(i) \in Nat /\ st(j) \in Nat
      BY <1>1, <1>3
    <2>2. st(i) * (n + 1) + i < st(j) * (n + 1) + j <=> st(i) < st(j) \/ (st(i) = st(j) /\ i < j)
      <3>1. PICK x \in Nat, y \in Nat, l \in Nat : x = st(i) /\ y = st(j) /\ l = n
        BY <1>1, <2>1
      <3>2. i \in 1..l /\ j \in 1..l
        BY <3>1
      <3>3. x * (l + 1) + i < y * (l + 1) + j <=> x < y \/ (x = y /\ i < j)
        BY <3>2, KeyIs
      <3> QED
        BY <3>1, <3>3
    <2> QED
      BY <1>10, <2>2
  <1> HIDE DEF K, M
  <1>12. \A i, j \in 1..n : K[i] = K[j] => i = j
    <2> SUFFICES ASSUME NEW i \in 1..n, NEW j \in 1..n, K[i] = K[j], i # j PROVE FALSE
      OBVIOUS
    <2>1. K[i] \in Int /\ st(i) \in Int /\ st(j) \in Int
      BY <1>1, <1>3, <1>8, <1>10
    <2>2. ~(K[i] < K[j]) /\ ~(K[j] < K[i])
      BY <2>1
    <2>3. ~(st(i) < st(j)) /\ ~(st(j) < st(i)) /\ (i < j \/ j < i)
      BY <1>1, <1>11, <2>2
    <2>4. st(i) = st(j)
      BY <2>1, <2>3
    <2> QED
      BY <1>11, <2>2, <2>3, <2>4
  <1>13. \E p \in [1..n -> 1..n] : \A i, j \in 1..n : i < j => K[p[i]] < K[p[j]]
    BY <1>1, <1>8, <1>10, <1>12, InOrderOfKeys
  <1>14. \E p \in [DOMAIN es -> DOMAIN es] : right(p)
    <2>1. PICK p \in [1..n -> 1..n] : \A i, j \in 1..n : i < j => K[p[i]] < K[p[j]]
      BY <1>13
    <2>2. ASSUME NEW i \in 1..n, NEW j \in 1..n, i < j PROVE before(p[i], p[j])
      <3>1. p[i] \in 1..n /\ p[j] \in 1..n /\ K[p[i]] < K[p[j]]
        BY <2>1, <2>2
      <3> QED
        BY <1>7, <1>11, <3>1
    <2> QED
      BY <1>1, <2>1, <2>2
  <1>15. order \in [DOMAIN es -> DOMAIN es] /\ right(order)
    <2> HIDE DEF right
    <2> QED
      BY <1>14
  <1> HIDE DEF order
  <1>16. order \in [1..n -> 1..n]
    BY <1>1, <1>15
  <1>17. ASSUME NEW i \in 1..n, NEW j \in 1..n, i < j
         PROVE  /\ st(order[i]) < st(order[j]) \/ (st(order[i]) = st(order[j]) /\ order[i] < order[j])
                /\ order[i] # order[j]
    <2>1. order[i] \in 1..n /\ order[j] \in 1..n
      BY <1>16
    <2>2. before(order[i], order[j])
      BY <1>1, <1>15, <1>17
    <2>3. st(order[i]) < st(order[j]) \/ (st(order[i]) = st(order[j]) /\ order[i] < order[j])
      BY <1>7, <2>1, <2>2
    <2>4. st(order[i]) \in Int
      BY <1>3, <2>1
    <2> QED
      BY <2>1, <2>3, <2>4
  <1>18. \A k \in 1..n : \E i \in 1..n : order[i] = k
    <2>1. IsFiniteSet(1..n) /\ Cardinality(1..n) = Cardinality(1..n)
      BY <1>1, FS_Interval
    <2>2. \A i, j \in 1..n : order[i] = order[j] => i = j
      BY <1>1, <1>17
    <2>3. order \in Injection(1..n, 1..n)
      BY <1>16, <2>2 DEF Injection, IsInjective
    <2>4. order \in Surjection(1..n, 1..n)
      BY <2>1, <2>3, FS_Injection
    <2> QED
      BY <2>4 DEF Surjection
  <1>19. Order(s, es, order)
    BY <1>16, <1>17, <1>18 DEF Order, st, n
  <1>20. Sorted(es) = [i \in 1..Len(es) |-> es[order[i]]]
    BY <1>1, <1>2 DEF n
  <1> QED
    BY <1>19, <1>20

\* In whatever order the edits of an answer come, they mean the same.
LEMMA MeantInOrder ==
    ASSUME NEW s \in Seq(Runes), NEW es \in Seq(Edit(s)), NEW fs \in Seq(Edit(s)), NEW p,
           Order(s, es, p), fs = [i \in 1..Len(es) |-> es[p[i]]]
    PROVE  Meant(s, fs) = Meant(s, es)
  <1> DEFINE n == Len(es)
             text(d, q) == IF Starts(s, d) = q THEN d.new ELSE <<>>
  <1>1. n \in Nat /\ Len(fs) = n /\ DOMAIN es = 1..n /\ DOMAIN fs = 1..n
    OBVIOUS
  <1>2. /\ p \in [1..n -> 1..n]
        /\ \A k \in 1..n : \E i \in 1..n : p[i] = k
        /\ \A i, j \in 1..n : i < j =>
               \/ Starts(s, es[p[i]]) < Starts(s, es[p[j]])
               \/ Starts(s, es[p[i]]) = Starts(s, es[p[j]]) /\ p[i] < p[j]
    BY DEF Order
  <1>3. \A i \in 1..n : fs[i] = es[p[i]] /\ es[i] \in Edit(s) /\ fs[i] \in Edit(s)
    BY <1>1, ElementOfSeq
  <1>4. \A d \in Edit(s) : \A q : text(d, q) \in Seq(Runes) /\ Starts(s, d) \in Int
    BY EmptySeq DEF Edit
  <1> HIDE DEF n
  <1>5. ASSUME NEW q PROVE New(s, fs, q) = New(s, es, q)
    <2> DEFINE u == [i \in 1..n |-> text(es[i], q)]
               v == [i \in 1..n |-> text(fs[i], q)]
    <2>1. New(s, fs, q) = FlattenSeq(v) /\ New(s, es, q) = FlattenSeq(u)
      BY <1>1 DEF New
    <2>2. \A i \in 1..n : v[i] # <<>> => Starts(s, fs[i]) = q
      OBVIOUS
    <2>3. \A i \in 1..n : v[i] = text(fs[i], q) /\ u[i] = text(es[i], q)
      OBVIOUS
    <2> HIDE DEF text
    <2>4. \A i \in 1..n : v[i] = u[p[i]]
      BY <1>2, <1>3, <2>3
    <2>5. u \in [1..n -> Seq(Runes)] /\ v \in [1..n -> Seq(Runes)]
      BY <1>3, <1>4
    <2>6. u \in Seq(Seq(Runes)) /\ v \in Seq(Seq(Runes)) /\ Len(u) = n /\ Len(v) = n
      BY <1>1, <2>5
    <2> HIDE DEF u, v
    <2>7. ASSUME NEW i \in 1..n, NEW j \in 1..n, i < j, v[i] # <<>>, v[j] # <<>> PROVE p[i] < p[j]
      <3>1. Starts(s, es[p[i]]) = q /\ Starts(s, es[p[j]]) = q
        BY <1>3, <2>2, <2>7
      <3>2. p[i] \in 1..n
        BY <1>2
      <3>3. q \in Int
        BY <1>3, <1>4, <3>1, <3>2
      <3> QED
        BY <1>2, <2>7, <3>1, <3>3
    <2>8. FlattenSeq(v) = FlattenSeq(u)
      <3>1. Len(v) = Len(u) /\ p \in [1..Len(u) -> 1..Len(u)] /\ \A i \in 1..Len(u) : v[i] = u[p[i]]
        BY <1>2, <2>4, <2>6
      <3>2. \A k \in 1..Len(u) : \E i \in 1..Len(u) : p[i] = k
        BY <1>2, <2>6
      <3>3. \A i, j \in 1..Len(u) : i < j /\ v[i] # <<>> /\ v[j] # <<>> => p[i] < p[j]
        BY <2>6, <2>7
      <3> QED
        BY <2>6, <3>1, <3>2, <3>3, FlattenStable
    <2> QED
      BY <2>1, <2>8
  <1>6. ASSUME NEW q PROVE Kept(s, fs, q) <=> Kept(s, es, q)
    <2> DEFINE out(d) == ~(Starts(s, d) <= q /\ q < Ends(s, d))
    <2>1. /\ Kept(s, fs, q) <=> q < Len(s) /\ \A i \in 1..n : out(fs[i])
          /\ Kept(s, es, q) <=> q < Len(s) /\ \A i \in 1..n : out(es[i])
      BY <1>1 DEF Kept
    <2> HIDE DEF out
    <2>2. (\A i \in 1..n : out(fs[i])) <=> (\A i \in 1..n : out(es[i]))
      <3>1. ASSUME \A i \in 1..n : out(fs[i]), NEW k \in 1..n PROVE out(es[k])
        <4>1. PICK i \in 1..n : p[i] = k
          BY <1>2
        <4>2. fs[i] = es[k]
          BY <1>3, <4>1
        <4> QED
          BY <3>1, <4>2
      <3>2. ASSUME \A i \in 1..n : out(es[i]), NEW k \in 1..n PROVE out(fs[k])
        <4>1. p[k] \in 1..n /\ fs[k] = es[p[k]]
          BY <1>2, <1>3
        <4> QED
          BY <3>2, <4>1
      <3> QED
        BY <3>1, <3>2
    <2> QED
      BY <2>1, <2>2
  <1>7. Pieces(s, fs) = Pieces(s, es)
    BY <1>5, <1>6 DEF Pieces
  <1> QED
    BY <1>7, MeantIs

\* The edits of an answer, sorted, go from the front to the back of the text,
\* and mean what the answer means.
LEMMA SortedAnswer ==
    ASSUME NEW s \in Seq(Written), NEW es \in Answers(s) \cup {<<>>}
    PROVE  /\ Sorted(es) \in Seq(Edit(s)) /\ Len(Sorted(es)) = Len(es)
           /\ Proper(s, Sorted(es))
           /\ \A i \in 1..Len(Sorted(es)) : Sorted(es)[i].new \in Seq(Plain)
           /\ Meant(s, Sorted(es)) = Meant(s, es)
  <1> DEFINE texts == {<<>>, <<"x">>, <<"y">>}
  <1>1. s \in Seq(Runes)
    <2>1. Written \subseteq Runes
      BY DEF Runes
    <2> QED
      BY <2>1, SeqMonotonic
  <1>2. \A n \in texts : n \in Seq(Plain) /\ n \in Seq(Runes)
    <2>1. "x" \in Plain /\ "y" \in Plain /\ Plain \subseteq Runes
      BY DEF Plain, Runes, Written
    <2>2. <<>> \in Seq(Plain) /\ <<"x">> \in Seq(Plain) /\ <<"y">> \in Seq(Plain)
      BY <2>1, EmptySeq
    <2>3. \A n \in texts : n \in Seq(Plain)
      BY <2>2
    <2> HIDE DEF texts
    <2> QED
      BY <2>1, <2>3, SeqMonotonic
  <1>3. ASSUME NEW e \in EditsOf(s, {<<>>, <<"x">>, <<"y">>})
        PROVE  /\ e \in Edit(s) /\ e.new \in Seq(Plain)
               /\ Starts(s, e) \in 0..Len(s) /\ Ends(s, e) \in Starts(s, e)..Len(s)
    <2>1. e \in [start : Positions(s), end : Positions(s), new : texts]
          /\ OffsetOf(s, e.start) <= OffsetOf(s, e.end)
      BY DEF EditsOf
    <2>2. e.start \in Positions(s) /\ e.end \in Positions(s) /\ e.new \in texts
      BY <2>1
    <2>3. OffsetOf(s, e.start) \in 0..Len(s) /\ OffsetOf(s, e.end) \in 0..Len(s)
          /\ e.start.line \in Int /\ e.start.col \in Int
      BY <1>1, <2>2, OffsetsOf
    <2>4. Starts(s, e) \in 0..Len(s) /\ Ends(s, e) \in Starts(s, e)..Len(s)
      BY <2>1, <2>3 DEF Starts, Ends
    <2>5. e \in [start : Positions(s), end : Positions(s), new : Seq(Runes)]
      <3> HIDE DEF texts
      <3> QED
        BY <1>2, <2>1
    <2>6. e \in Edit(s)
      BY <2>4, <2>5 DEF Edit
    <2>7. e.new \in Seq(Plain)
      <3> HIDE DEF texts
      <3> QED
        BY <1>2, <2>2
    <2> QED
      BY <2>2, <2>3, <2>4, <2>6, <2>7
  <1>4. CASE es = <<>>
    <2>1. Sorted(<<>>) = <<>>
      <3>1. DOMAIN <<>> = {}
        OBVIOUS
      <3> QED
        BY <3>1 DEF Sorted
    <2>2. <<>> \in Seq(Edit(s)) /\ Len(<<>>) = 0
      BY EmptySeq
    <2>3. \A i \in 1..0 : FALSE
      OBVIOUS
    <2>4. Proper(s, <<>>)
      BY <2>2, <2>3 DEF Proper
    <2>5. \A i \in 1..Len(<<>>) : <<>>[i].new \in Seq(Plain)
      BY <2>2, <2>3
    <2> QED
      BY <1>4, <2>1, <2>2, <2>4, <2>5
  <1>5. CASE es \in Answers(s)
    <2> DEFINE fs == Sorted(es)
               n == Len(es)
    <2>1. PICK m \in 1..MaxEdits : es \in [1..m -> EditsOf(s, {<<>>, <<"x">>, <<"y">>})]
      BY <1>5 DEF Answers
    <2>2. \A i, j \in DOMAIN es : i < j => Disjoint(s, es[i], es[j])
      BY <1>5 DEF Answers
    <2>3. m \in Nat
      BY TextAssumption
    <2>4. /\ \A i \in 1..m : es[i] \in EditsOf(s, {<<>>, <<"x">>, <<"y">>})
          /\ DOMAIN es = 1..m
      BY <2>1
    <2>5. \A i \in 1..m : /\ es[i] \in Edit(s) /\ es[i].new \in Seq(Plain)
                          /\ Starts(s, es[i]) \in 0..Len(s) /\ Ends(s, es[i]) \in Starts(s, es[i])..Len(s)
      BY <1>3, <2>4
    <2>6. es \in [1..m -> Edit(s)]
      BY <2>1, <2>5
    <2>7. es \in Seq(Edit(s)) /\ n = m /\ Len(s) \in Nat
      BY <2>3, <2>6
    <2>8. ASSUME NEW i \in 1..m, NEW j \in 1..m, i < j
          PROVE  /\ \/ Ends(s, es[i]) <= Starts(s, es[j])
                    \/ Ends(s, es[j]) <= Starts(s, es[i]) /\ Starts(s, es[j]) < Starts(s, es[i])
                 /\ Starts(s, es[i]) = Starts(s, es[j]) => es[i].start = es[j].start
      <3>1. Disjoint(s, es[i], es[j])
        BY <2>2, <2>4, <2>8
      <3> QED
        BY <3>1 DEF Disjoint, Starts, Ends
    <2>9. Alike(s, es)
      <3>1. ASSUME NEW i \in 1..m, NEW j \in 1..m, Starts(s, es[i]) = Starts(s, es[j])
            PROVE  es[i].start = es[j].start
        <4>1. i < j \/ i = j \/ j < i
          OBVIOUS
        <4> QED
          BY <2>8, <3>1, <4>1
      <3> QED
        BY <2>7, <3>1 DEF Alike
    <2>10. PICK p : Order(s, es, p) /\ fs = [i \in 1..n |-> es[p[i]]]
      BY <1>1, <2>7, <2>9, SortedIs
    <2> HIDE DEF fs
    <2>11. /\ p \in [1..m -> 1..m]
           /\ \A i, j \in 1..m : i < j =>
                  \/ Starts(s, es[p[i]]) < Starts(s, es[p[j]])
                  \/ Starts(s, es[p[i]]) = Starts(s, es[p[j]]) /\ p[i] < p[j]
      BY <2>7, <2>10 DEF Order
    <2>12. \A i \in 1..m : p[i] \in 1..m /\ fs[i] = es[p[i]] /\ fs[i] \in Edit(s) /\ fs[i].new \in Seq(Plain)
      BY <2>5, <2>7, <2>10, <2>11
    <2>13. fs \in [1..m -> Edit(s)]
      BY <2>7, <2>10, <2>12
    <2>14. fs \in Seq(Edit(s)) /\ Len(fs) = m
      BY <2>3, <2>13
    <2>15. ASSUME NEW i \in 1..m, NEW j \in 1..m, i < j PROVE Ends(s, fs[i]) <= Starts(s, fs[j])
      <3> DEFINE a == p[i]
                 b == p[j]
      <3>1. a \in 1..m /\ b \in 1..m /\ fs[i] = es[a] /\ fs[j] = es[b]
        BY <2>12
      <3>2. Starts(s, es[a]) < Starts(s, es[b]) \/ (Starts(s, es[a]) = Starts(s, es[b]) /\ a < b)
        BY <2>11, <2>15
      <3> HIDE DEF a, b
      <3>3. /\ Starts(s, es[a]) \in Int /\ Starts(s, es[b]) \in Int
            /\ Ends(s, es[a]) \in Int /\ Ends(s, es[b]) \in Int
            /\ Starts(s, es[b]) <= Ends(s, es[b]) /\ Starts(s, es[a]) <= Ends(s, es[a])
        BY <2>5, <2>7, <3>1
      <3>4. CASE a < b
        <4>1. \/ Ends(s, es[a]) <= Starts(s, es[b])
              \/ Ends(s, es[b]) <= Starts(s, es[a]) /\ Starts(s, es[b]) < Starts(s, es[a])
          BY <2>8, <3>1, <3>4
        <4> QED
          BY <3>1, <3>2, <3>3, <4>1
      <3>5. CASE b < a
        <4>1. \/ Ends(s, es[b]) <= Starts(s, es[a])
              \/ Ends(s, es[a]) <= Starts(s, es[b]) /\ Starts(s, es[a]) < Starts(s, es[b])
          BY <2>8, <3>1, <3>5
        <4>2. Starts(s, es[a]) < Starts(s, es[b])
          BY <3>1, <3>2, <3>5
        <4> QED
          BY <3>1, <3>3, <4>1, <4>2
      <3>6. a # b
        BY <3>1, <3>2, <3>3
      <3> QED
        BY <3>1, <3>4, <3>5, <3>6
    <2>16. Proper(s, fs)
      BY <2>14, <2>15 DEF Proper
    <2>17. Meant(s, fs) = Meant(s, es)
      BY <1>1, <2>7, <2>10, <2>14, MeantInOrder
    <2>18. \A i \in 1..Len(fs) : fs[i].new \in Seq(Plain)
      BY <2>12, <2>14
    <2> QED
      BY <2>7, <2>14, <2>16, <2>17, <2>18 DEF fs
  <1> QED
    BY <1>4, <1>5
-----------------------------------------------------------------------------
(* Applying the edits of an answer, from the last to the first.            *)

LEMMA FrontAndLast ==
    ASSUME NEW T, NEW E \in Seq(T), NEW m \in 1..Len(E)
    PROVE  /\ Last(Slice(E, 0, m)) = E[m] /\ Front(Slice(E, 0, m)) = Slice(E, 0, m - 1)
           /\ Slice(E, 0, m) # <<>> /\ E[m] \in T
           /\ Slice(E, m, Len(E)) \in Seq(T)
           /\ <<E[m]>> \o Slice(E, m, Len(E)) = Slice(E, m - 1, Len(E))
  <1> DEFINE u == Slice(E, 0, m)
             v == Slice(E, 0, m - 1)
  <1>1. m \in Nat /\ Len(E) \in Nat /\ 0 \in 0..Len(E) /\ m \in 0..Len(E) /\ m - 1 \in 0..Len(E)
        /\ m \in (m - 1)..Len(E) /\ Len(E) \in m..Len(E) /\ m - 0 = m /\ (m - 1) - 0 = m - 1
        /\ m - (m - 1) = 1 /\ m \in 1..m /\ (m - 1) + 1 = m
    OBVIOUS
  <1>2. u \in Seq(T) /\ Len(u) = m /\ \A i \in 1..m : u[i] = E[0 + i]
    <2>1. u \in Seq(T) /\ Len(u) = m - 0 /\ \A i \in 1..(m - 0) : u[i] = E[0 + i]
      BY <1>1, SliceIs
    <2> QED
      BY <1>1, <2>1
  <1>3. v \in Seq(T) /\ Len(v) = m - 1 /\ \A i \in 1..(m - 1) : v[i] = E[0 + i]
    <2>1. v \in Seq(T) /\ Len(v) = (m - 1) - 0 /\ \A i \in 1..((m - 1) - 0) : v[i] = E[0 + i]
      BY <1>1, SliceIs
    <2> QED
      BY <1>1, <2>1
  <1>4. Slice(E, m, Len(E)) \in Seq(T)
    BY <1>1, SliceIs
  <1>5. E[m] \in T
    BY ElementOfSeq
  <1>6. <<E[m]>> = Slice(E, m - 1, m)
    <2>1. Slice(E, m - 1, m) \in Seq(T) /\ Len(Slice(E, m - 1, m)) = 1
          /\ \A i \in 1..1 : Slice(E, m - 1, m)[i] = E[(m - 1) + i]
      <3>1. Slice(E, m - 1, m) \in Seq(T) /\ Len(Slice(E, m - 1, m)) = m - (m - 1)
            /\ \A i \in 1..(m - (m - 1)) : Slice(E, m - 1, m)[i] = E[(m - 1) + i]
        BY <1>1, SliceIs
      <3> QED
        BY <1>1, <3>1
    <2>2. Slice(E, m - 1, m)[1] = E[m]
      BY <1>1, <2>1
    <2>3. <<E[m]>> \in Seq(T) /\ Len(<<E[m]>>) = 1 /\ <<E[m]>>[1] = E[m]
      BY <1>5
    <2>4. \A i \in 1..1 : i = 1
      OBVIOUS
    <2> QED
      BY <2>1, <2>2, <2>3, <2>4, SeqEqual
  <1>7. Slice(E, m - 1, m) \o Slice(E, m, Len(E)) = Slice(E, m - 1, Len(E))
    BY <1>1, SliceJoin
  <1> HIDE DEF u, v
  <1>8. Last(u) = E[m]
    BY <1>1, <1>2 DEF Last
  <1>9. u # <<>>
    BY <1>1, <1>2
  <1>10. Front(u) = v
    <2>1. Front(u) \in Seq(T) /\ Len(Front(u)) = m - 1 /\ \A i \in 1..(m - 1) : Front(u)[i] = u[i]
      <3>1. Front(u) = SubSeq(u, 1, m - 1)
        BY <1>2 DEF Front
      <3>2. 0 \in 0..Len(u) /\ m - 1 \in 0..Len(u)
        BY <1>1, <1>2
      <3>3. Slice(u, 0, m - 1) \in Seq(T) /\ Len(Slice(u, 0, m - 1)) = (m - 1) - 0
            /\ \A i \in 1..((m - 1) - 0) : Slice(u, 0, m - 1)[i] = u[0 + i]
        BY <1>2, <3>2, SliceIs
      <3>4. Slice(u, 0, m - 1) = SubSeq(u, 1, m - 1)
        BY DEF Slice
      <3>5. \A i \in 1..(m - 1) : 0 + i = i
        OBVIOUS
      <3> QED
        BY <1>1, <3>1, <3>3, <3>4, <3>5
    <2>2. \A i \in 1..(m - 1) : i \in 1..m
      BY <1>1
    <2>3. \A i \in 1..(m - 1) : Front(u)[i] = v[i]
      BY <1>2, <1>3, <2>1, <2>2
    <2> QED
      BY <1>3, <2>1, <2>3, SeqEqual
  <1> QED
    BY <1>4, <1>5, <1>6, <1>7, <1>8, <1>9, <1>10 DEF u, v

\* The text b when the edits of E after the m-th have been applied to s and n
\* runes been typed below those that are left.
Halfway(s, E, m, b, n) ==
    /\ b \in Seq(Runes)
    /\ Untyped(b) = Meant(s, Slice(E, m, Len(E)))
    /\ Len(b) = Len(Untyped(b)) + n
    /\ m > 0 => /\ Ends(s, E[m]) <= Len(b)
                /\ Slice(b, 0, Ends(s, E[m])) = Slice(s, 0, Ends(s, E[m]))

Sound(s, E) == Proper(s, E) /\ \A i \in 1..Len(E) : E[i].new \in Seq(Plain)

LEMMA WrittenRunes ==
    ASSUME NEW s \in Seq(Written)
    PROVE  s \in Seq(Runes) /\ s \in Seq(Plain) /\ Untyped(s) = s
  <1>1. Written \subseteq Runes /\ Written \subseteq Plain
    BY DEF Runes, Plain, Written
  <1>2. s \in Seq(Runes) /\ s \in Seq(Plain)
    BY <1>1, SeqMonotonic
  <1> QED
    BY <1>2, UntypedPlain

\* Applying the last edit that is left.
LEMMA OneMore ==
    ASSUME NEW s \in Seq(Written), NEW E, Sound(s, E), NEW m \in 1..Len(E),
           NEW b, NEW n \in Nat, Halfway(s, E, m, b, n)
    PROVE  Halfway(s, E, m - 1, Replaced(b, Starts(s, E[m]), Ends(s, E[m]), E[m].new), n)
  <1> DEFINE e == E[m]
             rest == Slice(E, m, Len(E))
             f == Starts(s, e)
             t == Ends(s, e)
             a == IF m > 1 THEN Ends(s, E[m - 1]) ELSE 0
             r == Replaced(b, f, t, e.new)
  <1>1. s \in Seq(Runes)
    BY WrittenRunes
  <1>2. E \in Seq(Edit(s)) /\ Proper(s, E) /\ \A i \in 1..Len(E) : E[i].new \in Seq(Plain)
    BY DEF Sound, Proper
  <1>3. e \in Edit(s) /\ rest \in Seq(Edit(s)) /\ <<e>> \o rest = Slice(E, m - 1, Len(E))
    BY <1>2, FrontAndLast
  <1>4. m \in Nat /\ Len(E) \in Nat /\ m - 1 \in 0..Len(E) /\ Len(E) \in (m - 1)..Len(E)
        /\ 1 \in 1..Len(E) /\ m > 0 /\ Len(s) \in Nat
    BY <1>2
  <1>5. Proper(s, <<e>> \o rest)
    <2> DEFINE w == Slice(E, m - 1, Len(E))
               k == Len(E) - (m - 1)
    <2>1. w \in Seq(Edit(s)) /\ Len(w) = k
          /\ \A i \in 1..k : w[i] = E[(m - 1) + i]
      BY <1>2, <1>4, SliceIs
    <2>2. k \in Nat
      BY <1>4
    <2>3. \A i \in 1..k : (m - 1) + i \in 1..Len(E)
      BY <1>4
    <2>4. \A i, j \in 1..k : i < j => (m - 1) + i < (m - 1) + j
      BY <1>4, <2>2
    <2> HIDE DEF w, k
    <2>5. \A i, j \in 1..k : i < j => Ends(s, w[i]) <= Starts(s, w[j])
      <3>1. TAKE i, j \in 1..k
      <3>2. HAVE i < j
      <3>3. (m - 1) + i \in 1..Len(E) /\ (m - 1) + j \in 1..Len(E) /\ (m - 1) + i < (m - 1) + j
        BY <2>3, <2>4, <3>2
      <3>4. Ends(s, E[(m - 1) + i]) <= Starts(s, E[(m - 1) + j])
        BY <1>2, <3>3 DEF Proper
      <3> QED
        BY <2>1, <3>4
    <2>6. Proper(s, w)
      BY <2>1, <2>5 DEF Proper
    <2> QED
      BY <1>3, <2>6 DEF w
  <1>6. f \in 0..Len(s) /\ t \in f..Len(s) /\ e.new \in Seq(Plain)
    BY <1>2, <1>3 DEF Edit
  <1>7. /\ b \in Seq(Runes) /\ Untyped(b) = Meant(s, rest) /\ Len(b) = Len(Untyped(b)) + n
        /\ t <= Len(b) /\ Slice(b, 0, t) = Slice(s, 0, t)
    BY <1>4 DEF Halfway
  <1>8. Meant(s, <<e>> \o rest) = Replaced(Meant(s, rest), f, t, e.new)
    BY <1>1, <1>3, <1>5, MeantFirst
  <1>9. a \in 0..f
    <2>1. CASE m > 1
      <3>1. m - 1 \in 1..Len(E) /\ m - 1 < m
        BY <1>4, <2>1
      <3>2. Ends(s, E[m - 1]) <= f
        BY <1>2, <3>1 DEF Proper
      <3>3. E[m - 1] \in Edit(s)
        BY <1>2, <3>1, ElementOfSeq
      <3>4. Starts(s, E[m - 1]) \in 0..Len(s) /\ Ends(s, E[m - 1]) \in Starts(s, E[m - 1])..Len(s)
        BY <3>3 DEF Edit
      <3>5. a = Ends(s, E[m - 1])
        BY <2>1
      <3> HIDE DEF a, f
      <3> QED
        BY <1>4, <1>6, <3>2, <3>4, <3>5
    <2>2. CASE ~(m > 1)
      <3>1. a = 0
        BY <2>2
      <3> HIDE DEF a, f
      <3> QED
        BY <1>4, <1>6, <3>1
    <2> QED
      BY <2>1, <2>2
  <1> HIDE DEF a
  <1>10. t \in 0..Len(b) /\ f \in 0..t /\ a \in 0..f /\ t <= Len(s)
    <2> HIDE DEF t, f
    <2> QED
      BY <1>4, <1>6, <1>7, <1>9
  <1>11. /\ r \in Seq(Runes) /\ Untyped(r) = Replaced(Untyped(b), f, t, e.new)
         /\ Len(r) - Len(Untyped(r)) = Len(b) - Len(Untyped(b))
         /\ a <= Len(r) /\ Slice(r, 0, a) = Slice(s, 0, a)
    <2> HIDE DEF t, f, e
    <2> QED
      BY <1>6, <1>7, <1>10, WritingStep
  <1> HIDE DEF r, rest, e, f, t
  <1>12. Untyped(r) = Meant(s, Slice(E, m - 1, Len(E)))
    BY <1>3, <1>7, <1>8, <1>11
  <1>13. Len(r) = Len(Untyped(r)) + n
    <2>1. Untyped(r) \in Seq(Runes) /\ Untyped(b) \in Seq(Runes)
      BY <1>7, <1>11, UntypedConcat
    <2>2. Len(r) \in Nat /\ Len(b) \in Nat /\ Len(Untyped(r)) \in Nat /\ Len(Untyped(b)) \in Nat
      BY <1>7, <1>11, <2>1
    <2> QED
      BY <1>7, <1>11, <2>2
  <1>14. m - 1 > 0 => a = Ends(s, E[m - 1])
    BY <1>4 DEF a
  <1>15. Halfway(s, E, m - 1, r, n)
    BY <1>11, <1>12, <1>13, <1>14 DEF Halfway
  <1> QED
    BY <1>15 DEF r, e, f, t

\* Typing below the edits that are left.
LEMMA OneTyped ==
    ASSUME NEW s \in Seq(Written), NEW E, Sound(s, E), NEW m \in 0..Len(E),
           NEW b, NEW n \in Nat, Halfway(s, E, m, b, n), NEW q \in 0..Len(b),
           m > 0 => Ends(s, E[m]) <= q
    PROVE  Halfway(s, E, m, Replaced(b, q, q, <<"t">>), n + 1)
  <1> DEFINE a == IF m > 0 THEN Ends(s, E[m]) ELSE 0
             r == Replaced(b, q, q, <<"t">>)
  <1>1. b \in Seq(Runes)
    BY DEF Halfway
  <1>2. a \in 0..q
    <2>1. CASE m > 0
      <3>1. E \in Seq(Edit(s)) /\ m \in 1..Len(E)
        BY <2>1 DEF Sound, Proper
      <3>2. E[m] \in Edit(s)
        BY <3>1, ElementOfSeq
      <3>3. Starts(s, E[m]) \in 0..Len(s) /\ Ends(s, E[m]) \in Starts(s, E[m])..Len(s)
        BY <3>2 DEF Edit
      <3>4. a = Ends(s, E[m]) /\ a <= q
        BY <2>1
      <3> HIDE DEF a
      <3> QED
        BY <1>1, <3>3, <3>4
    <2>2. CASE ~(m > 0)
      <3>1. a = 0
        BY <2>2
      <3> QED
        BY <1>1, <3>1
    <2> QED
      BY <2>1, <2>2
  <1>3. /\ r \in Seq(Runes) /\ Len(r) = Len(b) + 1 /\ Untyped(r) = Untyped(b)
        /\ Slice(r, 0, a) = Slice(b, 0, a)
    <2> HIDE DEF a
    <2> QED
      BY <1>1, <1>2, TypingStep
  <1>4. Untyped(b) \in Seq(Runes)
    BY <1>1, UntypedConcat
  <1>5. Len(b) \in Nat /\ Len(Untyped(b)) \in Nat
    BY <1>1, <1>4
  <1> HIDE DEF r
  <1>6. Len(r) = Len(Untyped(r)) + (n + 1)
    BY <1>3, <1>5 DEF Halfway
  <1>7. m > 0 => Ends(s, E[m]) <= Len(r) /\ Slice(r, 0, Ends(s, E[m])) = Slice(s, 0, Ends(s, E[m]))
    <2>1. ASSUME m > 0
          PROVE  Ends(s, E[m]) <= Len(r) /\ Slice(r, 0, Ends(s, E[m])) = Slice(s, 0, Ends(s, E[m]))
      <3>1. a = Ends(s, E[m])
        BY <2>1
      <3>2. Slice(b, 0, a) = Slice(s, 0, a)
        BY <2>1, <3>1 DEF Halfway
      <3> HIDE DEF a
      <3>3. a <= Len(r)
        BY <1>2, <1>3, <1>5
      <3> QED
        BY <1>3, <3>1, <3>2, <3>3
    <2> QED
      BY <2>1
  <1>8. Halfway(s, E, m, r, n + 1)
    BY <1>3, <1>6, <1>7 DEF Halfway
  <1> QED
    BY <1>8 DEF r
-----------------------------------------------------------------------------
(* What is true while the edits are applied.                               *)

Counted == off.leftover = Len(doc) - Max(LineStarts(doc))
Came == items \in IF command = "edits" THEN Answers(doc) ELSE Proposals(doc)

Applying(m) ==
    /\ m \in 0..Len(Sorted(Chosen))
    /\ edits = Slice(Sorted(Chosen), 0, m)
    /\ Halfway(doc, Sorted(Chosen), m, body, typed)
    /\ pc = "write" => /\ m > 0
                       /\ addr = <<Starts(doc, Sorted(Chosen)[m]), Ends(doc, Sorted(Chosen)[m])>>

AppliedInv ==
    /\ doc \in Seq(Written) /\ typed \in Nat
    /\ pc = "start" => body \in Seq(Written) /\ typed = 0
    /\ pc \in {"dot", "position", "answer", "answered"} /\ ~clash => body = doc /\ typed = 0
    /\ pc \in {"answered", "addr", "write", "done"} => Came
    /\ pc \in {"addr", "write"} /\ ~clash /\ Counted => off.nl = Nl(doc) /\ \E m \in Nat : Applying(m)
    /\ AppliedIsMeant

\* The edits of any answer, and the edit of the item that is inserted.
LEMMA ChosenSound ==
    ASSUME doc \in Seq(Written), Came
    PROVE  /\ Sound(doc, Sorted(Chosen)) /\ Meant(doc, Sorted(Chosen)) = Meant(doc, Chosen)
           /\ Sorted(Chosen) \in Seq(Edit(doc))
  <1>1. Chosen \in Answers(doc) \cup {<<>>}
    <2>1. CASE command = "edits"
      BY <2>1 DEF Came, Chosen
    <2>2. CASE command # "edits" /\ ~Inserts(command, Len(items))
      BY <2>2 DEF Chosen
    <2>3. CASE command # "edits" /\ Inserts(command, Len(items))
      <3>1. items \in Proposals(doc) /\ Len(items) # 0
        <4>1. Len(items) # 0
          <5>1. SUFFICES ASSUME Len(items) = 0 PROVE FALSE
            OBVIOUS
          <5> QED
            BY <2>3, <5>1 DEF Inserts
        <4> QED
          BY <2>3, <4>1 DEF Came
      <3>2. items # <<>>
        BY <3>1
      <3>3. PICK e \in EditsOf(doc, {<<"x">>}) : items = <<e>> \/ items = <<e, e>>
        BY <3>1, <3>2 DEF Proposals
      <3>4. items[1] = e
        BY <3>3
      <3>5. Chosen = <<e>>
        BY <2>3, <3>4 DEF Chosen
      <3>6. e \in EditsOf(doc, {<<>>, <<"x">>, <<"y">>})
        BY <3>3 DEF EditsOf
      <3>7. <<e>> \in [1..1 -> EditsOf(doc, {<<>>, <<"x">>, <<"y">>})] /\ DOMAIN <<e>> = 1..1
        BY <3>6
      <3>8. 1 \in 1..MaxEdits
        BY TextAssumption
      <3>9. \A i, j \in 1..1 : ~(i < j)
        OBVIOUS
      <3>10. <<e>> \in Answers(doc)
        BY <3>7, <3>8, <3>9 DEF Answers
      <3> QED
        BY <3>5, <3>10
    <2> QED
      BY <2>1, <2>2, <2>3
  <1>2. PICK c \in Answers(doc) \cup {<<>>} : c = Chosen
    BY <1>1
  <1>3. PICK d \in Seq(Written) : d = doc
    OBVIOUS
  <1>4. /\ Proper(d, Sorted(c)) /\ \A i \in 1..Len(Sorted(c)) : Sorted(c)[i].new \in Seq(Plain)
        /\ Meant(d, Sorted(c)) = Meant(d, c) /\ Sorted(c) \in Seq(Edit(d))
    <2>1. c \in Answers(d) \cup {<<>>}
      BY <1>2, <1>3
    <2> QED
      BY <2>1, SortedAnswer
  <1> QED
    BY <1>2, <1>3, <1>4 DEF Sound

\* What Edit computes from the offsets it has read is where the edit is.
LEMMA WhereEditsAre ==
    ASSUME doc \in Seq(Written), Counted, off.nl = Nl(doc), NEW e \in Edit(doc)
    PROVE  From(e) = Starts(doc, e) /\ To(e) = Ends(doc, e)
  <1>1. PICK d \in Seq(Written) : d = doc
    OBVIOUS
  <1>2. PICK o : o = off
    OBVIOUS
  <1>3. e.start \in Positions(d) /\ e.end \in Positions(d)
    BY <1>1 DEF Edit
  <1>4. o.nl = Nl(d) /\ o.leftover = Len(d) - Max(LineStarts(d))
    BY <1>1, <1>2 DEF Counted
  <1>5. LineToOffset(o, e.start.line, e.start.col) = OffsetOf(d, e.start)
        /\ LineToOffset(o, e.end.line, e.end.col) = OffsetOf(d, e.end)
    BY <1>3, <1>4, LineToOffsetIs
  <1> QED
    BY <1>1, <1>2, <1>5 DEF From, To, Starts, Ends

LEMMA AppliedInit == Init => AppliedInv
  <1> SUFFICES ASSUME Init PROVE AppliedInv
    OBVIOUS
  <1>1. body \in Seq(Written)
    BY CursorInit DEF CursorInv, Init
  <1>2. doc \in Seq(Written)
    BY EmptySeq DEF Init
  <1> QED
    BY <1>1, <1>2 DEF Init, AppliedInv, AppliedIsMeant

\* Edit has read the text, and no edit has been applied.
LEMMA NoneApplied ==
    ASSUME AppliedInv, ReadBody, ~clash, Counted'
    PROVE  off'.nl = Nl(doc) /\ \E m \in Nat : Applying(m)'
  <1> DEFINE E == Sorted(Chosen)
             n == Len(E)
  <1>1. /\ pc = "answered" /\ pc' = "addr" /\ edits' = E /\ off' = NewlineOffsets(body)
        /\ UNCHANGED <<body, command, doc, items, typed>>
    BY DEF ReadBody
  <1>2. doc \in Seq(Written) /\ body = doc /\ typed = 0 /\ Came
    BY <1>1 DEF AppliedInv
  <1>3. Sound(doc, E) /\ E \in Seq(Edit(doc))
    BY <1>2, ChosenSound
  <1>4. off'.nl = Nl(doc)
    BY <1>1, <1>2 DEF NewlineOffsets, Nl
  <1>5. Chosen' = Chosen
    BY <1>1 DEF Chosen
  <1>6. doc \in Seq(Runes) /\ Untyped(doc) = doc
    BY <1>2, WrittenRunes
  <1> HIDE DEF E
  <1>7. n \in Nat /\ n \in 0..n /\ Slice(E, n, n) = <<>> /\ E = Slice(E, 0, n)
    <2>1. n \in Nat /\ n \in 0..Len(E)
      BY <1>3
    <2> QED
      BY <1>3, <2>1, SliceNone, SliceAll
  <1>8. Halfway(doc, E, n, doc, 0)
    <2>1. Meant(doc, Slice(E, n, Len(E))) = doc
      <3>1. PICK d \in Seq(Runes) : d = doc
        BY <1>6
      <3>2. Meant(d, <<>>) = d
        BY MeantNone
      <3> QED
        BY <1>7, <3>1, <3>2
    <2>2. n > 0 => Ends(doc, E[n]) <= Len(doc)
      <3>1. ASSUME n > 0 PROVE Ends(doc, E[n]) <= Len(doc)
        <4>1. n \in 1..Len(E)
          BY <1>7, <3>1
        <4>2. E[n] \in Edit(doc)
          BY <1>3, <4>1, ElementOfSeq
        <4>3. Len(doc) \in Nat /\ Starts(doc, E[n]) \in 0..Len(doc) /\ Ends(doc, E[n]) \in Starts(doc, E[n])..Len(doc)
          BY <1>6, <4>2 DEF Edit
        <4> QED
          BY <4>3
      <3> QED
        BY <3>1
    <2>3. Len(doc) = Len(doc) + 0
      BY <1>6
    <2> HIDE DEF n
    <2> QED
      BY <1>6, <2>1, <2>2, <2>3 DEF Halfway
  <1>9. PICK m \in Nat : m = n
    BY <1>7
  <1>10. m \in 0..Len(E) /\ E = Slice(E, 0, m) /\ Halfway(doc, E, m, doc, 0)
    BY <1>7, <1>8, <1>9
  <1>11. Applying(m)'
    BY <1>1, <1>2, <1>5, <1>10 DEF Applying, E
  <1> QED
    BY <1>4, <1>9, <1>11

LEMMA AddrOfEdit ==
    ASSUME AppliedInv, SetAddr, ~clash, Counted
    PROVE  /\ pc' = "write" /\ edits' = edits
           /\ \E m \in Nat : Applying(m)'
  <1> DEFINE E == Sorted(Chosen)
  <1>1. pc = "addr" /\ edits # <<>> /\ UNCHANGED <<body, command, doc, items, typed>>
    BY DEF SetAddr
  <1>2. doc \in Seq(Written) /\ off.nl = Nl(doc) /\ typed \in Nat
    BY <1>1 DEF AppliedInv
  <1>3. Came
    BY <1>1 DEF AppliedInv
  <1>4. Sound(doc, E) /\ E \in Seq(Edit(doc))
    BY <1>2, <1>3, ChosenSound
  <1>5. PICK m \in Nat : Applying(m)
    BY <1>1 DEF AppliedInv
  <1>6. m \in 0..Len(E) /\ edits = Slice(E, 0, m) /\ Halfway(doc, E, m, body, typed)
    BY <1>5 DEF Applying
  <1>7. Chosen' = Chosen
    BY <1>1 DEF Chosen
  <1> HIDE DEF E
  <1>8. m > 0
    <2>1. SUFFICES ASSUME m = 0 PROVE FALSE
      BY <1>5
    <2>2. 0 \in 0..Len(E)
      BY <1>4
    <2>3. Slice(E, 0, 0) = <<>>
      BY <1>4, <2>2, SliceNone
    <2> QED
      BY <1>1, <1>6, <2>1, <2>3
  <1>9. m \in 1..Len(E)
    BY <1>6, <1>8
  <1>10. Last(edits) = E[m] /\ E[m] \in Edit(doc)
    BY <1>4, <1>6, <1>9, FrontAndLast
  <1>11. From(Last(edits)) = Starts(doc, E[m]) /\ To(Last(edits)) = Ends(doc, E[m])
    BY <1>2, <1>10, WhereEditsAre
  <1>12. Starts(doc, E[m]) <= Ends(doc, E[m]) /\ Ends(doc, E[m]) <= Len(body)
    <2>1. Starts(doc, E[m]) \in 0..Len(doc) /\ Ends(doc, E[m]) \in Starts(doc, E[m])..Len(doc)
      BY <1>10 DEF Edit
    <2>2. Starts(doc, E[m]) <= Ends(doc, E[m])
      BY <1>2, <2>1
    <2> QED
      BY <1>6, <1>8, <2>2 DEF Halfway
  <1>13. addr' = <<Starts(doc, E[m]), Ends(doc, E[m])>> /\ pc' = "write" /\ edits' = edits
    BY <1>11, <1>12 DEF SetAddr
  <1>14. Applying(m)'
    BY <1>1, <1>6, <1>7, <1>8, <1>13 DEF Applying, E
  <1> QED
    BY <1>5, <1>13, <1>14

LEMMA EditApplied ==
    ASSUME AppliedInv, WriteData, ~clash, Counted
    PROVE  \E m \in Nat : Applying(m)'
  <1> DEFINE E == Sorted(Chosen)
  <1>1. pc = "write" /\ pc' = "addr" /\ UNCHANGED <<command, doc, items, typed>> /\ edits' = Front(edits)
    BY DEF WriteData
  <1>2. doc \in Seq(Written) /\ typed \in Nat
    BY <1>1 DEF AppliedInv
  <1>3. Came
    BY <1>1 DEF AppliedInv
  <1>4. Sound(doc, E) /\ E \in Seq(Edit(doc))
    BY <1>2, <1>3, ChosenSound
  <1>5. PICK m \in Nat : Applying(m)
    BY <1>1 DEF AppliedInv
  <1>6. /\ m \in 0..Len(E) /\ edits = Slice(E, 0, m) /\ Halfway(doc, E, m, body, typed)
        /\ m > 0 /\ addr = <<Starts(doc, E[m]), Ends(doc, E[m])>>
    BY <1>1, <1>5 DEF Applying
  <1>7. Chosen' = Chosen
    BY <1>1 DEF Chosen
  <1> HIDE DEF E
  <1>8. m \in 1..Len(E)
    BY <1>6
  <1>9. Last(edits) = E[m] /\ Front(edits) = Slice(E, 0, m - 1)
    BY <1>4, <1>6, <1>8, FrontAndLast
  <1>10. addr[1] = Starts(doc, E[m]) /\ addr[2] = Ends(doc, E[m])
    BY <1>6
  <1>11. Ends(doc, E[m]) <= Len(body)
    BY <1>6 DEF Halfway
  <1>12. body' = Replaced(body, Starts(doc, E[m]), Ends(doc, E[m]), E[m].new)
    BY <1>9, <1>10, <1>11 DEF WriteData
  <1>13. Halfway(doc, E, m - 1, body', typed)
    <2>1. PICK d \in Seq(Written) : d = doc
      BY <1>2
    <2>2. PICK n \in Nat : n = typed
      BY <1>2
    <2>3. PICK b : b = body
      OBVIOUS
    <2>4. PICK es : es = E
      OBVIOUS
    <2>5. Halfway(d, es, m - 1, Replaced(b, Starts(d, es[m]), Ends(d, es[m]), es[m].new), n)
      <3>1. Sound(d, es) /\ m \in 1..Len(es) /\ Halfway(d, es, m, b, n)
        BY <1>4, <1>6, <1>8, <2>1, <2>2, <2>3, <2>4
      <3> QED
        BY <3>1, OneMore
    <2> QED
      BY <1>12, <2>1, <2>2, <2>3, <2>4, <2>5
  <1>14. m - 1 \in Nat /\ m - 1 \in 0..Len(E)
    BY <1>5, <1>6
  <1>15. Applying(m - 1)'
    BY <1>1, <1>7, <1>9, <1>13, <1>14 DEF Applying, E
  <1> QED
    BY <1>14, <1>15

LEMMA TypedBelow ==
    ASSUME AppliedInv, Type, ~clash', Counted
    PROVE  pc \in {"addr", "write"} /\ ~clash /\ \E m \in Nat : Applying(m)'
  <1> DEFINE E == Sorted(Chosen)
  <1>1. PICK q \in 0..Len(body) :
            /\ body' = Replaced(body, q, q, <<"t">>)
            /\ clash' = (clash \/ pc \notin {"addr", "write"} \/ \E i \in DOMAIN edits : q < To(edits[i]))
    BY DEF Type
  <1>2. typed' = typed + 1 /\ UNCHANGED <<addr, command, pc, edits, off, doc, items>>
    BY DEF Type
  <1>3. ~clash /\ pc \in {"addr", "write"} /\ \A i \in DOMAIN edits : ~(q < To(edits[i]))
    BY <1>1
  <1>4. doc \in Seq(Written) /\ typed \in Nat /\ off.nl = Nl(doc)
    BY <1>3 DEF AppliedInv
  <1>5. Came
    BY <1>3 DEF AppliedInv
  <1>6. Sound(doc, E) /\ E \in Seq(Edit(doc))
    BY <1>4, <1>5, ChosenSound
  <1>7. PICK m \in Nat : Applying(m)
    BY <1>3 DEF AppliedInv
  <1>8. /\ m \in 0..Len(E) /\ edits = Slice(E, 0, m) /\ Halfway(doc, E, m, body, typed)
        /\ pc = "write" => m > 0 /\ addr = <<Starts(doc, E[m]), Ends(doc, E[m])>>
    BY <1>7 DEF Applying
  <1>9. Chosen' = Chosen
    BY <1>2 DEF Chosen
  <1> HIDE DEF E
  <1>10. m > 0 => Ends(doc, E[m]) <= q
    <2>1. SUFFICES ASSUME m > 0 PROVE Ends(doc, E[m]) <= q
      OBVIOUS
    <2>2. m \in 1..Len(E)
      BY <1>8, <2>1
    <2>3. E[m] \in Edit(doc)
      BY <1>6, <2>2, ElementOfSeq
    <2>4. To(E[m]) = Ends(doc, E[m])
      BY <1>4, <2>3, WhereEditsAre
    <2>5. m \in DOMAIN edits /\ edits[m] = E[m]
      <3>1. 0 \in 0..Len(E) /\ m \in 0..Len(E) /\ m - 0 = m /\ m \in 1..m /\ 0 + m = m
        BY <2>2
      <3>2. Slice(E, 0, m) \in Seq(Edit(doc)) /\ Len(Slice(E, 0, m)) = m - 0
            /\ \A i \in 1..(m - 0) : Slice(E, 0, m)[i] = E[0 + i]
        BY <1>6, <3>1, SliceIs
      <3>3. DOMAIN Slice(E, 0, m) = 1..m
        BY <3>1, <3>2
      <3> QED
        BY <1>8, <3>1, <3>2, <3>3
    <2>6. ~(q < Ends(doc, E[m]))
      BY <1>3, <2>4, <2>5
    <2>7. Len(doc) \in Nat /\ Starts(doc, E[m]) \in 0..Len(doc) /\ Ends(doc, E[m]) \in Starts(doc, E[m])..Len(doc)
      BY <1>4, <2>3 DEF Edit
    <2>8. q \in Int
      BY <1>1
    <2> QED
      BY <2>6, <2>7, <2>8
  <1>11. Halfway(doc, E, m, body', typed + 1)
    <2>1. PICK d \in Seq(Written) : d = doc
      BY <1>4
    <2>2. PICK n \in Nat : n = typed
      BY <1>4
    <2>3. PICK b : b = body
      OBVIOUS
    <2>4. PICK es : es = E
      OBVIOUS
    <2>5. Halfway(d, es, m, Replaced(b, q, q, <<"t">>), n + 1)
      <3>1. /\ Sound(d, es) /\ m \in 0..Len(es) /\ Halfway(d, es, m, b, n) /\ q \in 0..Len(b)
            /\ m > 0 => Ends(d, es[m]) <= q
        BY <1>1, <1>6, <1>8, <1>10, <2>1, <2>2, <2>3, <2>4
      <3> QED
        BY <3>1, OneTyped
    <2> QED
      BY <1>1, <2>1, <2>2, <2>3, <2>4, <2>5
  <1>12. Applying(m)'
    BY <1>2, <1>8, <1>9, <1>11 DEF Applying, E
  <1> QED
    BY <1>3, <1>7, <1>12

LEMMA AppliedNext == AppliedInv /\ [Next]_vars => AppliedInv'
  <1> SUFFICES ASSUME AppliedInv, [Next]_vars PROVE AppliedInv'
    OBVIOUS
  <1> DEFINE Started == {"dot", "position", "answer", "answered"}
             Later == {"answered", "addr", "write", "done"}
  <1>0. /\ doc \in Seq(Written) /\ typed \in Nat
        /\ pc = "start" => body \in Seq(Written) /\ typed = 0
        /\ pc \in Started /\ ~clash => body = doc /\ typed = 0
        /\ pc \in Later => Came
        /\ pc \in {"addr", "write"} /\ ~clash /\ Counted => off.nl = Nl(doc) /\ \E m \in Nat : Applying(m)
        /\ AppliedIsMeant
    BY DEF AppliedInv
  <1>1. CASE Start
    <2>1. pc = "start" /\ doc' = body /\ body' = body /\ typed' = typed /\ pc' \in {"answer", "dot"}
      BY <1>1 DEF Start
    <2>2. AppliedIsMeant'
      BY <2>1 DEF AppliedIsMeant
    <2> QED
      BY <1>0, <2>1, <2>2 DEF AppliedInv
  <1>2. CASE ReadDot
    <2>1. pc = "dot" /\ pc' = "position" /\ UNCHANGED <<doc, body, typed, clash>>
      BY <1>2 DEF ReadDot
    <2>2. AppliedIsMeant'
      BY <2>1 DEF AppliedIsMeant
    <2> QED
      BY <1>0, <2>1, <2>2 DEF AppliedInv
  <1>3. CASE Position
    <2>1. pc = "position" /\ pc' = "answer" /\ UNCHANGED <<doc, body, typed, clash>>
      BY <1>3 DEF Position
    <2>2. AppliedIsMeant'
      BY <2>1 DEF AppliedIsMeant
    <2> QED
      BY <1>0, <2>1, <2>2 DEF AppliedInv
  <1>4. CASE Answer
    <2>1. pc = "answer" /\ pc' = "answered" /\ UNCHANGED <<command, doc, body, typed, clash>>
      BY <1>4 DEF Answer
    <2>2. AppliedIsMeant'
      BY <2>1 DEF AppliedIsMeant
    <2>3. Came'
      BY <1>4, <2>1 DEF Answer, Came
    <2> QED
      BY <1>0, <2>1, <2>2, <2>3 DEF AppliedInv
  <1>5. CASE List
    <2>1. pc = "answered" /\ pc' = "done" /\ Chosen = <<>> /\ UNCHANGED <<command, doc, body, typed, clash, items, off>>
      BY <1>5 DEF List
    <2>2. Came' /\ Chosen' = <<>>
      BY <1>0, <2>1 DEF Came, Chosen
    <2>3. ASSUME ~clash PROVE Untyped(body) = Meant(doc, <<>>) /\ Len(body) = Len(Untyped(body)) + typed
      <3>1. body = doc /\ typed = 0
        BY <1>0, <2>1, <2>3
      <3>2. PICK d \in Seq(Written) : d = doc
        BY <1>0
      <3>3. Untyped(d) = d /\ d \in Seq(Runes) /\ Meant(d, <<>>) = d /\ Len(d) = Len(d) + 0
        BY WrittenRunes, MeantNone
      <3> QED
        BY <3>1, <3>2, <3>3
    <2>4. AppliedIsMeant'
      BY <2>1, <2>2, <2>3 DEF AppliedIsMeant
    <2> QED
      BY <1>0, <2>1, <2>2, <2>4 DEF AppliedInv
  <1>6. CASE ReadBody
    <2>1. pc = "answered" /\ pc' = "addr" /\ UNCHANGED <<command, doc, items, typed, clash>>
      BY <1>6 DEF ReadBody
    <2>2. Came'
      BY <1>0, <2>1 DEF Came
    <2>3. AppliedIsMeant'
      BY <2>1 DEF AppliedIsMeant
    <2>4. ~clash' /\ Counted' => off'.nl = Nl(doc') /\ \E m \in Nat : Applying(m)'
      BY <1>6, <2>1, NoneApplied
    <2> QED
      BY <1>0, <2>1, <2>2, <2>3, <2>4 DEF AppliedInv
  <1>7. CASE SetAddr
    <2>1. pc = "addr" /\ pc' \in {"addr", "write"} /\ UNCHANGED <<command, doc, items, typed, clash, off>>
      BY <1>7 DEF SetAddr
    <2>2. Came' /\ (Counted' <=> Counted)
      BY <1>0, <2>1 DEF Came, Counted
    <2>3. AppliedIsMeant'
      BY <2>1 DEF AppliedIsMeant
    <2>4. ~clash' /\ Counted' => off'.nl = Nl(doc') /\ \E m \in Nat : Applying(m)'
      BY <1>0, <1>7, <2>1, <2>2, AddrOfEdit
    <2> QED
      BY <1>0, <2>1, <2>2, <2>3, <2>4 DEF AppliedInv
  <1>8. CASE WriteData
    <2>1. pc = "write" /\ pc' = "addr" /\ UNCHANGED <<command, doc, items, typed, clash, off>>
      BY <1>8 DEF WriteData
    <2>2. Came' /\ (Counted' <=> Counted)
      BY <1>0, <2>1 DEF Came, Counted
    <2>3. AppliedIsMeant'
      BY <2>1 DEF AppliedIsMeant
    <2>4. ~clash' /\ Counted' => off'.nl = Nl(doc') /\ \E m \in Nat : Applying(m)'
      BY <1>0, <1>8, <2>1, <2>2, EditApplied
    <2> QED
      BY <1>0, <2>1, <2>2, <2>3, <2>4 DEF AppliedInv
  <1>9. CASE EditDone
    <2>1. pc = "addr" /\ pc' = "done" /\ edits = <<>> /\ UNCHANGED <<body, command, doc, items, typed, clash, off>>
      BY <1>9 DEF EditDone
    <2>2. Came' /\ Chosen' = Chosen /\ (Counted' <=> Counted)
      BY <1>0, <2>1 DEF Came, Chosen, Counted
    <2>3. ASSUME ~clash, Counted
          PROVE  Untyped(body) = Meant(doc, Chosen) /\ Len(body) = Len(Untyped(body)) + typed
      <3>1. PICK m \in Nat : Applying(m)
        BY <1>0, <2>1, <2>3
      <3>2. Sorted(Chosen) \in Seq(Edit(doc)) /\ Meant(doc, Sorted(Chosen)) = Meant(doc, Chosen)
        BY <1>0, <2>1, ChosenSound
      <3>3. PICK E \in Seq(Edit(doc)) : E = Sorted(Chosen)
        BY <3>2
      <3>4. m \in 0..Len(E) /\ <<>> = Slice(E, 0, m) /\ Halfway(doc, E, m, body, typed)
        BY <2>1, <3>1, <3>3 DEF Applying
      <3>5. m = 0
        <4>1. 0 \in 0..Len(E) /\ m \in 0..Len(E) /\ m - 0 = m
          BY <3>4
        <4>2. Len(Slice(E, 0, m)) = m - 0
          BY <4>1, SliceIs
        <4> QED
          BY <3>4, <4>1, <4>2
      <3>6. Slice(E, 0, Len(E)) = E
        BY SliceAll
      <3> QED
        BY <3>2, <3>3, <3>4, <3>5, <3>6 DEF Halfway
    <2>4. AppliedIsMeant'
      BY <2>1, <2>2, <2>3 DEF AppliedIsMeant, Counted
    <2> QED
      BY <1>0, <2>1, <2>2, <2>4 DEF AppliedInv
  <1>10. CASE Type
    <2>1. /\ pc \in {"position", "answered", "addr", "write"} /\ typed' = typed + 1
          /\ UNCHANGED <<command, doc, items, off, pc>>
      BY <1>10 DEF Type
    <2>2. (Came => Came') /\ (Counted' <=> Counted)
      BY <2>1 DEF Came, Counted
    <2>3. AppliedIsMeant'
      BY <2>1 DEF AppliedIsMeant
    <2>4. ~clash' /\ Counted' => off'.nl = Nl(doc') /\ \E m \in Nat : Applying(m)'
      BY <1>0, <1>10, <2>1, <2>2, TypedBelow
    <2>5. pc' \in Started => clash'
      <3>1. pc \in Started => pc \notin {"addr", "write"}
        OBVIOUS
      <3> QED
        BY <1>10, <2>1, <3>1 DEF Type
    <2>6. typed' \in Nat /\ pc' # "start" /\ doc' = doc
      BY <1>0, <2>1
    <2> QED
      BY <1>0, <2>1, <2>2, <2>3, <2>4, <2>5, <2>6 DEF AppliedInv
  <1>11. CASE Poll
    <2>1. /\ pc \in {"addr", "write"} /\ (clash' <=> clash \/ pc = "write")
          /\ UNCHANGED <<body, command, doc, items, off, pc, typed, edits>>
      BY <1>11 DEF Poll
    <2>2. Came' /\ (Counted' <=> Counted) /\ Chosen' = Chosen
      BY <1>0, <2>1 DEF Came, Counted, Chosen
    <2>3. AppliedIsMeant'
      BY <2>1 DEF AppliedIsMeant
    <2>4. ASSUME ~clash', Counted' PROVE off'.nl = Nl(doc') /\ \E m \in Nat : Applying(m)'
      <3>1. ~clash /\ pc = "addr" /\ Counted
        BY <2>1, <2>2, <2>4
      <3>2. off.nl = Nl(doc) /\ \E m \in Nat : Applying(m)
        BY <1>0, <3>1
      <3>3. \A m \in Nat : Applying(m) => Applying(m)'
        BY <2>1, <2>2, <3>1 DEF Applying
      <3> QED
        BY <2>1, <3>2, <3>3
    <2> QED
      BY <1>0, <2>1, <2>2, <2>3, <2>4 DEF AppliedInv
  <1>12. CASE UNCHANGED vars
    <2>1. UNCHANGED <<body, addr, command, doc, items, off, pc, typed, edits, clash>>
      BY <1>12 DEF vars
    <2>2. (Came => Came') /\ (Counted' <=> Counted) /\ Chosen' = Chosen
      BY <2>1 DEF Came, Counted, Chosen
    <2>3. AppliedIsMeant'
      BY <1>0, <2>1, <2>2 DEF AppliedIsMeant
    <2>4. \A m \in Nat : Applying(m) => Applying(m)'
      BY <2>1, <2>2 DEF Applying
    <2> QED
      BY <1>0, <2>1, <2>2, <2>3, <2>4 DEF AppliedInv
  <1> QED
    BY <1>1, <1>2, <1>3, <1>4, <1>5, <1>6, <1>7, <1>8, <1>9, <1>10, <1>11, <1>12 DEF Next

\* What a command leaves in the window is the document that the server means,
\* for every text and every answer of up to twelve edits that do not overlap,
\* in any order (sort.Sort does not keep the order of more than twelve):
\* sorting them, computing their offsets from the lines that were read once,
\* and replacing from the last to the first (edit.go:54-67, line.go:18-60).
\* What the user types meanwhile below the edits that are left is not lost.
THEOREM MeantIsApplied == Spec => []AppliedIsMeant
  <1>1. AppliedInv => AppliedIsMeant
    BY DEF AppliedInv
  <1> QED
    BY AppliedInit, AppliedNext, <1>1, PTL DEF Spec
=============================================================================

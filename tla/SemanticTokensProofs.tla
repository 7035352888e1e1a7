------------------------ MODULE SemanticTokensProofs ------------------------
(***************************************************************************)
(* Theorems about SemanticTokens, for documents and token sets of any      *)
(* size: deltas leave the client with the array of a full answer, and the  *)
(* two passes of buildStyleEntries give every letter the style of its      *)
(* token, in runs that are in order and joined.                            *)
(*                                                                         *)
(* What a recursive function computes is shown by induction over a set of  *)
(* numbers (Induction): that it has a value at all (Recursion), and then a *)
(* fact about each of its values from the one before it (Decoded, Merged). *)
(***************************************************************************)
EXTENDS SemanticTokens, FiniteSetTheorems, SequenceTheorems, TLAPS
-----------------------------------------------------------------------------
(* Induction over data.  A set of numbers that holds 0 and with each number *)
(* its successor holds them all.                                           *)

Below == {ss \in Nat \X Nat : ss[1] < ss[2]}

LEMMA Least ==
    ASSUME NEW S \in SUBSET Nat, S # {}
    PROVE  \E x \in S : \A y \in S : x <= y
  <1>1. IsWellFoundedOn(Below, Nat)
    BY NatLessThanWellFounded DEF OpToRel, Below
  <1>2. PICK x \in S : \A y \in S : <<y, x>> \notin Below
    BY <1>1, WFMin
  <1>3. ASSUME NEW y \in S PROVE x <= y
    <2>1. x \in Nat /\ y \in Nat /\ ~(y < x)
      BY <1>2 DEF Below
    <2> QED
      BY <2>1
  <1> QED
    BY <1>3

LEMMA Induction ==
    ASSUME NEW S, 0 \in S, \A n \in Nat : n \in S => n + 1 \in S
    PROVE  \A n \in Nat : n \in S
  <1> DEFINE T == {n \in Nat : n \notin S}
  <1>1. SUFFICES ASSUME T # {} PROVE FALSE
    OBVIOUS
  <1>2. PICK x \in T : \A y \in T : x <= y
    BY <1>1, Least
  <1>3. x \in Nat /\ x # 0 /\ x - 1 \in Nat /\ x - 1 \notin T
    BY <1>2
  <1>4. x - 1 \in S /\ (x - 1) + 1 = x
    BY <1>3
  <1> QED
    BY <1>2, <1>3, <1>4

LEMMA MaxIs ==
    ASSUME NEW S \in SUBSET Int, S # {}, NEW b \in Int, \A x \in S : x <= b
    PROVE  Max(S) \in S /\ \A y \in S : y <= Max(S)
  <1> DEFINE T == {n \in Nat : b - n \in S}
  <1>1. T # {}
    <2>1. PICK x \in S : TRUE
      OBVIOUS
    <2>2. b - x \in Nat /\ b - (b - x) = x
      BY <2>1
    <2> QED
      BY <2>1, <2>2
  <1>2. PICK n \in T : \A m \in T : n <= m
    BY <1>1, Least
  <1>3. b - n \in S /\ \A y \in S : b - n >= y
    <2>1. ASSUME NEW y \in S PROVE b - n >= y
      <3>1. b - y \in Nat /\ b - (b - y) = y
        OBVIOUS
      <3>2. b - y \in T
        BY <3>1
      <3> QED
        BY <1>2, <3>2
    <2> QED
      BY <1>2, <2>1
  <1>4. Max(S) \in S /\ \A y \in S : Max(S) >= y
    BY <1>3 DEF Max
  <1> QED
    BY <1>4

LEMMA MinIs ==
    ASSUME NEW S \in SUBSET Nat, S # {}
    PROVE  Min(S) \in S /\ \A y \in S : Min(S) <= y
  BY Least DEF Min

\* A function on the numbers may be defined by recursion: f begins with a and
\* goes on to the value that h makes of a number and the value there.
Begins(f, n, T, a, h) ==
    /\ f \in [0..n -> T] /\ f[0] = a
    /\ \A k \in 0..(n - 1) : f[k + 1] = h[<<k, f[k]>>]

LEMMA Recursion ==
    ASSUME NEW T, NEW a \in T, NEW h \in [Nat \X T -> T], NEW n \in Nat
    PROVE  \E f : Begins(f, n, T, a, h)
  <1> DEFINE S == {m \in Nat : \E f : Begins(f, m, T, a, h)}
  <1>1. 0 \in S
    <2>1. Begins([k \in 0..0 |-> a], 0, T, a, h)
      BY DEF Begins
    <2> QED
      BY <2>1
  <1>2. ASSUME NEW m \in Nat, m \in S PROVE m + 1 \in S
    <2>1. PICK g : Begins(g, m, T, a, h)
      BY <1>2
    <2>2. g \in [0..m -> T] /\ m \in 0..m
      BY <2>1 DEF Begins
    <2>3. h[<<m, g[m]>>] \in T
      BY <2>2
    <2> DEFINE e == [k \in 0..(m + 1) |-> IF k = m + 1 THEN h[<<m, g[m]>>] ELSE g[k]]
    <2>4. e \in [0..(m + 1) -> T]
      <3>1. ASSUME NEW k \in 0..(m + 1), k # m + 1 PROVE g[k] \in T
        <4>1. k \in 0..m
          BY <3>1
        <4> QED
          BY <2>2, <4>1
      <3> QED
        BY <2>3, <3>1
    <2>5. \A k \in 0..m : e[k] = g[k]
      OBVIOUS
    <2>6. e[m + 1] = h[<<m, g[m]>>]
      OBVIOUS
    <2> HIDE DEF e
    <2>7. e[0] = a
      BY <2>1, <2>5 DEF Begins
    <2>8. ASSUME NEW k \in 0..((m + 1) - 1) PROVE e[k + 1] = h[<<k, e[k]>>]
      <3>1. CASE k = m
        BY <2>5, <2>6, <3>1
      <3>2. CASE k # m
        <4>1. k \in 0..(m - 1) /\ k \in 0..m /\ k + 1 \in 0..m
          BY <3>2
        <4>2. g[k + 1] = h[<<k, g[k]>>]
          BY <2>1, <4>1 DEF Begins
        <4> QED
          BY <2>5, <4>1, <4>2
      <3> QED
        BY <3>1, <3>2
    <2>9. Begins(e, m + 1, T, a, h)
      BY <2>4, <2>7, <2>8 DEF Begins
    <2> QED
      BY <2>9
  <1> HIDE DEF S
  <1>3. n \in S
    BY <1>1, <1>2, Induction
  <1> QED
    BY <1>3 DEF S
-----------------------------------------------------------------------------
(* Slices of a list.                                                       *)

LEMMA SliceIs ==
    ASSUME NEW T, NEW s \in Seq(T), NEW a \in 0..Len(s), NEW b \in a..Len(s)
    PROVE  /\ Slice(s, a, b) \in Seq(T) /\ Len(Slice(s, a, b)) = b - a
           /\ \A i \in 1..(b - a) : Slice(s, a, b)[i] = s[a + i]
  <1>1. a + 1 \in Int /\ b \in Int /\ \A i \in (a + 1)..b : s[i] \in T
    BY ElementOfSeq
  <1>2. /\ SubSeq(s, a + 1, b) \in Seq(T)
        /\ Len(SubSeq(s, a + 1, b)) = IF a + 1 <= b THEN b - (a + 1) + 1 ELSE 0
        /\ \A i \in 1..(b - (a + 1) + 1) : SubSeq(s, a + 1, b)[i] = s[(a + 1) + i - 1]
    BY <1>1, SubSeqProperties
  <1>3. b - (a + 1) + 1 = b - a /\ (\A i \in 1..(b - a) : (a + 1) + i - 1 = a + i)
    BY <1>1
  <1> QED
    BY <1>2, <1>3 DEF Slice

LEMMA SliceNone ==
    ASSUME NEW T, NEW s \in Seq(T), NEW a \in 0..Len(s)
    PROVE  Slice(s, a, a) = <<>>
  BY SubSeqEmpty DEF Slice

LEMMA SliceAll ==
    ASSUME NEW T, NEW s \in Seq(T)
    PROVE  Slice(s, 0, Len(s)) = s
  BY SubSeqFull DEF Slice

LEMMA SliceJoin ==
    ASSUME NEW T, NEW s \in Seq(T), NEW a \in 0..Len(s), NEW b \in a..Len(s), NEW c \in b..Len(s)
    PROVE  Slice(s, a, b) \o Slice(s, b, c) = Slice(s, a, c)
  <1>1. a + 1 \in 1..(Len(s) + 1) /\ b \in ((a + 1) - 1)..Len(s) /\ c \in b..Len(s)
    OBVIOUS
  <1> QED
    BY <1>1, ConcatAdjacentSubSeq DEF Slice

LEMMA SliceOfFirst ==
    ASSUME NEW T, NEW u \in Seq(T), NEW v \in Seq(T), NEW a \in 0..Len(u)
    PROVE  Slice(u \o v, 0, a) = Slice(u, 0, a)
  <1>1. u \o v \in Seq(T) /\ Len(u \o v) = Len(u) + Len(v)
        /\ \A i \in 1..Len(u) : (u \o v)[i] = u[i]
    BY ConcatProperties
  <1>2. a \in 0..Len(u \o v) /\ 0 \in 0..Len(u \o v) /\ 0 \in 0..Len(u) /\ a - 0 = a
        /\ a \in Nat /\ \A i \in 1..a : 0 + i = i /\ i \in 1..Len(u)
    BY <1>1
  <1>3. Slice(u \o v, 0, a) \in Seq(T) /\ Len(Slice(u \o v, 0, a)) = a
        /\ \A i \in 1..a : Slice(u \o v, 0, a)[i] = (u \o v)[i]
    <2> HIDE DEF Slice
    <2>1. Slice(u \o v, 0, a) \in Seq(T) /\ Len(Slice(u \o v, 0, a)) = a - 0
          /\ \A i \in 1..(a - 0) : Slice(u \o v, 0, a)[i] = (u \o v)[0 + i]
      BY <1>1, <1>2, SliceIs
    <2> QED
      BY <1>2, <2>1
  <1>4. Slice(u, 0, a) \in Seq(T) /\ Len(Slice(u, 0, a)) = a
        /\ \A i \in 1..a : Slice(u, 0, a)[i] = u[i]
    <2>1. Slice(u, 0, a) \in Seq(T) /\ Len(Slice(u, 0, a)) = a - 0
          /\ \A i \in 1..(a - 0) : Slice(u, 0, a)[i] = u[0 + i]
      BY <1>2, SliceIs
    <2> QED
      BY <1>2, <2>1
  <1> QED
    BY <1>1, <1>2, <1>3, <1>4, SeqEqual

LEMMA SliceOfSecond ==
    ASSUME NEW T, NEW u \in Seq(T), NEW v \in Seq(T)
    PROVE  Slice(u \o v, Len(u), Len(u \o v)) = v
  <1>1. u \o v \in Seq(T) /\ Len(u \o v) = Len(u) + Len(v) /\ Len(u) \in Nat /\ Len(v) \in Nat
        /\ \A i \in 1..Len(v) : (u \o v)[Len(u) + i] = v[i]
    <2>1. /\ u \o v \in Seq(T) /\ Len(u \o v) = Len(u) + Len(v)
          /\ \A i \in 1..(Len(u) + Len(v)) :
                (u \o v)[i] = IF i <= Len(u) THEN u[i] ELSE v[i - Len(u)]
      BY ConcatProperties
    <2>2. ASSUME NEW i \in 1..Len(v) PROVE (u \o v)[Len(u) + i] = v[i]
      <3>1. Len(u) + i \in 1..(Len(u) + Len(v)) /\ ~(Len(u) + i <= Len(u))
            /\ (Len(u) + i) - Len(u) = i
        OBVIOUS
      <3> QED
        BY <2>1, <3>1
    <2> QED
      BY <2>1, <2>2
  <1> DEFINE w == u \o v
  <1>2. w \in Seq(T) /\ Len(u) \in 0..Len(w) /\ Len(w) \in Len(u)..Len(w) /\ Len(w) - Len(u) = Len(v)
    BY <1>1
  <1> HIDE DEF w
  <1>3. Slice(w, Len(u), Len(w)) \in Seq(T) /\ Len(Slice(w, Len(u), Len(w))) = Len(v)
        /\ \A i \in 1..Len(v) : Slice(w, Len(u), Len(w))[i] = w[Len(u) + i]
    BY <1>2, SliceIs
  <1>4. \A i \in 1..Len(v) : Slice(w, Len(u), Len(w))[i] = v[i]
    BY <1>1, <1>3 DEF w
  <1>5. Slice(w, Len(u), Len(w)) = v
    BY <1>3, <1>4, SeqEqual
  <1> QED
    BY <1>5 DEF w

LEMMA LenConcat ==
    ASSUME NEW T, NEW u \in Seq(T), NEW v \in Seq(T)
    PROVE  u \o v \in Seq(T) /\ Len(u \o v) = Len(u) + Len(v) /\ Len(u) \in Nat /\ Len(v) \in Nat
  BY ConcatProperties

\* A list is what is before an index and what is after it.
LEMMA Split ==
    ASSUME NEW T, NEW s \in Seq(T), NEW t \in 0..Len(s)
    PROVE  /\ Slice(s, 0, t) \in Seq(T) /\ Slice(s, t, Len(s)) \in Seq(T)
           /\ Len(Slice(s, 0, t)) = t /\ Len(Slice(s, t, Len(s))) = Len(s) - t
           /\ s = Slice(s, 0, t) \o Slice(s, t, Len(s))
  <1>1. 0 \in 0..Len(s) /\ t \in 0..Len(s) /\ Len(s) \in t..Len(s) /\ t - 0 = t
    OBVIOUS
  <1>2. Slice(s, 0, t) \in Seq(T) /\ Len(Slice(s, 0, t)) = t - 0
    BY <1>1, SliceIs
  <1>3. Slice(s, t, Len(s)) \in Seq(T) /\ Len(Slice(s, t, Len(s))) = Len(s) - t
    BY <1>1, SliceIs
  <1>4. Slice(s, 0, t) \o Slice(s, t, Len(s)) = Slice(s, 0, Len(s))
    BY <1>1, SliceJoin
  <1>5. Slice(s, 0, Len(s)) = s
    BY SliceAll
  <1> QED
    BY <1>1, <1>2, <1>3, <1>4, <1>5

\* A slice that ends in the second of two lists.
LEMMA SliceAcross ==
    ASSUME NEW T, NEW A \in Seq(T), NEW u \in Seq(T), NEW n \in 0..Len(u)
    PROVE  Slice(A \o u, 0, Len(A) + n) = A \o Slice(u, 0, n)
  <1> DEFINE v == Slice(u, 0, n)
             w == Slice(u, n, Len(u))
  <1>1. v \in Seq(T) /\ w \in Seq(T) /\ Len(v) = n /\ u = v \o w
    BY Split
  <1> HIDE DEF v, w
  <1>2. A \o v \in Seq(T) /\ Len(A \o v) = Len(A) + n
    BY <1>1, LenConcat
  <1>3. (A \o v) \o w = A \o (v \o w)
    BY <1>1, ConcatAssociative
  <1> DEFINE x == A \o v
  <1>4. x \in Seq(T) /\ Len(x) = Len(A) + n /\ Len(x) \in 0..Len(x)
    BY <1>2
  <1> HIDE DEF x
  <1>5. Slice(x \o w, 0, Len(x)) = Slice(x, 0, Len(x))
    BY <1>1, <1>4, SliceOfFirst
  <1>6. Slice(x, 0, Len(x)) = x
    BY <1>4, SliceAll
  <1>7. x \o w = A \o u
    BY <1>1, <1>3 DEF x
  <1>8. Slice(A \o u, 0, Len(A) + n) = x
    BY <1>4, <1>5, <1>6, <1>7
  <1> QED
    BY <1>8 DEF x, v
-----------------------------------------------------------------------------
(* Deltas.                                                                 *)

LEMMA MinOfTwo ==
    ASSUME NEW x \in Nat, NEW y \in Nat
    PROVE  Min({x, y}) = IF x <= y THEN x ELSE y
  <1> DEFINE S == {x, y}
  <1>1. S \in SUBSET Nat /\ S # {} /\ x \in S /\ y \in S /\ \A z \in S : z = x \/ z = y
    OBVIOUS
  <1> HIDE DEF S
  <1>2. Min(S) \in S /\ \A z \in S : Min(S) <= z
    BY <1>1, MinIs
  <1>3. (Min(S) = x \/ Min(S) = y) /\ Min(S) <= x /\ Min(S) <= y
    BY <1>1, <1>2
  <1>4. Min(S) = IF x <= y THEN x ELSE y
    BY <1>3
  <1> QED
    BY <1>4 DEF S

LEMMA CommonPrefixIs ==
    ASSUME NEW T, NEW u \in Seq(T), NEW v \in Seq(T)
    PROVE  /\ CommonPrefix(u, v) \in 0..Len(u) /\ CommonPrefix(u, v) \in 0..Len(v)
           /\ Slice(u, 0, CommonPrefix(u, v)) = Slice(v, 0, CommonPrefix(u, v))
  <1> DEFINE m == Min({Len(u), Len(v)})
             S == {n \in 0..m : Slice(u, 0, n) = Slice(v, 0, n)}
  <1>1. Len(u) \in Nat /\ Len(v) \in Nat
    OBVIOUS
  <1>2. m \in Nat /\ m <= Len(u) /\ m <= Len(v)
    BY <1>1, MinOfTwo
  <1>3. CommonPrefix(u, v) = Max(S)
    BY DEF CommonPrefix
  <1> HIDE DEF m
  <1>4. S \in SUBSET Int /\ \A n \in S : n <= m /\ n \in 0..m /\ Slice(u, 0, n) = Slice(v, 0, n)
    BY <1>2
  <1>5. 0 \in S
    <2>1. 0 \in 0..Len(u) /\ 0 \in 0..Len(v) /\ 0 \in 0..m
      BY <1>1, <1>2
    <2>2. Slice(u, 0, 0) = <<>> /\ Slice(v, 0, 0) = <<>>
      BY <2>1, SliceNone
    <2> QED
      BY <2>1, <2>2
  <1> HIDE DEF S
  <1>6. Max(S) \in S
    <2>1. S \in SUBSET Int /\ S # {} /\ m \in Int /\ \A x \in S : x <= m
      BY <1>2, <1>4, <1>5
    <2> QED
      BY <2>1, MaxIs
  <1>7. PICK n : n = CommonPrefix(u, v)
    OBVIOUS
  <1>8. n \in 0..m /\ Slice(u, 0, n) = Slice(v, 0, n)
    BY <1>3, <1>4, <1>6, <1>7
  <1>9. n \in 0..Len(u) /\ n \in 0..Len(v)
    BY <1>1, <1>2, <1>8
  <1> QED
    BY <1>7, <1>8, <1>9

LEMMA SpliceIs ==
    ASSUME NEW T, NEW a \in Seq(T), NEW x \in 0..Len(a), NEW y \in x..Len(a), NEW e,
           e.start = x, e.delete = y - x
    PROVE  Splice(a, e) = Slice(a, 0, x) \o e.data \o Slice(a, y, Len(a))
  <1>1. Len(a) \in Nat /\ x \in Nat /\ y \in Nat /\ x <= Len(a) /\ y <= Len(a) /\ e.start + e.delete = y
    OBVIOUS
  <1>2. Min({e.start, Len(a)}) = x /\ Min({e.start + e.delete, Len(a)}) = y
    BY <1>1, MinOfTwo
  <1> QED
    BY <1>2 DEF Splice

\* The concatenation as an operator of its own keeps the provers from taking
\* it apart.
Cat(a, b) == a \o b

LEMMA Assoc ==
    ASSUME NEW T, NEW a \in Seq(T), NEW b \in Seq(T), NEW c \in Seq(T)
    PROVE  Cat(Cat(a, b), c) = Cat(a, Cat(b, c))
  BY DEF Cat

\* An edit in the middle of a list puts the new part where the old one was.
LEMMA PartReplaced ==
    ASSUME NEW T, NEW A \in Seq(T), NEW u \in Seq(T), NEW v \in Seq(T), NEW B \in Seq(T)
    PROVE  Splice(Cat(Cat(A, u), B), EditOf(u, v, Len(A))) = Cat(Cat(A, v), B)
  <1> DEFINE n == CommonPrefix(u, v)
             e == EditOf(u, v, Len(A))
             s == (A \o u) \o B
  <1>1. n \in 0..Len(u) /\ n \in 0..Len(v) /\ Slice(u, 0, n) = Slice(v, 0, n)
    BY CommonPrefixIs
  <1>2. e.start = Len(A) + n /\ e.delete = Len(u) - n /\ e.data = Slice(v, n, Len(v))
    BY DEF EditOf
  <1> HIDE DEF n, e
  <1>3. A \o u \in Seq(T) /\ Len(A \o u) = Len(A) + Len(u) /\ Len(A) \in Nat /\ Len(u) \in Nat
    BY LenConcat
  <1>4. s \in Seq(T) /\ Len(s) = (Len(A) + Len(u)) + Len(B) /\ Len(B) \in Nat
    BY <1>3, LenConcat
  <1>5. Slice(s, 0, Len(A) + n) = A \o Slice(u, 0, n)
    <2>1. Len(A) + n \in 0..Len(A \o u)
      BY <1>1, <1>3
    <2>2. Slice((A \o u) \o B, 0, Len(A) + n) = Slice(A \o u, 0, Len(A) + n)
      BY <1>3, <2>1, SliceOfFirst
    <2> QED
      BY <1>1, <2>2, SliceAcross
  <1>6. Slice(s, Len(A) + Len(u), Len(s)) = B
    <2>1. Slice((A \o u) \o B, Len(A \o u), Len((A \o u) \o B)) = B
      BY <1>3, SliceOfSecond
    <2> QED
      BY <1>3, <2>1
  <1> HIDE DEF s
  <1>7. Splice(s, e) = Slice(s, 0, Len(A) + n) \o e.data \o Slice(s, Len(A) + Len(u), Len(s))
    <2>1. Len(A) + n \in 0..Len(s) /\ Len(A) + Len(u) \in (Len(A) + n)..Len(s)
          /\ e.delete = (Len(A) + Len(u)) - (Len(A) + n)
      BY <1>1, <1>2, <1>3, <1>4
    <2> QED
      BY <1>2, <1>4, <2>1, SpliceIs
  <1>8. (A \o Slice(v, 0, n)) \o Slice(v, n, Len(v)) = A \o v
    <2>1. Slice(v, 0, n) \in Seq(T) /\ Slice(v, n, Len(v)) \in Seq(T)
          /\ v = Slice(v, 0, n) \o Slice(v, n, Len(v))
      BY <1>1, Split
    <2>2. Cat(Cat(A, Slice(v, 0, n)), Slice(v, n, Len(v))) = Cat(A, Cat(Slice(v, 0, n), Slice(v, n, Len(v))))
      BY <2>1, Assoc
    <2>3. Cat(Slice(v, 0, n), Slice(v, n, Len(v))) = v
      BY <2>1 DEF Cat
    <2>4. Cat(Cat(A, Slice(v, 0, n)), Slice(v, n, Len(v))) = Cat(A, v)
      BY <2>2, <2>3
    <2> QED
      BY <2>4 DEF Cat
  <1>9. Splice(s, e) = (A \o v) \o B
    BY <1>1, <1>2, <1>5, <1>6, <1>7, <1>8
  <1> QED
    BY <1>9 DEF s, e, Cat

\* Two edits, the last first.
LEMMA TwoEdits ==
    ASSUME NEW prev, NEW d, NEW e
    PROVE  ApplyTokenEdits(prev, <<d, e>>) = Splice(Splice(prev, e), d)
  <1> DEFINE es == <<d, e>>
             out == CHOOSE out : out = [i \in 0..Len(es) |->
                        IF i = 0 THEN prev ELSE Splice(out[i - 1], es[Len(es) + 1 - i])]
             f == [i \in 0..2 |-> IF i = 0 THEN prev
                                  ELSE IF i = 1 THEN Splice(prev, e) ELSE Splice(Splice(prev, e), d)]
  <1>1. Len(es) = 2 /\ es[1] = d /\ es[2] = e
    OBVIOUS
  <1>2. f = [i \in 0..Len(es) |-> IF i = 0 THEN prev ELSE Splice(f[i - 1], es[Len(es) + 1 - i])]
    <2>1. f[0] = prev /\ f[1] = Splice(prev, e) /\ f[2] = Splice(Splice(prev, e), d)
      OBVIOUS
    <2> HIDE DEF es
    <2>2. ASSUME NEW i \in 0..2 PROVE f[i] = IF i = 0 THEN prev ELSE Splice(f[i - 1], es[Len(es) + 1 - i])
      <3>1. CASE i = 0
        BY <2>1, <3>1
      <3>2. CASE i = 1
        <4>1. i - 1 = 0 /\ Len(es) + 1 - i = 2 /\ i # 0
          BY <1>1, <3>2
        <4> HIDE DEF f
        <4> QED
          BY <1>1, <2>1, <3>2, <4>1
      <3>3. CASE i = 2
        <4>1. i - 1 = 1 /\ Len(es) + 1 - i = 1 /\ i # 0
          BY <1>1, <3>3
        <4> HIDE DEF f
        <4> QED
          BY <1>1, <2>1, <3>3, <4>1
      <3> QED
        BY <3>1, <3>2, <3>3
    <2> DEFINE g == [i \in 0..Len(es) |-> IF i = 0 THEN prev ELSE Splice(f[i - 1], es[Len(es) + 1 - i])]
    <2>3. \A i \in 0..2 : f[i] = g[i]
      <3> HIDE DEF f
      <3> QED
        BY <1>1, <2>2
    <2>4. DOMAIN f = 0..2 /\ DOMAIN g = 0..2
      BY <1>1
    <2>5. f = [i \in DOMAIN f |-> f[i]] /\ g = [i \in DOMAIN g |-> g[i]]
      OBVIOUS
    <2> HIDE DEF f, g
    <2>6. f = g
      BY <2>3, <2>4, <2>5
    <2> QED
      BY <2>6 DEF g
  <1>3. out = [i \in 0..Len(es) |-> IF i = 0 THEN prev ELSE Splice(out[i - 1], es[Len(es) + 1 - i])]
    <2> HIDE DEF f, es
    <2> QED
      BY <1>2
  <1>4. ApplyTokenEdits(prev, es) = out[Len(es)]
    BY DEF ApplyTokenEdits
  <1> HIDE DEF out, es
  <1>5. 0 \in 0..Len(es) /\ 1 \in 0..Len(es) /\ 2 \in 0..Len(es) /\ 1 - 1 = 0 /\ 2 - 1 = 1
        /\ Len(es) + 1 - 1 = 2 /\ Len(es) + 1 - 2 = 1
    BY <1>1
  <1>6. \A i \in 0..Len(es) : out[i] = IF i = 0 THEN prev ELSE Splice(out[i - 1], es[Len(es) + 1 - i])
    BY <1>3
  <1>7. out[0] = prev
    BY <1>5, <1>6
  <1>8. out[1] = Splice(prev, e)
    BY <1>1, <1>5, <1>6, <1>7
  <1>9. out[2] = Splice(Splice(prev, e), d)
    BY <1>1, <1>5, <1>6, <1>8
  <1> QED
    BY <1>1, <1>4, <1>9 DEF es

\* Every delta that the server may send makes of the old array the new one.
LEMMA DeltaApplied ==
    ASSUME NEW T, NEW a \in Seq(T), NEW b \in Seq(T), NEW es \in EditsBetween(a, b)
    PROVE  ApplyTokenEdits(a, es) = b
  <1>0. PICK i \in 0..Len(a) : \E j \in {Min({i, Len(b)}), Len(b)} :
            es = <<EditOf(Slice(a, 0, i), Slice(b, 0, j), 0),
                   EditOf(Slice(a, i, Len(a)), Slice(b, j, Len(b)), i)>>
    BY DEF EditsBetween
  <1>1. PICK j \in {Min({i, Len(b)}), Len(b)} :
            es = <<EditOf(Slice(a, 0, i), Slice(b, 0, j), 0),
                   EditOf(Slice(a, i, Len(a)), Slice(b, j, Len(b)), i)>>
    BY <1>0
  <1>2. j \in 0..Len(b)
    <2>1. i \in Nat /\ Len(b) \in Nat
      OBVIOUS
    <2>2. Min({i, Len(b)}) \in 0..Len(b)
      BY <2>1, MinOfTwo
    <2> QED
      BY <2>1, <2>2
  <1> DEFINE u == Slice(a, 0, i)
             v == Slice(a, i, Len(a))
             w == Slice(b, 0, j)
             x == Slice(b, j, Len(b))
  <1>3. u \in Seq(T) /\ v \in Seq(T) /\ Len(u) = i /\ a = u \o v
    BY Split
  <1>4. w \in Seq(T) /\ x \in Seq(T) /\ b = w \o x
    BY <1>2, Split
  <1>5. es = <<EditOf(u, w, 0), EditOf(v, x, i)>>
    BY <1>1
  <1>6. PICK nil \in Seq(T) : nil = <<>> /\ Len(nil) = 0
    BY EmptySeq
  <1>12. u \in Seq(T) /\ v \in Seq(T) /\ w \in Seq(T) /\ x \in Seq(T)
    BY <1>3, <1>4
  <1> HIDE DEF u, v, w, x
  <1>7. u \o v \in Seq(T) /\ u \o x \in Seq(T)
    BY <1>3, <1>4, LenConcat
  <1>8. Splice(u \o v, EditOf(v, x, i)) = u \o x
    <2>0. Splice(Cat(Cat(u, v), nil), EditOf(v, x, Len(u))) = Cat(Cat(u, x), nil)
      BY <1>12, PartReplaced
    <2>1. Splice((u \o v) \o nil, EditOf(v, x, Len(u))) = (u \o x) \o nil
      BY <2>0 DEF Cat
    <2>2. (u \o v) \o nil = u \o v /\ (u \o x) \o nil = u \o x
      BY <1>6, <1>7, ConcatEmptySeq
    <2> QED
      BY <1>3, <2>1, <2>2
  <1>9. Splice(u \o x, EditOf(u, w, 0)) = w \o x
    <2>0. Splice(Cat(Cat(nil, u), x), EditOf(u, w, Len(nil))) = Cat(Cat(nil, w), x)
      BY <1>12, PartReplaced
    <2>1. Splice((nil \o u) \o x, EditOf(u, w, Len(nil))) = (nil \o w) \o x
      BY <2>0 DEF Cat
    <2>2. nil \o u = u /\ nil \o w = w
      BY <1>6, <1>12, ConcatEmptySeq
    <2> QED
      BY <1>6, <2>1, <2>2
  <1>10. ApplyTokenEdits(a, es) = Splice(Splice(a, EditOf(v, x, i)), EditOf(u, w, 0))
    BY <1>5, TwoEdits
  <1>11. Splice(a, EditOf(v, x, i)) = u \o x
    BY <1>3, <1>8
  <1> QED
    BY <1>4, <1>9, <1>10, <1>11
-----------------------------------------------------------------------------
(* The tokens of a document, in their order.                               *)

\* What the server has: every token is in one line of the document, and no
\* two overlap.
Laid(s, ts) ==
    /\ IsFiniteSet(ts)
    /\ \A t \in ts : /\ t \in [start : Nat, length : 1..2, type : Types]
                     /\ t.start + t.length <= Len(s)
                     /\ \A i \in (t.start + 1)..(t.start + t.length) : s[i] # "n"
    /\ \A t, u \in ts : t = u \/ t.start + t.length <= u.start \/ u.start + u.length <= t.start

InStarts(f, n) == \A i, j \in 1..n : i < j => f[i].start < f[j].start

LEMMA OrderExists ==
    ASSUME NEW s, Len(s) \in Nat, NEW ts, Laid(s, ts)
    PROVE  \E f \in [1..Cardinality(ts) -> ts] : InStarts(f, Cardinality(ts))
  <1> DEFINE G == {n \in Nat : \A T : Laid(s, T) /\ Cardinality(T) = n =>
                      \E f \in [1..n -> T] : InStarts(f, n)}
  <1>1. 0 \in G
    <2> SUFFICES ASSUME NEW T, Laid(s, T), Cardinality(T) = 0
                 PROVE  \E f \in [1..0 -> T] : InStarts(f, 0)
      OBVIOUS
    <2>1. \A i \in 1..0 : FALSE
      OBVIOUS
    <2>2. [i \in 1..0 |-> 0] \in [1..0 -> T]
      BY <2>1
    <2>3. InStarts([i \in 1..0 |-> 0], 0)
      BY <2>1 DEF InStarts
    <2> QED
      BY <2>2, <2>3
  <1>2. ASSUME NEW n \in Nat, n \in G PROVE n + 1 \in G
    <2> SUFFICES ASSUME NEW T, Laid(s, T), Cardinality(T) = n + 1
                 PROVE  \E f \in [1..(n + 1) -> T] : InStarts(f, n + 1)
      OBVIOUS
    <2> DEFINE S == {t.start : t \in T}
    <2>1. IsFiniteSet(T) /\ \A t \in T : t.start \in Nat /\ t.length \in 1..2 /\ t.start <= Len(s)
      <3>1. IsFiniteSet(T)
        BY DEF Laid
      <3>2. ASSUME NEW t \in T PROVE t.start \in Nat /\ t.length \in 1..2 /\ t.start <= Len(s)
        <4>1. t.start \in Nat /\ t.length \in 1..2 /\ t.start + t.length <= Len(s)
          BY DEF Laid
        <4> QED
          BY <4>1
      <3> QED
        BY <3>1, <3>2
    <2>2. T # {}
      <3>1. n + 1 # 0
        OBVIOUS
      <3> QED
        BY <3>1, FS_EmptySet
    <2>3. S \in SUBSET Int /\ S # {} /\ Len(s) \in Int /\ \A x \in S : x <= Len(s)
      BY <2>1, <2>2
    <2>4. Max(S) \in S /\ \A y \in S : y <= Max(S)
      <3> HIDE DEF S
      <3> QED
        BY <2>3, MaxIs
    <2>5. PICK t \in T : \A u \in T : u.start <= t.start
      BY <2>4
    <2>6. ASSUME NEW u \in T, u # t PROVE u.start < t.start
      <3>1. u.start <= t.start /\ u.start \in Nat /\ t.start \in Nat /\ u.length \in 1..2 /\ t.length \in 1..2
        BY <2>1, <2>5
      <3>2. u.start + u.length <= t.start \/ t.start + t.length <= u.start
        BY <2>6 DEF Laid
      <3> QED
        BY <3>1, <3>2
    <2> DEFINE V == T \ {t}
    <2>7. Cardinality(V) = n
      <3>1. Cardinality(V) = Cardinality(T) - 1
        BY <2>1, FS_RemoveElement
      <3> QED
        BY <3>1
    <2>8. Laid(s, V)
      <3>1. IsFiniteSet(V)
        BY <2>1, FS_RemoveElement
      <3>2. \A u \in V : u \in T
        OBVIOUS
      <3> HIDE DEF V
      <3> QED
        BY <3>1, <3>2 DEF Laid
    <2>9. PICK g \in [1..n -> V] : InStarts(g, n)
      <3> HIDE DEF V
      <3> QED
        BY <1>2, <2>7, <2>8
    <2> DEFINE f == [i \in 1..(n + 1) |-> IF i = n + 1 THEN t ELSE g[i]]
    <2>10. f[n + 1] = t
      OBVIOUS
    <2>11. ASSUME NEW i \in 1..n PROVE f[i] = g[i] /\ g[i] \in T /\ g[i] # t
      <3>1. i \in 1..(n + 1) /\ i # n + 1
        OBVIOUS
      <3>2. g[i] \in V
        OBVIOUS
      <3> QED
        BY <3>1, <3>2
    <2>12. f \in [1..(n + 1) -> T]
      <3>1. ASSUME NEW i \in 1..(n + 1), i # n + 1 PROVE g[i] \in T
        <4>1. i \in 1..n
          BY <3>1
        <4> QED
          BY <2>11, <4>1
      <3> QED
        BY <3>1
    <2> HIDE DEF f, V
    <2>13. ASSUME NEW i \in 1..(n + 1), NEW j \in 1..(n + 1), i < j PROVE f[i].start < f[j].start
      <3>1. i \in 1..n
        BY <2>13
      <3>2. CASE j = n + 1
        BY <2>6, <2>10, <2>11, <3>1, <3>2
      <3>3. CASE j # n + 1
        <4>1. j \in 1..n
          BY <3>3
        <4> QED
          BY <2>9, <2>11, <2>13, <3>1, <4>1 DEF InStarts
      <3> QED
        BY <3>2, <3>3
    <2>14. InStarts(f, n + 1)
      BY <2>13 DEF InStarts
    <2> QED
      BY <2>12, <2>14
  <1> HIDE DEF G
  <1>3. Cardinality(ts) \in Nat
    BY FS_CardinalityType DEF Laid
  <1>4. Cardinality(ts) \in G
    BY <1>1, <1>2, <1>3, Induction
  <1> QED
    BY <1>4 DEF G

\* The server's list has every token once, in the order of the starts, and
\* each ends before the next one begins.
LEMMA OrderIs ==
    ASSUME NEW s, Len(s) \in Nat, NEW ts, Laid(s, ts)
    PROVE  /\ Cardinality(ts) \in Nat /\ InOrder(ts) \in [1..Cardinality(ts) -> ts]
           /\ \A t \in ts : \E i \in 1..Cardinality(ts) : InOrder(ts)[i] = t
           /\ \A i, j \in 1..Cardinality(ts) : i < j =>
                InOrder(ts)[i].start + InOrder(ts)[i].length <= InOrder(ts)[j].start
  <1> DEFINE n == Cardinality(ts)
             f == InOrder(ts)
  <1>1. n \in Nat /\ IsFiniteSet(ts)
    BY FS_CardinalityType DEF Laid
  <1>2. f \in [1..n -> ts] /\ \A i, j \in 1..n : i < j => f[i].start < f[j].start
    <2>1. PICK g \in [1..n -> ts] : InStarts(g, n)
      BY OrderExists
    <2>2. \A i, j \in DOMAIN g : i < j => g[i].start < g[j].start
      BY <2>1 DEF InStarts
    <2>3. f \in [1..n -> ts] /\ \A i, j \in DOMAIN f : i < j => f[i].start < f[j].start
      BY <2>1, <2>2 DEF InOrder
    <2> QED
      BY <2>3
  <1> HIDE DEF f
  <1>3. \A t \in ts : t.start \in Nat /\ t.length \in 1..2
    BY DEF Laid
  <1>4. f \in Injection(1..n, ts)
    <2>1. ASSUME NEW i \in 1..n, NEW j \in 1..n, f[i] = f[j] PROVE i = j
      <3>1. f[i].start \in Nat /\ f[j].start = f[i].start
        BY <1>2, <1>3, <2>1
      <3>2. ~(i < j) /\ ~(j < i)
        BY <1>2, <3>1
      <3> QED
        BY <1>1, <3>2
    <2> QED
      BY <1>2, <2>1 DEF Injection, IsInjective
  <1>5. f \in Surjection(1..n, ts)
    <2>1. Cardinality(1..n) = n
      BY <1>1, FS_Interval
    <2> QED
      BY <1>1, <1>4, <2>1, FS_Injection
  <1>6. \A t \in ts : \E i \in 1..n : f[i] = t
    BY <1>5 DEF Surjection
  <1>7. ASSUME NEW i \in 1..n, NEW j \in 1..n, i < j PROVE f[i].start + f[i].length <= f[j].start
    <2>1. f[i] \in ts /\ f[j] \in ts /\ f[i].start < f[j].start
      BY <1>2, <1>7
    <2>2. f[i].start \in Nat /\ f[j].start \in Nat /\ f[i].length \in 1..2 /\ f[j].length \in 1..2
      BY <1>3, <2>1
    <2>3. f[i] # f[j]
      BY <2>1, <2>2
    <2>4. f[i].start + f[i].length <= f[j].start \/ f[j].start + f[j].length <= f[i].start
      BY <2>1, <2>3 DEF Laid
    <2> QED
      BY <2>1, <2>2, <2>4
  <1> QED
    BY <1>1, <1>2, <1>6, <1>7 DEF f
-----------------------------------------------------------------------------
(* Positions.                                                              *)

\* The line starts before the offset o.
StartsBefore(s, o) == {p \in LineStarts(s) : p < o}

LEMMA LineStartsAre ==
    ASSUME NEW s, Len(s) \in Nat
    PROVE  /\ LineStarts(s) \in SUBSET (0..Len(s)) /\ IsFiniteSet(LineStarts(s))
           /\ Cardinality(LineStarts(s)) \in Nat
  <1>1. LineStarts(s) \in SUBSET (0..Len(s))
    BY DEF LineStarts
  <1>2. IsFiniteSet(0..Len(s))
    BY FS_Interval
  <1>3. IsFiniteSet(LineStarts(s))
    BY <1>1, <1>2, FS_Subset
  <1> QED
    BY <1>1, <1>3, FS_CardinalityType

\* As many lines start before one line start as before another only if they
\* are the same.
LEMMA OneLineStart ==
    ASSUME NEW s, Len(s) \in Nat, NEW o \in LineStarts(s), NEW p \in LineStarts(s),
           Cardinality(StartsBefore(s, o)) = Cardinality(StartsBefore(s, p)), o < p
    PROVE  FALSE
  <1>1. LineStarts(s) \in SUBSET Int /\ IsFiniteSet(LineStarts(s))
    BY LineStartsAre
  <1>2. o \in Int /\ p \in Int
    BY <1>1
  <1>3. IsFiniteSet(StartsBefore(s, p))
    BY <1>1, FS_Subset DEF StartsBefore
  <1>4. StartsBefore(s, o) \in SUBSET StartsBefore(s, p)
    <2>1. ASSUME NEW x \in StartsBefore(s, o) PROVE x \in StartsBefore(s, p)
      <3>1. x \in LineStarts(s) /\ x < o
        BY <2>1 DEF StartsBefore
      <3>2. x \in Int /\ x < p
        BY <1>1, <1>2, <3>1
      <3> QED
        BY <3>1, <3>2 DEF StartsBefore
    <2> QED
      BY <2>1
  <1>5. StartsBefore(s, o) = StartsBefore(s, p)
    BY <1>3, <1>4, FS_Subset
  <1>6. o \in StartsBefore(s, p) /\ o \notin StartsBefore(s, o)
    BY <1>2 DEF StartsBefore
  <1> QED
    BY <1>5, <1>6

\* The line and column that the server means by an offset lead acme-lsp back
\* to it (style.go:73-82).
LEMMA BackToOffset ==
    ASSUME NEW s, Len(s) \in Nat, NEW q \in 0..Len(s)
    PROVE  /\ Newlines(s, q) \in Nat /\ Column(s, q) \in Nat
           /\ ToRuneOffset(s, Newlines(s, q), Column(s, q)) = q
  <1> DEFINE N == {i \in 1..q : s[i] = "n"}
             M == {0} \cup N
             o == Max(M)
             B == StartsBefore(s, o)
             L == LineStarts(s)
  <1>1. IsFiniteSet(N) /\ Cardinality(N) \in Nat /\ 0 \notin N
    <2>1. N \in SUBSET (1..q) /\ IsFiniteSet(1..q) /\ 0 \notin N
      BY FS_Interval
    <2> QED
      BY <2>1, FS_Subset, FS_CardinalityType
  <1>2. Newlines(s, q) = Cardinality(N) /\ Column(s, q) = q - o
    BY DEF Newlines, Column
  <1>3. M \in SUBSET Int /\ M # {} /\ q \in Int /\ (\A x \in M : x <= q /\ x >= 0) /\ M \in SUBSET L
    BY DEF LineStarts
  <1>4. \A x \in L : x \in Int /\ x >= 0 /\ (x <= q => x \in M)
    BY DEF LineStarts
  <1>5. IsFiniteSet(M) /\ Cardinality(M) = Cardinality(N) + 1
    BY <1>1, FS_AddElement
  <1>6. IsFiniteSet(L) /\ Cardinality(L) \in Nat
    BY LineStartsAre
  <1> HIDE DEF N, M, L
  <1>7. o \in M /\ \A y \in M : y <= o
    BY <1>3, MaxIs
  <1>8. o \in Int /\ o >= 0 /\ o <= q /\ o \in L
    BY <1>3, <1>7
  <1> HIDE DEF o
  <1>9. B = M \ {o}
    <2>1. ASSUME NEW x \in B PROVE x \in M /\ x # o
      <3>1. x \in L /\ x < o
        BY DEF StartsBefore, L
      <3>2. x \in Int /\ x <= q /\ x # o
        BY <1>4, <1>8, <3>1
      <3> QED
        BY <1>4, <3>1, <3>2
    <2>2. ASSUME NEW x \in M, x # o PROVE x \in B
      <3>1. x \in Int /\ x <= o /\ x \in L
        BY <1>3, <1>7
      <3>2. x < o
        BY <1>8, <2>2, <3>1
      <3> QED
        BY <3>1, <3>2 DEF StartsBefore, L
    <2> HIDE DEF B
    <2> QED
      BY <2>1, <2>2
  <1>10. Cardinality(B) = Cardinality(N)
    <2>1. Cardinality(M \ {o}) = Cardinality(M) - 1
      BY <1>5, <1>7, FS_RemoveElement
    <2> QED
      BY <1>1, <1>5, <1>9, <2>1
  <1>11. Cardinality(N) < Cardinality(L)
    <2>1. B \in SUBSET L /\ o \notin B
      BY <1>8 DEF StartsBefore, L
    <2> HIDE DEF B
    <2>2. Cardinality(B) <= Cardinality(L) /\ (Cardinality(L) = Cardinality(B) => L = B)
      BY <1>6, <2>1, FS_Subset
    <2>3. L # B
      BY <1>8, <2>1
    <2> QED
      BY <1>1, <1>6, <1>10, <2>2, <2>3
  <1>12. LineStart(s, Newlines(s, q)) = o
    <2> DEFINE c == LineStart(s, Newlines(s, q))
    <2>1. o \in LineStarts(s) /\ Cardinality({p \in LineStarts(s) : p < o}) = Newlines(s, q)
      BY <1>2, <1>8, <1>10 DEF StartsBefore, L
    <2>2. c \in LineStarts(s) /\ Cardinality({p \in LineStarts(s) : p < c}) = Newlines(s, q)
      BY <2>1 DEF LineStart
    <2> HIDE DEF c
    <2>3. Cardinality(StartsBefore(s, o)) = Cardinality(StartsBefore(s, c))
      BY <2>1, <2>2 DEF StartsBefore
    <2>4. ~(o < c) /\ ~(c < o)
      BY <2>1, <2>2, <2>3, OneLineStart
    <2>5. c \in Int
      BY <1>4, <2>2 DEF L
    <2>6. c = o
      BY <1>8, <2>4, <2>5
    <2> QED
      BY <2>6 DEF c
  <1>13. Column(s, q) \in Nat /\ o + Column(s, q) = q
    BY <1>2, <1>8
  <1>14. Min({q, Len(s)}) = q
    BY MinOfTwo
  <1>15. ToRuneOffset(s, Newlines(s, q), Column(s, q)) = q
    <2>1. ~(Newlines(s, q) >= Cardinality(LineStarts(s)))
      BY <1>1, <1>2, <1>6, <1>11 DEF L
    <2>2. Min({LineStart(s, Newlines(s, q)) + Column(s, q), Len(s)}) = q
      BY <1>12, <1>13, <1>14
    <2> QED
      BY <2>1, <2>2 DEF ToRuneOffset
  <1> QED
    BY <1>1, <1>2, <1>13, <1>15

LEMMA AtZero ==
    ASSUME NEW s
    PROVE  Newlines(s, 0) = 0 /\ Column(s, 0) = 0
  <1>1. {i \in 1..0 : s[i] = "n"} = {}
    OBVIOUS
  <1>2. Max({0} \cup {}) = 0
    <2> DEFINE S == {0} \cup {}
    <2>1. S \in SUBSET Int /\ S # {} /\ 0 \in Int /\ (\A x \in S : x <= 0 /\ x = 0)
      OBVIOUS
    <2> HIDE DEF S
    <2>2. Max(S) \in S
      BY <2>1, MaxIs
    <2>3. Max(S) = 0
      BY <2>1, <2>2
    <2> QED
      BY <2>3 DEF S
  <1>3. Newlines(s, 0) = 0
    BY <1>1, FS_EmptySet DEF Newlines
  <1> QED
    BY <1>1, <1>2, <1>3 DEF Column
-----------------------------------------------------------------------------
(* The array of a document's tokens.                                       *)

LEMMA IndexIs ==
    /\ \A n \in Nat : \A k \in 1..(5 * n) : (k - 1) \div 5 + 1 \in 1..n /\ ((k - 1) % 5) + 1 \in 1..5
    /\ \A n \in Nat : \A i \in 1..n, j \in 1..5 :
          /\ (5 * i - 5) + j \in 1..(5 * n)
          /\ (((5 * i - 5) + j) - 1) \div 5 + 1 = i
          /\ ((((5 * i - 5) + j) - 1) % 5) + 1 = j
  <1>1. \A n \in Nat : \A k \in 1..(5 * n) : (k - 1) \div 5 + 1 \in 1..n
    OBVIOUS
  <1>2. \A n \in Nat : \A k \in 1..(5 * n) : ((k - 1) % 5) + 1 \in 1..5
    OBVIOUS
  <1>3. \A n \in Nat : \A i \in 1..n, j \in 1..5 : (5 * i - 5) + j \in 1..(5 * n)
    OBVIOUS
  <1>4. \A n \in Nat : \A i \in 1..n, j \in 1..5 : (((5 * i - 5) + j) - 1) \div 5 + 1 = i
    OBVIOUS
  <1>5. \A n \in Nat : \A i \in 1..n, j \in 1..5 : ((((5 * i - 5) + j) - 1) % 5) + 1 = j
    OBVIOUS
  <1>6. \A n \in Nat : (5 * n) \div 5 = n
    OBVIOUS
  <1> QED
    BY <1>1, <1>2, <1>3, <1>4, <1>5

From(f, i) == IF i = 1 THEN 0 ELSE f[i - 1].start
Down(s, f, i) == Newlines(s, f[i].start) - Newlines(s, From(f, i))
Across(s, f, i) == Column(s, f[i].start) - IF Down(s, f, i) = 0 THEN Column(s, From(f, i)) ELSE 0
Tuple(s, f, i) == <<Down(s, f, i), Across(s, f, i), f[i].length, f[i].type, 0>>

\* Where a token starts is an offset of the document.
LEMMA TokenIs ==
    ASSUME NEW s, Len(s) \in Nat, NEW ts, Laid(s, ts), NEW i \in 1..Cardinality(ts)
    PROVE  LET t == InOrder(ts)[i] IN
           /\ t \in ts /\ t.start \in 0..Len(s) /\ t.length \in 1..2 /\ t.type \in Nat
           /\ t.start + t.length <= Len(s)
  <1> DEFINE t == InOrder(ts)[i]
  <1>1. t \in ts
    BY OrderIs
  <1> HIDE DEF t
  <1>2. t \in [start : Nat, length : 1..2, type : Types] /\ t.start + t.length <= Len(s)
    BY <1>1 DEF Laid
  <1>3. t.start \in 0..Len(s) /\ t.length \in 1..2 /\ t.type \in Types
    BY <1>2
  <1>4. t.type \in Nat
    BY <1>3 DEF Types
  <1> QED
    BY <1>1, <1>2, <1>3, <1>4 DEF t

LEMMA TupleIs ==
    ASSUME NEW s, Len(s) \in Nat, NEW ts, Laid(s, ts), NEW i \in 1..Cardinality(ts)
    PROVE  LET f == InOrder(ts) IN
           /\ From(f, i) \in 0..Len(s)
           /\ Down(s, f, i) \in Int /\ Across(s, f, i) \in Int
           /\ \A j \in 1..5 : Tuple(s, f, i)[j] \in Int
           /\ Tuple(s, f, i)[1] = Down(s, f, i) /\ Tuple(s, f, i)[2] = Across(s, f, i)
           /\ Tuple(s, f, i)[3] = f[i].length /\ Tuple(s, f, i)[4] = f[i].type
  <1> DEFINE f == InOrder(ts)
  <1>1. f[i].start \in 0..Len(s) /\ f[i].length \in 1..2 /\ f[i].type \in Nat
    BY TokenIs
  <1>2. From(f, i) \in 0..Len(s)
    <2>1. CASE i = 1
      BY <2>1 DEF From
    <2>2. CASE i # 1
      <3>1. Cardinality(ts) \in Nat
        BY OrderIs
      <3>2. i - 1 \in 1..Cardinality(ts)
        BY <2>2, <3>1
      <3>3. f[i - 1].start \in 0..Len(s)
        BY <3>2, TokenIs
      <3> HIDE DEF f
      <3> QED
        BY <2>2, <3>3 DEF From
    <2> QED
      BY <2>1, <2>2
  <1> HIDE DEF f
  <1>3. \A q \in 0..Len(s) : Newlines(s, q) \in Nat /\ Column(s, q) \in Nat
    BY BackToOffset
  <1>4. Down(s, f, i) \in Int
    BY <1>1, <1>2, <1>3 DEF Down
  <1>5. Across(s, f, i) \in Int
    <2>1. Column(s, f[i].start) \in Nat /\ Column(s, From(f, i)) \in Nat
      BY <1>1, <1>2, <1>3
    <2> QED
      BY <2>1 DEF Across
  <1>6. Tuple(s, f, i) = <<Down(s, f, i), Across(s, f, i), f[i].length, f[i].type, 0>>
    BY DEF Tuple
  <1>7. \A j \in 1..5 : j = 1 \/ j = 2 \/ j = 3 \/ j = 4 \/ j = 5
    OBVIOUS
  <1> HIDE DEF Down, Across
  <1>8. \A j \in 1..5 : Tuple(s, f, i)[j] \in Int
    BY <1>1, <1>4, <1>5, <1>6, <1>7
  <1> QED
    BY <1>1, <1>2, <1>4, <1>5, <1>6, <1>8 DEF f

LEMMA EncodedIs ==
    ASSUME NEW s, Len(s) \in Nat, NEW ts, Laid(s, ts)
    PROVE  /\ Encode(s, ts) \in Seq(Int)
           /\ Len(Tuples(Encode(s, ts))) = Cardinality(ts)
           /\ \A i \in 1..Cardinality(ts), j \in 1..4 :
                Tuples(Encode(s, ts))[i][j] = Tuple(s, InOrder(ts), i)[j]
  <1> DEFINE n == Cardinality(ts)
             f == InOrder(ts)
             d == Encode(s, ts)
  <1>1. n \in Nat
    BY OrderIs
  <1>2. d = [k \in 1..(5 * n) |-> Tuple(s, f, (k - 1) \div 5 + 1)[((k - 1) % 5) + 1]]
    BY DEF Encode, Tuple, Down, Across, From
  <1>3. \A i \in 1..n : \A j \in 1..5 : Tuple(s, f, i)[j] \in Int
    BY TupleIs
  <1> HIDE DEF f, d
  <1>4. 5 * n \in Nat
    BY <1>1
  <1>5. d \in [1..(5 * n) -> Int]
    <2>1. \A k \in 1..(5 * n) : (k - 1) \div 5 + 1 \in 1..n /\ ((k - 1) % 5) + 1 \in 1..5
      BY <1>1, IndexIs
    <2>2. \A k \in 1..(5 * n) : Tuple(s, f, (k - 1) \div 5 + 1)[((k - 1) % 5) + 1] \in Int
      BY <1>3, <2>1
    <2> QED
      BY <1>2, <2>2
  <1>6. d \in Seq(Int) /\ Len(d) = 5 * n
    <2>1. PICK m \in Nat : m = 5 * n
      BY <1>4
    <2>2. d \in [1..m -> Int]
      BY <1>5, <2>1
    <2>3. d \in Seq(Int) /\ Len(d) = m
      BY <2>2
    <2> QED
      BY <2>1, <2>3
  <1>7. ASSUME NEW i \in 1..n, NEW j \in 1..5 PROVE d[(5 * i - 5) + j] = Tuple(s, f, i)[j]
    <2>1. PICK k : k = (5 * i - 5) + j
      OBVIOUS
    <2>2. k \in 1..(5 * n) /\ (k - 1) \div 5 + 1 = i /\ ((k - 1) % 5) + 1 = j
      BY <1>1, <2>1, IndexIs
    <2>3. d[k] = Tuple(s, f, (k - 1) \div 5 + 1)[((k - 1) % 5) + 1]
      BY <1>2, <2>2
    <2> QED
      BY <2>1, <2>2, <2>3
  <1>8. Len(d) \div 5 = n
    <2>1. \A m \in Nat : (5 * m) \div 5 = m
      OBVIOUS
    <2> QED
      BY <1>1, <1>6, <2>1
  <1>9. Tuples(d) = [i \in 1..n |-> SubSeq(d, 5 * i - 4, 5 * i)]
    BY <1>8 DEF Tuples
  <1>10. Len(Tuples(d)) = n
    BY <1>1, <1>9
  <1>11. ASSUME NEW i \in 1..n, NEW j \in 1..4 PROVE Tuples(d)[i][j] = Tuple(s, f, i)[j]
    <2>1. PICK a, b : a = 5 * i - 5 /\ b = 5 * i
      OBVIOUS
    <2>2. a \in 0..Len(d) /\ b \in a..Len(d) /\ b - a = 5 /\ a + 1 = 5 * i - 4
      BY <1>1, <1>6, <2>1
    <2>3. Tuples(d)[i] = Slice(d, a, b)
      BY <1>9, <2>1, <2>2 DEF Slice
    <2>4. \A k \in 1..(b - a) : Slice(d, a, b)[k] = d[a + k]
      BY <1>6, <2>2, SliceIs
    <2>5. j \in 1..(b - a) /\ j \in 1..5
      BY <2>2
    <2>6. Slice(d, a, b)[j] = d[a + j]
      BY <2>4, <2>5
    <2>7. d[(5 * i - 5) + j] = Tuple(s, f, i)[j]
      BY <1>7, <2>5
    <2> QED
      BY <2>1, <2>3, <2>6, <2>7
  <1> QED
    BY <1>6, <1>10, <1>11 DEF d, f
-----------------------------------------------------------------------------
(* The state: the document and the tokens that the server has found.       *)

Rune == {"a", "n"}

DocumentInv ==
    /\ body \in Seq(Rune) /\ Laid(body, tokens)
    /\ data \in Seq(Int) /\ answered \in Seq(Int)

LEMMA DocumentInit == Init => DocumentInv
  <1> SUFFICES ASSUME Init PROVE DocumentInv
    OBVIOUS
  <1>1. body = <<>> /\ tokens = {} /\ data = <<>> /\ answered = <<>>
    BY DEF Init
  <1>2. body \in Seq(Rune) /\ data \in Seq(Int) /\ answered \in Seq(Int)
    BY <1>1, EmptySeq
  <1>3. Laid(body, tokens)
    BY <1>1, FS_EmptySet DEF Laid
  <1> QED
    BY <1>2, <1>3 DEF DocumentInv

\* Typing at the end leaves the tokens where they are.
LEMMA LaidLonger ==
    ASSUME NEW s \in Seq(Rune), NEW r \in Rune, NEW ts, Laid(s, ts)
    PROVE  Append(s, r) \in Seq(Rune) /\ Laid(Append(s, r), ts)
  <1> DEFINE u == Append(s, r)
  <1>1. u \in Seq(Rune) /\ Len(u) = Len(s) + 1 /\ (\A i \in 1..Len(s) : u[i] = s[i]) /\ Len(s) \in Nat
    BY AppendProperties
  <1> HIDE DEF u
  <1>2. ASSUME NEW t \in ts
        PROVE  /\ t \in [start : Nat, length : 1..2, type : Types]
               /\ t.start + t.length <= Len(u)
               /\ \A i \in (t.start + 1)..(t.start + t.length) : u[i] # "n"
    <2>1. /\ t \in [start : Nat, length : 1..2, type : Types]
          /\ t.start + t.length <= Len(s)
          /\ \A i \in (t.start + 1)..(t.start + t.length) : s[i] # "n"
      BY DEF Laid
    <2>2. t.start \in Nat /\ t.length \in Nat
      BY <2>1
    <2>3. t.start + t.length <= Len(u)
      BY <1>1, <2>1, <2>2
    <2>4. \A i \in (t.start + 1)..(t.start + t.length) : i \in 1..Len(s)
      BY <1>1, <2>1, <2>2
    <2> QED
      BY <1>1, <2>1, <2>3, <2>4
  <1>3. Laid(u, ts)
    BY <1>2 DEF Laid
  <1> QED
    BY <1>1, <1>3 DEF u

LEMMA LaidMore ==
    ASSUME NEW s \in Seq(Rune), NEW ts, Laid(s, ts),
           NEW t \in [start : 0..Len(s), length : 1..2, type : Types], MayBeToken(s, ts, t)
    PROVE  Laid(s, ts \cup {t})
  <1>1. IsFiniteSet(ts \cup {t})
    BY FS_AddElement DEF Laid
  <1>2. t \in [start : Nat, length : 1..2, type : Types]
    OBVIOUS
  <1>3. /\ t.start + t.length <= Len(s)
        /\ \A i \in (t.start + 1)..(t.start + t.length) : s[i] # "n"
        /\ \A u \in ts : t.start + t.length <= u.start \/ u.start + u.length <= t.start
    BY DEF MayBeToken
  <1>4. \A u \in ts : /\ u \in [start : Nat, length : 1..2, type : Types]
                      /\ u.start + u.length <= Len(s)
                      /\ \A i \in (u.start + 1)..(u.start + u.length) : s[i] # "n"
    BY DEF Laid
  <1>5. \A u, w \in ts : u = w \/ u.start + u.length <= w.start \/ w.start + w.length <= u.start
    BY DEF Laid
  <1>6. \A u, w \in ts \cup {t} : u = w \/ u.start + u.length <= w.start \/ w.start + w.length <= u.start
    BY <1>3, <1>5
  <1>7. \A u \in ts \cup {t} : /\ u \in [start : Nat, length : 1..2, type : Types]
                               /\ u.start + u.length <= Len(s)
                               /\ \A i \in (u.start + 1)..(u.start + u.length) : s[i] # "n"
    BY <1>2, <1>3, <1>4
  <1> QED
    BY <1>1, <1>6, <1>7 DEF Laid

LEMMA LaidLess ==
    ASSUME NEW s, NEW ts, Laid(s, ts), NEW us \in SUBSET ts
    PROVE  Laid(s, us)
  <1>1. IsFiniteSet(us)
    BY FS_Subset DEF Laid
  <1>2. \A u \in us : u \in ts
    OBVIOUS
  <1> QED
    BY <1>1, <1>2 DEF Laid

\* What an answer does: the runs are those of the tokens, and what is kept is
\* what was kept or what the server answered.
Answers ==
    /\ UNCHANGED <<body, tokens>>
    /\ entries' = StyleEntries(Encode(body, tokens), body) \/ (tokens = {} /\ entries' = <<>>)
    /\ UNCHANGED cached \/ (data' = Encode(body, tokens) /\ answered' = Encode(body, tokens))
    /\ resultID' => resultID \/ (data' = Encode(body, tokens) /\ answered' = Encode(body, tokens))

LEMMA FullAnswers ==
    ASSUME UNCHANGED <<body, tokens>>, Full \/ Apply(Encode(body, tokens))
    PROVE  Answers
  <1>1. CASE Apply(Encode(body, tokens))
    BY <1>1 DEF Apply, Answers, cached
  <1>2. CASE Full /\ tokens = {}
    BY <1>2 DEF Full, Answers, cached
  <1>3. CASE Full /\ tokens # {}
    BY <1>1, <1>3 DEF Full
  <1> QED
    BY <1>1, <1>2, <1>3

\* Whichever way the answer comes, it is one of these.
LEMMA EveryAnswer ==
    ASSUME DocumentInv, DataIsTheServers, ApplyFull \/ ApplyDelta
    PROVE  Answers /\ Encode(body, tokens) \in Seq(Int)
  <1>1. PICK s \in Seq(Rune) : s = body
    BY DEF DocumentInv
  <1>2. PICK ts : ts = tokens
    OBVIOUS
  <1>3. Encode(s, ts) \in Seq(Int)
    <2>1. Len(s) \in Nat /\ Laid(s, ts)
      BY <1>1, <1>2 DEF DocumentInv
    <2> QED
      BY <2>1, EncodedIs
  <1>4. CASE ApplyFull
    <2>1. UNCHANGED <<body, tokens>> /\ Full
      BY <1>4 DEF ApplyFull
    <2> QED
      BY <1>1, <1>2, <1>3, <2>1, FullAnswers
  <1>5. CASE ApplyDelta
    <2>1. PICK es \in EditsBetween(answered, Encode(body, tokens)) :
             IF ApplyTokenEdits(data, es) = <<>> THEN Full ELSE Apply(ApplyTokenEdits(data, es))
      BY <1>5 DEF ApplyDelta
    <2>2. PICK a \in Seq(Int) : a = data /\ a = answered
      BY <1>5 DEF DocumentInv, DataIsTheServers, ApplyDelta
    <2>3. PICK b \in Seq(Int) : b = Encode(body, tokens)
      BY <1>1, <1>2, <1>3
    <2>4. es \in EditsBetween(a, b)
      BY <2>1, <2>2, <2>3
    <2>5. ApplyTokenEdits(a, es) = b
      BY <2>4, DeltaApplied
    <2>6. Full \/ Apply(b)
      BY <2>1, <2>2, <2>5
    <2>7. UNCHANGED <<body, tokens>>
      BY <1>5 DEF ApplyDelta
    <2> QED
      BY <2>3, <2>6, <2>7, FullAnswers
  <1> QED
    BY <1>4, <1>5

LEMMA DocumentNext == DocumentInv /\ DataIsTheServers /\ [Next]_vars => DocumentInv'
  <1> SUFFICES ASSUME DocumentInv, DataIsTheServers, [Next]_vars PROVE DocumentInv'
    OBVIOUS
  <1>1. PICK s \in Seq(Rune) : s = body
    BY DEF DocumentInv
  <1>2. PICK ts : ts = tokens
    OBVIOUS
  <1>3. Laid(s, ts) /\ data \in Seq(Int) /\ answered \in Seq(Int)
    BY <1>1, <1>2 DEF DocumentInv
  <1>4. CASE Type
    <2>1. PICK r \in Rune : body' = Append(s, r)
      BY <1>1, <1>4 DEF Type, Rune
    <2>2. Append(s, r) \in Seq(Rune) /\ Laid(Append(s, r), ts)
      BY <1>3, LaidLonger
    <2> QED
      BY <1>2, <1>3, <1>4, <2>1, <2>2 DEF Type, DocumentInv, cached
  <1>5. CASE FindToken
    <2>1. UNCHANGED <<body, data, answered>>
      BY <1>5 DEF FindToken, cached
    <2>2. CASE \E t \in [start : 0..Len(body), length : 1..2, type : Types] :
                 MayBeToken(body, tokens, t) /\ tokens' = tokens \cup {t}
      <3>1. PICK t \in [start : 0..Len(s), length : 1..2, type : Types] :
                 MayBeToken(s, ts, t) /\ tokens' = ts \cup {t}
        BY <1>1, <1>2, <2>2
      <3>2. Laid(s, ts \cup {t})
        BY <1>3, <3>1, LaidMore
      <3> QED
        BY <1>1, <1>3, <2>1, <3>1, <3>2 DEF DocumentInv
    <2>3. CASE \E t \in tokens : tokens' = tokens \ {t}
      <3>1. PICK us \in SUBSET ts : tokens' = us
        BY <1>2, <2>3
      <3>2. Laid(s, us)
        BY <1>3, LaidLess
      <3> QED
        BY <1>1, <1>3, <2>1, <3>1, <3>2 DEF DocumentInv
    <2> QED
      BY <1>5, <2>2, <2>3 DEF FindToken
  <1>6. CASE ApplyFull \/ ApplyDelta
    <2>1. Answers /\ Encode(body, tokens) \in Seq(Int)
      BY <1>6, EveryAnswer
    <2> QED
      BY <2>1 DEF Answers, DocumentInv, cached
  <1>7. CASE UNCHANGED vars
    BY <1>7 DEF vars, cached, DocumentInv
  <1> QED
    BY <1>4, <1>5, <1>6, <1>7 DEF Next

LEMMA DataInit == Init => DataIsTheServers
  BY DEF Init, DataIsTheServers

LEMMA DataNext == DocumentInv /\ DataIsTheServers /\ [Next]_vars => DataIsTheServers'
  <1> SUFFICES ASSUME DocumentInv, DataIsTheServers, [Next]_vars PROVE DataIsTheServers'
    OBVIOUS
  <1>1. CASE Type \/ FindToken
    BY <1>1 DEF Type, FindToken, DataIsTheServers, cached
  <1>2. CASE ApplyFull \/ ApplyDelta
    <2>1. Answers
      BY <1>2, EveryAnswer
    <2> QED
      BY <2>1 DEF Answers, DataIsTheServers, cached
  <1>3. CASE UNCHANGED vars
    BY <1>3 DEF vars, cached, DataIsTheServers
  <1> QED
    BY <1>1, <1>2, <1>3 DEF Next

\* After any sequence of full and delta answers, with and without result ids,
\* empty ones among them, the array that the client keeps under a result id is
\* the one that the server answered under it: an answer that is not kept leaves
\* both as they were, and whatever the server replaces, in whichever of the
\* ways it may cut the array in two, the edits applied from the last to the
\* first, each cut off at the end of the array, give the server's new one
\* (style.go:209-232, 272-322).
THEOREM DeltasAreExact == Spec => []DataIsTheServers
  BY DocumentInit, DocumentNext, DataInit, DataNext, PTL DEF Spec
-----------------------------------------------------------------------------
(* What acme-lsp reads from the array.                                     *)

Pos(s, q) == [line |-> Newlines(s, q), col |-> Column(s, q)]
EntryOf(t) == [name |-> PaletteName(t.type), start |-> t.start, end |-> t.start + t.length]
More(es, e) == IF e.name = "" THEN es ELSE Append(es, e)
Entries == [name : {PaletteName(t) : t \in Nat}, start : Nat, end : Nat]

\* A tuple leads from the position of one token to that of the next.
LEMMA Moves ==
    ASSUME NEW s, Len(s) \in Nat, NEW ts, Laid(s, ts), NEW i \in 1..Cardinality(ts)
    PROVE  At(Pos(s, From(InOrder(ts), i)), Tuples(Encode(s, ts))[i]) = Pos(s, InOrder(ts)[i].start)
  <1> DEFINE f == InOrder(ts)
             t == Tuples(Encode(s, ts))[i]
             a == From(f, i)
             b == f[i].start
  <1>1. t[1] = Down(s, f, i) /\ t[2] = Across(s, f, i)
    <2>1. t[1] = Tuple(s, f, i)[1] /\ t[2] = Tuple(s, f, i)[2]
      BY EncodedIs
    <2>2. Tuple(s, f, i)[1] = Down(s, f, i) /\ Tuple(s, f, i)[2] = Across(s, f, i)
      BY TupleIs
    <2> QED
      BY <2>1, <2>2
  <1>2. a \in 0..Len(s) /\ b \in 0..Len(s)
    BY TupleIs, TokenIs
  <1>3. Down(s, f, i) = Newlines(s, b) - Newlines(s, a)
        /\ Across(s, f, i) = Column(s, b) - IF Down(s, f, i) = 0 THEN Column(s, a) ELSE 0
    BY DEF Down, Across
  <1> HIDE DEF f, t, a, b
  <1>4. Newlines(s, a) \in Nat /\ Newlines(s, b) \in Nat /\ Column(s, a) \in Nat /\ Column(s, b) \in Nat
    BY <1>2, BackToOffset
  <1>5. At(Pos(s, a), t) = Pos(s, b)
    <2>1. CASE t[1] = 0
      <3>1. Newlines(s, a) = Newlines(s, b) /\ Column(s, a) + t[2] = Column(s, b)
        BY <1>1, <1>3, <1>4, <2>1
      <3>2. At(Pos(s, a), t) = [line |-> Newlines(s, a), col |-> Column(s, a) + t[2]]
        BY <2>1 DEF At, Pos
      <3> QED
        BY <3>1, <3>2 DEF Pos
    <2>2. CASE t[1] # 0
      <3>1. Newlines(s, a) + t[1] = Newlines(s, b) /\ t[2] = Column(s, b)
        BY <1>1, <1>3, <1>4, <2>2
      <3>2. At(Pos(s, a), t) = [line |-> Newlines(s, a) + t[1], col |-> t[2]]
        BY <2>2 DEF At, Pos
      <3> QED
        BY <3>1, <3>2 DEF Pos
    <2> QED
      BY <2>1, <2>2
  <1> QED
    BY <1>5 DEF f, t, a, b

\* The positions that the first pass goes through.
Positions(d) ==
    LET at[i \in 0..Len(Tuples(d))] ==
            IF i = 0 THEN [line |-> 0, col |-> 0] ELSE At(at[i - 1], Tuples(d)[i])
    IN  at

LEMMA PositionsAre ==
    ASSUME NEW s, Len(s) \in Nat, NEW ts, Laid(s, ts)
    PROVE  \A i \in 1..Cardinality(ts) :
              Positions(Encode(s, ts))[i] = Pos(s, InOrder(ts)[i].start)
  <1> DEFINE d == Encode(s, ts)
             f == InOrder(ts)
             n == Cardinality(ts)
             u == Tuples(d)
             at == CHOOSE at : at = [i \in 0..n |-> IF i = 0 THEN [line |-> 0, col |-> 0]
                                                    ELSE At(at[i - 1], u[i])]
             p == [i \in 0..n |-> Pos(s, From(f, i + 1))]
  <1>1. n \in Nat /\ Len(u) = n
    BY OrderIs, EncodedIs
  <1>2. Pos(s, 0) = [line |-> 0, col |-> 0]
    BY AtZero DEF Pos
  <1>3. \A i \in 1..n : At(Pos(s, From(f, i)), u[i]) = Pos(s, f[i].start)
    BY Moves
  <1>4. Positions(d) = at
    BY <1>1 DEF Positions
  <1> HIDE DEF d, f, n, u
  <1>5. From(f, 1) = 0 /\ \A i \in 1..n : From(f, i + 1) = f[i].start
    BY <1>1 DEF From
  <1>6. p[0] = Pos(s, 0)
    BY <1>1, <1>5
  <1>7. \A i \in 1..n : p[i] = Pos(s, f[i].start) /\ p[i - 1] = Pos(s, From(f, i))
    <2>1. ASSUME NEW i \in 1..n PROVE p[i] = Pos(s, f[i].start) /\ p[i - 1] = Pos(s, From(f, i))
      <3>1. i \in 0..n /\ i - 1 \in 0..n /\ (i - 1) + 1 = i
        BY <1>1
      <3>2. p[i] = Pos(s, From(f, i + 1)) /\ p[i - 1] = Pos(s, From(f, (i - 1) + 1))
        BY <3>1
      <3> QED
        BY <1>5, <3>1, <3>2
    <2> QED
      BY <2>1
  <1>8. DOMAIN p = 0..n /\ p = [i \in DOMAIN p |-> p[i]]
    OBVIOUS
  <1> HIDE DEF p
  <1>9. p = [i \in 0..n |-> IF i = 0 THEN [line |-> 0, col |-> 0] ELSE At(p[i - 1], u[i])]
    <2>1. ASSUME NEW i \in 0..n
          PROVE  p[i] = IF i = 0 THEN [line |-> 0, col |-> 0] ELSE At(p[i - 1], u[i])
      <3>1. CASE i = 0
        BY <1>2, <1>6, <3>1
      <3>2. CASE i # 0
        <4>1. i \in 1..n
          BY <3>2
        <4> QED
          BY <1>3, <1>7, <3>2, <4>1
      <3> QED
        BY <3>1, <3>2
    <2> QED
      BY <1>8, <2>1
  <1>10. at = [i \in 0..n |-> IF i = 0 THEN [line |-> 0, col |-> 0] ELSE At(at[i - 1], u[i])]
    BY <1>9
  <1> HIDE DEF at
  <1>11. \A i \in 0..n : at[i] = IF i = 0 THEN [line |-> 0, col |-> 0] ELSE At(at[i - 1], u[i])
    BY <1>10
  <1> DEFINE G == {i \in Nat : i <= n => at[i] = p[i]}
  <1>12. 0 \in G
    <2>1. 0 \in 0..n
      BY <1>1
    <2> QED
      BY <1>2, <1>6, <1>11, <2>1
  <1>13. ASSUME NEW i \in Nat, i \in G PROVE i + 1 \in G
    <2> SUFFICES ASSUME i + 1 <= n PROVE at[i + 1] = p[i + 1]
      OBVIOUS
    <2>1. i + 1 \in 0..n /\ i + 1 \in 1..n /\ i + 1 # 0 /\ (i + 1) - 1 = i /\ i <= n
      BY <1>1
    <2>2. at[i] = p[i]
      BY <1>13, <2>1
    <2>3. at[i + 1] = At(at[i], u[i + 1])
      BY <1>11, <2>1
    <2>4. p[i + 1] = Pos(s, f[i + 1].start) /\ p[i] = Pos(s, From(f, i + 1))
      BY <1>7, <2>1
    <2> QED
      BY <1>3, <2>1, <2>2, <2>3, <2>4
  <1> HIDE DEF G
  <1>14. \A i \in Nat : i \in G
    BY <1>12, <1>13, Induction
  <1>15. ASSUME NEW i \in 1..n PROVE at[i] = Pos(s, f[i].start)
    BY <1>7, <1>14 DEF G
  <1> QED
    BY <1>4, <1>15 DEF d, f, n

Read(s, p, t) ==
    LET start == ToRuneOffset(s, p.line, p.col)
    IN  [name |-> PaletteName(t[4]), start |-> start, end |-> start + t[3]]

\* Where the server says that a token is, acme-lsp finds it (style.go:153-182).
LEMMA ReadIs ==
    ASSUME NEW s, Len(s) \in Nat, NEW ts, Laid(s, ts), NEW i \in 1..Cardinality(ts)
    PROVE  LET d == Encode(s, ts)
               e == EntryOf(InOrder(ts)[i]) IN
           /\ Read(s, Positions(d)[i], Tuples(d)[i]) = e
           /\ e \in Entries /\ e.start < e.end /\ e.end <= Len(s)
  <1> DEFINE d == Encode(s, ts)
             t == InOrder(ts)[i]
             p == Positions(d)[i]
             u == Tuples(d)[i]
  <1>1. p = Pos(s, t.start)
    BY PositionsAre
  <1>2. u[3] = t.length /\ u[4] = t.type
    <2>1. u[3] = Tuple(s, InOrder(ts), i)[3] /\ u[4] = Tuple(s, InOrder(ts), i)[4]
      BY EncodedIs
    <2>2. Tuple(s, InOrder(ts), i)[3] = t.length /\ Tuple(s, InOrder(ts), i)[4] = t.type
      BY TupleIs
    <2> QED
      BY <2>1, <2>2
  <1>3. t.start \in 0..Len(s) /\ t.length \in 1..2 /\ t.type \in Nat /\ t.start + t.length <= Len(s)
    BY TokenIs
  <1> HIDE DEF d, t, p, u
  <1>4. ToRuneOffset(s, p.line, p.col) = t.start
    <2>1. p.line = Newlines(s, t.start) /\ p.col = Column(s, t.start)
      BY <1>1 DEF Pos
    <2> QED
      BY <1>3, <2>1, BackToOffset
  <1>5. Read(s, p, u) = EntryOf(t)
    BY <1>2, <1>4 DEF Read, EntryOf
  <1>6. t.start + t.length \in Nat /\ t.start \in Nat /\ t.start < t.start + t.length
    BY <1>3
  <1>7. EntryOf(t) \in Entries
    BY <1>3, <1>6 DEF EntryOf, Entries
  <1>8. EntryOf(t).start = t.start /\ EntryOf(t).end = t.start + t.length
    BY DEF EntryOf
  <1> QED
    BY <1>3, <1>5, <1>6, <1>7, <1>8 DEF d, t, p, u

\* The lists that the first pass goes through.
Reads(f, n, out) ==
    /\ out \in [0..n -> Seq(Entries)] /\ out[0] = <<>>
    /\ \A i \in 1..n : out[i] = More(out[i - 1], EntryOf(f[i]))

LEMMA MoreIs ==
    ASSUME NEW es \in Seq(Entries), NEW e \in Entries
    PROVE  More(es, e) \in Seq(Entries)
  BY AppendProperties DEF More

LEMMA DecodeIs ==
    ASSUME NEW s, Len(s) \in Nat, NEW ts, Laid(s, ts)
    PROVE  \E out : /\ Reads(InOrder(ts), Cardinality(ts), out)
                    /\ Decode(Encode(s, ts), s) = out[Cardinality(ts)]
  <1> DEFINE d == Encode(s, ts)
             f == InOrder(ts)
             n == Cardinality(ts)
             u == Tuples(d)
             at == Positions(d)
             c == CHOOSE c : c = [i \in 0..n |-> IF i = 0 THEN <<>>
                                                 ELSE More(c[i - 1], Read(s, at[i], u[i]))]
  <1>1. n \in Nat /\ Len(u) = n
    BY OrderIs, EncodedIs
  <1>2. \A i \in 1..n : Read(s, at[i], u[i]) = EntryOf(f[i]) /\ EntryOf(f[i]) \in Entries
    BY ReadIs
  <1>3. Decode(d, s) = c[n]
    BY <1>1 DEF Decode, Positions, Read, More
  <1> HIDE DEF d, f, n, u, at
  <1>4. PICK nil \in Seq(Entries) : nil = <<>>
    BY EmptySeq
  <1> DEFINE h == [p \in Nat \X Seq(Entries) |->
                     IF p[1] < n THEN More(p[2], EntryOf(f[p[1] + 1])) ELSE p[2]]
  <1>5. h \in [Nat \X Seq(Entries) -> Seq(Entries)]
    <2>1. ASSUME NEW p \in Nat \X Seq(Entries), p[1] < n
          PROVE  More(p[2], EntryOf(f[p[1] + 1])) \in Seq(Entries)
      <3>1. p[1] + 1 \in 1..n /\ p[2] \in Seq(Entries)
        BY <1>1, <2>1
      <3> QED
        BY <1>2, <3>1, MoreIs
    <2>2. \A p \in Nat \X Seq(Entries) : p[2] \in Seq(Entries)
      OBVIOUS
    <2> QED
      BY <2>1, <2>2
  <1>6. PICK g : Begins(g, n, Seq(Entries), nil, h)
    <2> HIDE DEF h
    <2> QED
      BY <1>1, <1>5, Recursion
  <1>7. g \in [0..n -> Seq(Entries)] /\ g[0] = nil /\ \A k \in 0..(n - 1) : g[k + 1] = h[<<k, g[k]>>]
    BY <1>6 DEF Begins
  <1>8. ASSUME NEW i \in 1..n PROVE g[i] = More(g[i - 1], EntryOf(f[i]))
    <2>1. i - 1 \in 0..(n - 1) /\ i - 1 \in 0..n /\ i - 1 \in Nat /\ i - 1 < n /\ (i - 1) + 1 = i
      BY <1>1
    <2>2. g[i] = h[<<i - 1, g[i - 1]>>]
      BY <1>7, <2>1
    <2>3. g[i - 1] \in Seq(Entries)
      BY <1>7, <2>1
    <2>4. \A p \in Nat \X Seq(Entries) : p[1] < n => h[p] = More(p[2], EntryOf(f[p[1] + 1]))
      OBVIOUS
    <2>5. <<i - 1, g[i - 1]>> \in Nat \X Seq(Entries)
      BY <2>1, <2>3
    <2> HIDE DEF h
    <2> QED
      BY <2>1, <2>2, <2>4, <2>5
  <1> HIDE DEF h
  <1>9. g = [i \in 0..n |-> IF i = 0 THEN <<>> ELSE More(g[i - 1], Read(s, at[i], u[i]))]
    <2>1. ASSUME NEW i \in 0..n
          PROVE  g[i] = IF i = 0 THEN <<>> ELSE More(g[i - 1], Read(s, at[i], u[i]))
      <3>1. CASE i = 0
        BY <1>4, <1>7, <3>1
      <3>2. CASE i # 0
        <4>1. i \in 1..n
          BY <3>2
        <4>2. g[i] = More(g[i - 1], EntryOf(f[i])) /\ Read(s, at[i], u[i]) = EntryOf(f[i])
          BY <1>2, <1>8, <4>1
        <4> QED
          BY <3>2, <4>2
      <3> QED
        BY <3>1, <3>2
    <2> QED
      BY <1>7, <2>1
  <1>10. c = [i \in 0..n |-> IF i = 0 THEN <<>> ELSE More(c[i - 1], Read(s, at[i], u[i]))]
    BY <1>9
  <1> HIDE DEF c
  <1>11. \A i \in 0..n : c[i] = IF i = 0 THEN <<>> ELSE More(c[i - 1], Read(s, at[i], u[i]))
    BY <1>10
  <1>12. c[0] = <<>>
    <2>1. 0 \in 0..n
      BY <1>1
    <2> QED
      BY <1>11, <2>1
  <1>13. ASSUME NEW i \in 1..n PROVE c[i] = More(c[i - 1], EntryOf(f[i]))
    <2>1. i \in 0..n /\ i # 0
      OBVIOUS
    <2>2. c[i] = More(c[i - 1], Read(s, at[i], u[i]))
      BY <1>11, <2>1
    <2> QED
      BY <1>2, <2>2
  <1> DEFINE G == {i \in Nat : i <= n => c[i] \in Seq(Entries)}
  <1>14. 0 \in G
    BY <1>4, <1>12
  <1>15. ASSUME NEW i \in Nat, i \in G PROVE i + 1 \in G
    <2> SUFFICES ASSUME i + 1 <= n PROVE c[i + 1] \in Seq(Entries)
      OBVIOUS
    <2>1. i + 1 \in 1..n /\ (i + 1) - 1 = i /\ i <= n
      BY <1>1
    <2>2. c[i] \in Seq(Entries) /\ EntryOf(f[i + 1]) \in Entries
      BY <1>2, <1>15, <2>1
    <2>3. More(c[i], EntryOf(f[i + 1])) \in Seq(Entries)
      BY <2>2, MoreIs
    <2>4. c[i + 1] = More(c[(i + 1) - 1], EntryOf(f[i + 1]))
      BY <1>13, <2>1
    <2> QED
      BY <2>1, <2>3, <2>4
  <1> HIDE DEF G
  <1>16. \A i \in Nat : i \in G
    BY <1>14, <1>15, Induction
  <1>17. c \in [0..n -> Seq(Entries)]
    <2>1. \A i \in 0..n : c[i] \in Seq(Entries)
      BY <1>16 DEF G
    <2> QED
      BY <1>10, <2>1
  <1>18. Reads(f, n, c)
    BY <1>12, <1>13, <1>17 DEF Reads
  <1> QED
    BY <1>3, <1>18 DEF d, f, n
-----------------------------------------------------------------------------
(* Lists of entries.                                                       *)

Within(e, q) == e.start <= q /\ q < e.end

\* One of the first n entries gives the name m to the rune at q.
ShowsTo(es, n, m, q) == \E k \in 1..n : es[k].name = m /\ Within(es[k], q)

\* Every entry has a rune, and each ends before the next ones start.
Ordered(es, s) ==
    /\ \A j \in 1..Len(es) : es[j].start < es[j].end /\ es[j].end <= Len(s)
    /\ \A j, k \in 1..Len(es) : j < k => es[j].end <= es[k].start

\* Two runs of one name have a letter between them.
Apart(a, b, s) == a.name = b.name => \E q \in (a.end + 1)..b.start : s[q] # "n"
AllApart(es, s) == \A j \in 1..(Len(es) - 1) : Apart(es[j], es[j + 1], s)

LEMMA Appended ==
    ASSUME NEW u \in Seq(Entries), NEW e \in Entries
    PROVE  /\ Append(u, e) \in Seq(Entries) /\ Len(Append(u, e)) = Len(u) + 1 /\ Len(u) \in Nat
           /\ \A i \in 1..Len(u) : Append(u, e)[i] = u[i] /\ u[i] \in Entries
           /\ Append(u, e)[Len(u) + 1] = e
  BY AppendProperties, ElementOfSeq

LEMMA ShowsAppended ==
    ASSUME NEW u \in Seq(Entries), NEW e \in Entries, NEW m, NEW q
    PROVE  ShowsTo(Append(u, e), Len(u) + 1, m, q)
           <=> ShowsTo(u, Len(u), m, q) \/ (e.name = m /\ Within(e, q))
  <1> DEFINE v == Append(u, e)
  <1>1. Len(u) \in Nat /\ (\A i \in 1..Len(u) : v[i] = u[i]) /\ v[Len(u) + 1] = e
    BY Appended
  <1> HIDE DEF v
  <1>2. ASSUME NEW k \in 1..(Len(u) + 1), v[k].name = m, Within(v[k], q)
        PROVE  ShowsTo(u, Len(u), m, q) \/ (e.name = m /\ Within(e, q))
    <2>1. CASE k = Len(u) + 1
      BY <1>1, <1>2, <2>1
    <2>2. CASE k # Len(u) + 1
      <3>1. k \in 1..Len(u)
        BY <1>1, <2>2
      <3>2. v[k] = u[k]
        BY <1>1, <3>1
      <3> QED
        BY <1>2, <3>1, <3>2 DEF ShowsTo
    <2> QED
      BY <2>1, <2>2
  <1>3. ASSUME NEW k \in 1..Len(u), u[k].name = m, Within(u[k], q)
        PROVE  ShowsTo(v, Len(u) + 1, m, q)
    <2>1. k \in 1..(Len(u) + 1) /\ v[k] = u[k]
      BY <1>1
    <2> QED
      BY <1>3, <2>1 DEF ShowsTo
  <1>4. ASSUME e.name = m, Within(e, q) PROVE ShowsTo(v, Len(u) + 1, m, q)
    <2>1. Len(u) + 1 \in 1..(Len(u) + 1)
      BY <1>1
    <2> QED
      BY <1>1, <1>4, <2>1 DEF ShowsTo
  <1>5. ShowsTo(v, Len(u) + 1, m, q) => ShowsTo(u, Len(u), m, q) \/ (e.name = m /\ Within(e, q))
    BY <1>2 DEF ShowsTo
  <1>6. ShowsTo(u, Len(u), m, q) => ShowsTo(v, Len(u) + 1, m, q)
    BY <1>3 DEF ShowsTo
  <1> QED
    BY <1>4, <1>5, <1>6 DEF v

LEMMA OrderedAppended ==
    ASSUME NEW u \in Seq(Entries), NEW e \in Entries, NEW s
    PROVE  Ordered(Append(u, e), s)
           <=> /\ Ordered(u, s) /\ e.start < e.end /\ e.end <= Len(s)
               /\ \A j \in 1..Len(u) : u[j].end <= e.start
  <1> DEFINE v == Append(u, e)
             n == Len(u)
  <1>1. n \in Nat /\ Len(v) = n + 1 /\ (\A i \in 1..n : v[i] = u[i]) /\ v[n + 1] = e
    BY Appended
  <1> HIDE DEF v, n
  <1>2. ASSUME Ordered(v, s)
        PROVE  /\ Ordered(u, s) /\ e.start < e.end /\ e.end <= Len(s)
               /\ \A j \in 1..n : u[j].end <= e.start
    <2>1. \A j \in 1..n : j \in 1..(n + 1) /\ n + 1 \in 1..(n + 1) /\ j < n + 1
      BY <1>1
    <2>2. n + 1 \in 1..(n + 1)
      BY <1>1
    <2>3. \A j \in 1..n : v[j].start < v[j].end /\ v[j].end <= Len(s) /\ v[j].end <= v[n + 1].start
      BY <1>1, <1>2, <2>1 DEF Ordered
    <2>4. \A j, k \in 1..n : j < k => v[j].end <= v[k].start
      BY <1>1, <1>2, <2>1 DEF Ordered
    <2>5. v[n + 1].start < v[n + 1].end /\ v[n + 1].end <= Len(s)
      BY <1>1, <1>2, <2>2 DEF Ordered
    <2>6. Ordered(u, s)
      BY <1>1, <2>3, <2>4 DEF Ordered, n
    <2> QED
      BY <1>1, <2>3, <2>5, <2>6
  <1>3. ASSUME Ordered(u, s), e.start < e.end, e.end <= Len(s),
               \A j \in 1..n : u[j].end <= e.start
        PROVE  Ordered(v, s)
    <2>1. \A j \in 1..(n + 1) : j = n + 1 \/ j \in 1..n
      BY <1>1
    <2>2. ASSUME NEW j \in 1..(n + 1) PROVE v[j].start < v[j].end /\ v[j].end <= Len(s)
      <3>1. CASE j = n + 1
        BY <1>1, <1>3, <3>1
      <3>2. CASE j \in 1..n
        BY <1>1, <1>3, <3>2 DEF Ordered, n
      <3> QED
        BY <2>1, <3>1, <3>2
    <2>3. ASSUME NEW j \in 1..(n + 1), NEW k \in 1..(n + 1), j < k PROVE v[j].end <= v[k].start
      <3>1. j \in 1..n
        BY <1>1, <2>3
      <3>2. CASE k = n + 1
        BY <1>1, <1>3, <3>1, <3>2
      <3>3. CASE k \in 1..n
        BY <1>1, <1>3, <2>3, <3>1, <3>3 DEF Ordered, n
      <3> QED
        BY <2>1, <3>2, <3>3
    <2> QED
      BY <1>1, <2>2, <2>3 DEF Ordered
  <1> QED
    BY <1>2, <1>3 DEF v, n

LEMMA ApartAppended ==
    ASSUME NEW u \in Seq(Entries), NEW e \in Entries, NEW s
    PROVE  AllApart(Append(u, e), s)
           <=> AllApart(u, s) /\ (Len(u) # 0 => Apart(u[Len(u)], e, s))
  <1> DEFINE v == Append(u, e)
             n == Len(u)
  <1>1. n \in Nat /\ Len(v) = n + 1 /\ (\A i \in 1..n : v[i] = u[i]) /\ v[n + 1] = e
    BY Appended
  <1> HIDE DEF v, n
  <1>2. Len(v) - 1 = n
    BY <1>1
  <1>3. ASSUME AllApart(v, s) PROVE AllApart(u, s) /\ (n # 0 => Apart(u[n], e, s))
    <2>1. \A j \in 1..n : Apart(v[j], v[j + 1], s)
      BY <1>2, <1>3 DEF AllApart
    <2>2. \A j \in 1..(n - 1) : j \in 1..n /\ j + 1 \in 1..n
      BY <1>1
    <2>3. \A j \in 1..(n - 1) : Apart(u[j], u[j + 1], s)
      BY <1>1, <2>1, <2>2
    <2>4. n # 0 => n \in 1..n
      BY <1>1
    <2> QED
      BY <1>1, <2>1, <2>3, <2>4 DEF AllApart, n
  <1>4. ASSUME AllApart(u, s), n # 0 => Apart(u[n], e, s) PROVE AllApart(v, s)
    <2>1. ASSUME NEW j \in 1..n PROVE Apart(v[j], v[j + 1], s)
      <3>1. CASE j = n
        BY <1>1, <1>4, <3>1
      <3>2. CASE j # n
        <4>1. j \in 1..(n - 1) /\ j + 1 \in 1..n
          BY <1>1, <3>2
        <4>2. Apart(u[j], u[j + 1], s)
          BY <1>4, <4>1 DEF AllApart, n
        <4> QED
          BY <1>1, <4>1, <4>2
      <3> QED
        BY <3>1, <3>2
    <2> QED
      BY <1>2, <2>1 DEF AllApart
  <1> QED
    BY <1>3, <1>4 DEF v, n
-----------------------------------------------------------------------------
(* The first pass.                                                         *)

\* One of the first i tokens has the name m and the rune at q.
Named(f, i, m, q) ==
    m # "" /\ \E k \in 1..i : PaletteName(f[k].type) = m /\ f[k].start <= q /\ q < f[k].start + f[k].length

Decoded(es, s, f, i, n) ==
    /\ es \in Seq(Entries) /\ Ordered(es, s)
    /\ \A j \in 1..Len(es) : \A k \in (i + 1)..n : es[j].end <= f[k].start
    /\ \A m, q : ShowsTo(es, Len(es), m, q) <=> Named(f, i, m, q)

LEMMA DecodedMore ==
    ASSUME NEW s, Len(s) \in Nat, NEW ts, Laid(s, ts), NEW i \in Nat, i + 1 <= Cardinality(ts),
           NEW es, Decoded(es, s, InOrder(ts), i, Cardinality(ts))
    PROVE  Decoded(More(es, EntryOf(InOrder(ts)[i + 1])), s, InOrder(ts), i + 1, Cardinality(ts))
  <1> DEFINE f == InOrder(ts)
             n == Cardinality(ts)
             t == f[i + 1]
             e == EntryOf(t)
  <1>1. n \in Nat /\ i + 1 \in 1..n
    BY OrderIs
  <1>2. e \in Entries /\ e.start < e.end /\ e.end <= Len(s)
    BY <1>1, ReadIs
  <1>3. e.name = PaletteName(t.type) /\ e.start = t.start /\ e.end = t.start + t.length
    BY DEF EntryOf
  <1>4. \A k \in ((i + 1) + 1)..n : e.end <= f[k].start
    <2>1. ASSUME NEW k \in ((i + 1) + 1)..n PROVE t.start + t.length <= f[k].start
      <3>1. k \in 1..n /\ i + 1 < k
        BY <1>1
      <3> QED
        BY <1>1, <3>1, OrderIs
    <2> QED
      BY <1>3, <2>1
  <1> HIDE DEF f, n, e
  <1>5. es \in Seq(Entries) /\ Ordered(es, s)
        /\ (\A j \in 1..Len(es) : \A k \in (i + 1)..n : es[j].end <= f[k].start)
        /\ \A m, q : ShowsTo(es, Len(es), m, q) <=> Named(f, i, m, q)
    BY DEF Decoded, f, n
  <1>6. \A k \in ((i + 1) + 1)..n : k \in (i + 1)..n
    BY <1>1
  <1>7. i + 1 \in (i + 1)..n
    BY <1>1
  <1>8. \A m, q : Named(f, i + 1, m, q) <=> Named(f, i, m, q) \/ (m # "" /\ e.name = m /\ Within(e, q))
    <2> SUFFICES ASSUME NEW m, NEW q
                 PROVE  Named(f, i + 1, m, q) <=> Named(f, i, m, q) \/ (m # "" /\ e.name = m /\ Within(e, q))
      OBVIOUS
    <2>1. \A k : k \in 1..(i + 1) <=> k \in 1..i \/ k = i + 1
      OBVIOUS
    <2>2. Within(e, q) <=> t.start <= q /\ q < t.start + t.length
      BY <1>3 DEF Within
    <2> QED
      BY <1>3, <2>1, <2>2 DEF Named
  <1>9. CASE e.name = ""
    <2>1. More(es, e) = es
      BY <1>9 DEF More
    <2>2. \A m, q : Named(f, i + 1, m, q) <=> Named(f, i, m, q)
      BY <1>8, <1>9
    <2>3. \A m, q : ShowsTo(es, Len(es), m, q) <=> Named(f, i + 1, m, q)
      BY <1>5, <2>2
    <2>4. Decoded(es, s, f, i + 1, n)
      BY <1>5, <1>6, <2>3 DEF Decoded
    <2> QED
      BY <2>1, <2>4 DEF e, f, n
  <1>10. CASE e.name # ""
    <2> DEFINE v == Append(es, e)
    <2>1. More(es, e) = v
      BY <1>10 DEF More
    <2>2. v \in Seq(Entries) /\ Len(v) = Len(es) + 1 /\ Len(es) \in Nat
          /\ (\A j \in 1..Len(es) : v[j] = es[j]) /\ v[Len(es) + 1] = e
      BY <1>2, <1>5, Appended
    <2>3. \A j \in 1..Len(es) : es[j].end <= e.start
      BY <1>3, <1>5, <1>7
    <2>4. Ordered(v, s)
      BY <1>2, <1>5, <2>3, OrderedAppended
    <2>5. \A m, q : ShowsTo(v, Len(es) + 1, m, q)
                    <=> ShowsTo(es, Len(es), m, q) \/ (e.name = m /\ Within(e, q))
      BY <1>2, <1>5, ShowsAppended
    <2> HIDE DEF v
    <2>6. \A m, q : ShowsTo(v, Len(v), m, q) <=> Named(f, i + 1, m, q)
      BY <1>5, <1>8, <1>10, <2>2, <2>5
    <2>7. ASSUME NEW j \in 1..Len(v), NEW k \in ((i + 1) + 1)..n PROVE v[j].end <= f[k].start
      <3>1. CASE j = Len(es) + 1
        BY <1>4, <2>2, <3>1
      <3>2. CASE j # Len(es) + 1
        <4>1. j \in 1..Len(es)
          BY <2>2, <3>2
        <4> QED
          BY <1>5, <1>6, <2>2, <4>1
      <3> QED
        BY <3>1, <3>2
    <2>8. Decoded(v, s, f, i + 1, n)
      BY <2>2, <2>4, <2>6, <2>7 DEF Decoded
    <2> QED
      BY <2>1, <2>8 DEF e, f, n
  <1> QED
    BY <1>9, <1>10

\* The entries are in order and give every rune the name of the token it is
\* in, if the palette has one for it.
LEMMA DecodeShows ==
    ASSUME NEW s, Len(s) \in Nat, NEW ts, Laid(s, ts)
    PROVE  Decoded(Decode(Encode(s, ts), s), s, InOrder(ts), Cardinality(ts), Cardinality(ts))
  <1> DEFINE f == InOrder(ts)
             n == Cardinality(ts)
  <1>1. n \in Nat
    BY OrderIs
  <1>2. PICK out : Reads(f, n, out) /\ Decode(Encode(s, ts), s) = out[n]
    BY DecodeIs
  <1>3. out[0] = <<>> /\ \A i \in 1..n : out[i] = More(out[i - 1], EntryOf(f[i]))
    BY <1>2 DEF Reads
  <1> DEFINE G == {i \in Nat : i <= n => Decoded(out[i], s, f, i, n)}
  <1>4. 0 \in G
    <2>1. PICK nil \in Seq(Entries) : nil = <<>>
      BY EmptySeq
    <2>2. Len(nil) = 0 /\ out[0] = nil
      BY <1>3, <2>1
    <2>3. \A j \in 1..0 : FALSE
      OBVIOUS
    <2> HIDE DEF f, n
    <2>4. Ordered(nil, s)
      BY <2>2, <2>3 DEF Ordered
    <2>5. \A m, q : ShowsTo(nil, Len(nil), m, q) <=> Named(f, 0, m, q)
      BY <2>2, <2>3 DEF ShowsTo, Named
    <2>6. Decoded(nil, s, f, 0, n)
      BY <2>1, <2>2, <2>3, <2>4, <2>5 DEF Decoded
    <2> QED
      BY <2>2, <2>6
  <1>5. ASSUME NEW i \in Nat, i \in G PROVE i + 1 \in G
    <2> SUFFICES ASSUME i + 1 <= n PROVE Decoded(out[i + 1], s, f, i + 1, n)
      OBVIOUS
    <2>1. i + 1 \in 1..n /\ (i + 1) - 1 = i /\ i <= n
      BY <1>1
    <2>2. Decoded(out[i], s, f, i, n)
      BY <1>5, <2>1
    <2>3. out[i + 1] = More(out[i], EntryOf(f[i + 1]))
      BY <1>3, <2>1
    <2> QED
      BY <2>2, <2>3, DecodedMore
  <1> HIDE DEF G
  <1>6. n \in G
    BY <1>1, <1>4, <1>5, Induction
  <1>7. Decoded(out[n], s, f, n, n)
    BY <1>1, <1>6 DEF G
  <1> QED
    BY <1>2, <1>7
-----------------------------------------------------------------------------
(* The second pass.                                                        *)

\* What becomes of an entry: it is a run of its own, or makes the last run
\* longer.
Lengthened(l, e) == [l EXCEPT !.end = e.end]

LEMMA JoinedIs ==
    ASSUME NEW out \in Seq(Entries), NEW e \in Entries, NEW s
    PROVE  /\ Joined(out, e, s) \in Seq(Entries)
           /\ \/ /\ Joined(out, e, s) = Append(out, e)
                 /\ Len(out) # 0 => ~(out[Len(out)].name = e.name /\ BlankLinesOnly(s, out[Len(out)].end, e.start))
              \/ \E u \in Seq(Entries), l \in Entries :
                    /\ out = Append(u, l) /\ l.name = e.name /\ BlankLinesOnly(s, l.end, e.start)
                    /\ Joined(out, e, s) = Append(u, Lengthened(l, e))
  <1>1. Len(out) \in Nat /\ (out # <<>> <=> Len(out) # 0)
    BY EmptySeq
  <1>2. CASE out # <<>> /\ Last(out).name = e.name /\ BlankLinesOnly(s, Last(out).end, e.start)
    <2>1. PICK u, l : u = Front(out) /\ l = Last(out)
      OBVIOUS
    <2>2. u \in Seq(Entries) /\ l \in Entries /\ out = Append(u, l)
      <3>1. Front(out) \in Seq(Entries) /\ Last(out) \in Entries
        <4>1. Front(out) \in Seq(Entries)
          <5>1. Len(out) - 1 \in 0..Len(out) /\ 0 \in 0..Len(out) /\ Len(out) - 1 \in 0..Len(out)
            BY <1>1, <1>2
          <5>2. Slice(out, 0, Len(out) - 1) \in Seq(Entries)
            BY <5>1, SliceIs
          <5> QED
            BY <5>2 DEF Slice, Front
        <4>2. Len(out) \in 1..Len(out)
          BY <1>1, <1>2
        <4>3. out[Len(out)] \in Entries
          BY <4>2, ElementOfSeq
        <4> QED
          BY <4>1, <4>3 DEF Last
      <3>2. Append(Front(out), Last(out)) = out
        <4>1. Front(out) = SubSeq(out, 1, Len(out) - 1) /\ Last(out) = out[Len(out)]
          BY DEF Front, Last
        <4>2. Len(out) # 0
          BY <1>1, <1>2
        <4> QED
          BY <1>1, <4>1, <4>2, SequenceEmptyOrAppend, AppendProperties
      <3> QED
        BY <2>1, <3>1, <3>2
    <2>3. Joined(out, e, s) = Append(u, Lengthened(l, e))
      BY <1>2, <2>1 DEF Joined, Lengthened
    <2>4. Lengthened(l, e) \in Entries
      BY <2>2 DEF Lengthened, Entries
    <2>5. Append(u, Lengthened(l, e)) \in Seq(Entries)
      BY <2>2, <2>4, AppendProperties
    <2>6. l.name = e.name /\ BlankLinesOnly(s, l.end, e.start)
      BY <1>2, <2>1
    <2> QED
      BY <2>2, <2>3, <2>5, <2>6
  <1>3. CASE ~(out # <<>> /\ Last(out).name = e.name /\ BlankLinesOnly(s, Last(out).end, e.start))
    <2>1. Joined(out, e, s) = Append(out, e)
      BY <1>3 DEF Joined
    <2>2. Append(out, e) \in Seq(Entries)
      BY AppendProperties
    <2>3. Len(out) # 0 => ~(out[Len(out)].name = e.name /\ BlankLinesOnly(s, out[Len(out)].end, e.start))
      BY <1>1, <1>3 DEF Last
    <2> QED
      BY <2>1, <2>2, <2>3
  <1> QED
    BY <1>2, <1>3

\* The lists that the second pass goes through.
Merges(es, s, out) ==
    /\ out \in [0..Len(es) -> Seq(Entries)] /\ out[0] = <<>>
    /\ \A i \in 1..Len(es) : out[i] = Joined(out[i - 1], es[i], s)

LEMMA MergeIs ==
    ASSUME NEW es \in Seq(Entries), NEW s
    PROVE  \E out : Merges(es, s, out) /\ Merge(es, s) = out[Len(es)]
  <1> DEFINE n == Len(es)
             c == CHOOSE c : c = [i \in 0..n |-> IF i = 0 THEN <<>> ELSE Joined(c[i - 1], es[i], s)]
  <1>1. n \in Nat /\ \A i \in 1..n : es[i] \in Entries
    BY ElementOfSeq
  <1>2. Merge(es, s) = c[n]
    BY DEF Merge
  <1> HIDE DEF n
  <1>3. PICK nil \in Seq(Entries) : nil = <<>>
    BY EmptySeq
  <1> DEFINE h == [p \in Nat \X Seq(Entries) |->
                     IF p[1] < n THEN Joined(p[2], es[p[1] + 1], s) ELSE p[2]]
  <1>4. h \in [Nat \X Seq(Entries) -> Seq(Entries)]
    <2>1. ASSUME NEW p \in Nat \X Seq(Entries), p[1] < n
          PROVE  Joined(p[2], es[p[1] + 1], s) \in Seq(Entries)
      <3>1. p[1] + 1 \in 1..n /\ p[2] \in Seq(Entries)
        BY <1>1, <2>1
      <3> QED
        BY <1>1, <3>1, JoinedIs
    <2>2. \A p \in Nat \X Seq(Entries) : p[2] \in Seq(Entries)
      OBVIOUS
    <2> QED
      BY <2>1, <2>2
  <1>5. PICK g : Begins(g, n, Seq(Entries), nil, h)
    <2> HIDE DEF h
    <2> QED
      BY <1>1, <1>4, Recursion
  <1>6. g \in [0..n -> Seq(Entries)] /\ g[0] = nil /\ \A k \in 0..(n - 1) : g[k + 1] = h[<<k, g[k]>>]
    BY <1>5 DEF Begins
  <1>7. ASSUME NEW i \in 1..n PROVE g[i] = Joined(g[i - 1], es[i], s)
    <2>1. i - 1 \in 0..(n - 1) /\ i - 1 \in 0..n /\ i - 1 \in Nat /\ i - 1 < n /\ (i - 1) + 1 = i
      BY <1>1
    <2>2. g[i] = h[<<i - 1, g[i - 1]>>]
      BY <1>6, <2>1
    <2>3. g[i - 1] \in Seq(Entries)
      BY <1>6, <2>1
    <2>4. \A p \in Nat \X Seq(Entries) : p[1] < n => h[p] = Joined(p[2], es[p[1] + 1], s)
      OBVIOUS
    <2>5. <<i - 1, g[i - 1]>> \in Nat \X Seq(Entries)
      BY <2>1, <2>3
    <2> HIDE DEF h
    <2> QED
      BY <2>1, <2>2, <2>4, <2>5
  <1> HIDE DEF h
  <1>8. g = [i \in 0..n |-> IF i = 0 THEN <<>> ELSE Joined(g[i - 1], es[i], s)]
    <2>1. ASSUME NEW i \in 0..n PROVE g[i] = IF i = 0 THEN <<>> ELSE Joined(g[i - 1], es[i], s)
      <3>1. CASE i = 0
        BY <1>3, <1>6, <3>1
      <3>2. CASE i # 0
        <4>1. i \in 1..n
          BY <3>2
        <4> QED
          BY <1>7, <3>2, <4>1
      <3> QED
        BY <3>1, <3>2
    <2> QED
      BY <1>6, <2>1
  <1>9. c = [i \in 0..n |-> IF i = 0 THEN <<>> ELSE Joined(c[i - 1], es[i], s)]
    BY <1>8
  <1> HIDE DEF c
  <1>10. \A i \in 0..n : c[i] = IF i = 0 THEN <<>> ELSE Joined(c[i - 1], es[i], s)
    BY <1>9
  <1>11. c[0] = <<>>
    <2>1. 0 \in 0..n
      BY <1>1
    <2> QED
      BY <1>10, <2>1
  <1>12. ASSUME NEW i \in 1..n PROVE c[i] = Joined(c[i - 1], es[i], s)
    <2>1. i \in 0..n /\ i # 0
      OBVIOUS
    <2> QED
      BY <1>10, <2>1
  <1> DEFINE G == {i \in Nat : i <= n => c[i] \in Seq(Entries)}
  <1>13. 0 \in G
    BY <1>3, <1>11
  <1>14. ASSUME NEW i \in Nat, i \in G PROVE i + 1 \in G
    <2> SUFFICES ASSUME i + 1 <= n PROVE c[i + 1] \in Seq(Entries)
      OBVIOUS
    <2>1. i + 1 \in 1..n /\ (i + 1) - 1 = i /\ i <= n
      BY <1>1
    <2>2. c[i] \in Seq(Entries) /\ es[i + 1] \in Entries
      BY <1>1, <1>14, <2>1
    <2>3. Joined(c[i], es[i + 1], s) \in Seq(Entries)
      BY <2>2, JoinedIs
    <2>4. c[i + 1] = Joined(c[(i + 1) - 1], es[i + 1], s)
      BY <1>12, <2>1
    <2> QED
      BY <2>1, <2>3, <2>4
  <1> HIDE DEF G
  <1>15. \A i \in Nat : i \in G
    BY <1>13, <1>14, Induction
  <1>16. c \in [0..n -> Seq(Entries)]
    <2>1. \A i \in 0..n : c[i] \in Seq(Entries)
      BY <1>15 DEF G
    <2> QED
      BY <1>9, <2>1
  <1>17. Merges(es, s, c)
    BY <1>11, <1>12, <1>16 DEF Merges, n
  <1> QED
    BY <1>2, <1>17 DEF n

\* The runs o that the first i of the entries es have become.
Merged(o, es, i, s) ==
    /\ o \in Seq(Entries) /\ Ordered(o, s) /\ AllApart(o, s)
    /\ IF i = 0 THEN Len(o) = 0 ELSE Len(o) # 0 /\ o[Len(o)].end = es[i].end
    /\ \A m : \A q \in 0..(Len(s) - 1) :
          s[q + 1] # "n" => (ShowsTo(o, Len(o), m, q) <=> ShowsTo(es, i, m, q))

LEMMA ShowsOneMore ==
    ASSUME NEW es, NEW i \in Nat, NEW m, NEW q
    PROVE  ShowsTo(es, i + 1, m, q) <=> ShowsTo(es, i, m, q) \/ (es[i + 1].name = m /\ Within(es[i + 1], q))
  <1>1. \A k : k \in 1..(i + 1) <=> k \in 1..i \/ k = i + 1
    OBVIOUS
  <1> QED
    BY <1>1 DEF ShowsTo

\* A run that is made longer covers the blank lines between, which have no
\* letter.
LEMMA LengthenedCovers ==
    ASSUME NEW s, Len(s) \in Nat, NEW l \in Entries, NEW e \in Entries, l.name = e.name,
           BlankLinesOnly(s, l.end, e.start), l.start < l.end, l.end <= e.start, e.start < e.end,
           e.end <= Len(s)
    PROVE  /\ Lengthened(l, e) \in Entries /\ Lengthened(l, e).name = l.name
           /\ Lengthened(l, e).start = l.start /\ Lengthened(l, e).end = e.end
           /\ \A q \in 0..(Len(s) - 1) : s[q + 1] # "n" =>
                (Within(Lengthened(l, e), q) <=> Within(l, q) \/ Within(e, q))
  <1> DEFINE r == Lengthened(l, e)
  <1>1. r \in Entries /\ r.name = l.name /\ r.start = l.start /\ r.end = e.end
    BY DEF Lengthened, Entries
  <1> HIDE DEF r
  <1>2. l.start \in Nat /\ l.end \in Nat /\ e.start \in Nat /\ e.end \in Nat
    BY DEF Entries
  <1>3. Min({e.start, Len(s)}) = e.start
    <2>1. e.start <= Len(s)
      BY <1>2
    <2> QED
      BY <1>2, <2>1, MinOfTwo
  <1>4. \A p \in (l.end + 1)..e.start : s[p] = "n"
    BY <1>3 DEF BlankLinesOnly
  <1>5. ASSUME NEW q \in 0..(Len(s) - 1), s[q + 1] # "n"
        PROVE  Within(r, q) <=> Within(l, q) \/ Within(e, q)
    <2>1. ~(l.end <= q /\ q < e.start)
      <3> SUFFICES ASSUME l.end <= q, q < e.start PROVE FALSE
        OBVIOUS
      <3>1. q + 1 \in (l.end + 1)..e.start
        BY <1>2
      <3> QED
        BY <1>4, <1>5, <3>1
    <2>2. l.start <= q /\ q < e.end <=> (l.start <= q /\ q < l.end) \/ (e.start <= q /\ q < e.end)
      BY <1>2, <2>1
    <2> QED
      BY <1>1, <2>2 DEF Within
  <1> QED
    BY <1>1, <1>5 DEF r

LEMMA MergedMore ==
    ASSUME NEW s, Len(s) \in Nat, NEW es \in Seq(Entries), Ordered(es, s),
           NEW i \in Nat, i + 1 <= Len(es), NEW o, Merged(o, es, i, s)
    PROVE  Merged(Joined(o, es[i + 1], s), es, i + 1, s)
  <1> DEFINE e == es[i + 1]
  <1>1. Len(es) \in Nat /\ i + 1 \in 1..Len(es) /\ i + 1 # 0
    OBVIOUS
  <1>2. e \in Entries /\ e.start < e.end /\ e.end <= Len(s)
    BY <1>1, ElementOfSeq DEF Ordered
  <1>3. i # 0 => es[i].end <= e.start
    <2>1. i # 0 => i \in 1..Len(es) /\ i < i + 1
      BY <1>1
    <2> QED
      BY <1>1, <2>1 DEF Ordered
  <1>4. \A m, q : ShowsTo(es, i + 1, m, q) <=> ShowsTo(es, i, m, q) \/ (e.name = m /\ Within(e, q))
    BY ShowsOneMore
  <1> HIDE DEF e
  <1>5. /\ o \in Seq(Entries) /\ Ordered(o, s) /\ AllApart(o, s) /\ Len(o) \in Nat
        /\ Len(o) # 0 <=> i # 0
        /\ Len(o) # 0 => o[Len(o)].end = es[i].end
    BY DEF Merged
  <1>6. \A m : \A q \in 0..(Len(s) - 1) :
          s[q + 1] # "n" => (ShowsTo(o, Len(o), m, q) <=> ShowsTo(es, i, m, q))
    BY DEF Merged
  <1>7. Len(o) # 0 => o[Len(o)] \in Entries /\ o[Len(o)].end <= e.start /\ e.start \in Nat
                      /\ \A j \in 1..Len(o) : o[j] \in Entries /\ o[j].end <= o[Len(o)].end
    <2> SUFFICES ASSUME Len(o) # 0
                 PROVE  o[Len(o)] \in Entries /\ o[Len(o)].end <= e.start /\ e.start \in Nat
                        /\ \A j \in 1..Len(o) : o[j] \in Entries /\ o[j].end <= o[Len(o)].end
      OBVIOUS
    <2>1. Len(o) \in 1..Len(o) /\ \A j \in 1..Len(o) : o[j] \in Entries
      BY <1>5, ElementOfSeq
    <2>2. ASSUME NEW j \in 1..Len(o) PROVE o[j].end <= o[Len(o)].end
      <3>1. o[j].end \in Nat /\ o[Len(o)].start \in Nat /\ o[Len(o)].end \in Nat
        BY <2>1 DEF Entries
      <3>2. CASE j = Len(o)
        BY <3>1, <3>2
      <3>3. CASE j # Len(o)
        <4>1. j < Len(o)
          BY <1>5, <3>3
        <4>2. o[j].end <= o[Len(o)].start /\ o[Len(o)].start < o[Len(o)].end
          BY <1>5, <2>1, <4>1 DEF Ordered
        <4> QED
          BY <3>1, <4>2
      <3> QED
        BY <3>2, <3>3
    <2>3. e.start \in Nat
      BY <1>2 DEF Entries
    <2> QED
      BY <1>3, <1>5, <2>1, <2>2, <2>3
  <1> DEFINE v == Joined(o, e, s)
  <1>8. CASE /\ v = Append(o, e)
             /\ Len(o) # 0 => ~(o[Len(o)].name = e.name /\ BlankLinesOnly(s, o[Len(o)].end, e.start))
    <2>1. v \in Seq(Entries) /\ Len(v) = Len(o) + 1 /\ v[Len(o) + 1] = e
      BY <1>2, <1>5, <1>8, Appended
    <2>2. Ordered(v, s)
      <3>1. \A j \in 1..Len(o) : o[j].end <= e.start
        <4> SUFFICES ASSUME NEW j \in 1..Len(o) PROVE o[j].end <= e.start
          OBVIOUS
        <4>1. Len(o) # 0
          BY <1>5
        <4>2. o[j].end \in Nat /\ o[Len(o)].end \in Nat
          BY <1>7, <4>1 DEF Entries
        <4> QED
          BY <1>7, <4>1, <4>2
      <3>2. Ordered(Append(o, e), s)
        BY <1>2, <1>5, <3>1, OrderedAppended
      <3> QED
        BY <1>8, <3>2
    <2>3. AllApart(v, s)
      <3>1. ASSUME Len(o) # 0 PROVE Apart(o[Len(o)], e, s)
        <4> SUFFICES ASSUME o[Len(o)].name = e.name
                     PROVE  \E q \in (o[Len(o)].end + 1)..e.start : s[q] # "n"
          BY DEF Apart
        <4>1. ~BlankLinesOnly(s, o[Len(o)].end, e.start)
          BY <1>8, <3>1
        <4>2. e.start \in Nat /\ e.start <= Len(s)
          <5>1. e.start \in Nat /\ e.end \in Nat
            BY <1>2 DEF Entries
          <5> QED
            BY <1>2, <5>1
        <4>3. Min({e.start, Len(s)}) = e.start
          BY <4>2, MinOfTwo
        <4> QED
          BY <4>1, <4>3 DEF BlankLinesOnly
      <3>2. AllApart(Append(o, e), s)
        BY <1>2, <1>5, <3>1, ApartAppended
      <3> QED
        BY <1>8, <3>2
    <2>4. ASSUME NEW m, NEW q \in 0..(Len(s) - 1), s[q + 1] # "n"
          PROVE  ShowsTo(v, Len(v), m, q) <=> ShowsTo(es, i + 1, m, q)
      <3>1. ShowsTo(Append(o, e), Len(o) + 1, m, q)
            <=> ShowsTo(o, Len(o), m, q) \/ (e.name = m /\ Within(e, q))
        BY <1>2, <1>5, ShowsAppended
      <3>2. ShowsTo(v, Len(v), m, q) <=> ShowsTo(o, Len(o), m, q) \/ (e.name = m /\ Within(e, q))
        BY <1>8, <2>1, <3>1
      <3>3. ShowsTo(o, Len(o), m, q) <=> ShowsTo(es, i, m, q)
        BY <1>6, <2>4
      <3> QED
        BY <1>4, <3>2, <3>3
    <2> HIDE DEF v
    <2>5. Len(v) # 0 /\ v[Len(v)].end = es[i + 1].end
      BY <1>5, <2>1 DEF e
    <2>6. Merged(v, es, i + 1, s)
      BY <1>1, <2>1, <2>2, <2>3, <2>4, <2>5 DEF Merged
    <2> QED
      BY <2>6 DEF v, e
  <1>9. CASE \E u \in Seq(Entries), l \in Entries :
                    /\ o = Append(u, l) /\ l.name = e.name /\ BlankLinesOnly(s, l.end, e.start)
                    /\ v = Append(u, Lengthened(l, e))
    <2> HIDE DEF v
    <2>1. PICK u \in Seq(Entries), l \in Entries :
                    /\ o = Append(u, l) /\ l.name = e.name /\ BlankLinesOnly(s, l.end, e.start)
                    /\ v = Append(u, Lengthened(l, e))
      BY <1>9
    <2>2. Len(o) = Len(u) + 1 /\ o[Len(u) + 1] = l /\ Len(u) \in Nat
      BY <2>1, Appended
    <2>3. l.end <= e.start
      BY <1>5, <1>7, <2>2
    <2>4. Ordered(u, s) /\ l.start < l.end /\ \A j \in 1..Len(u) : u[j].end <= l.start
      BY <1>5, <2>1, OrderedAppended
    <2>5. AllApart(u, s) /\ (Len(u) # 0 => Apart(u[Len(u)], l, s))
      BY <1>5, <2>1, ApartAppended
    <2> DEFINE r == Lengthened(l, e)
    <2>6. r \in Entries /\ r.name = l.name /\ r.start = l.start /\ r.end = e.end
          /\ \A q \in 0..(Len(s) - 1) : s[q + 1] # "n" => (Within(r, q) <=> Within(l, q) \/ Within(e, q))
      BY <1>2, <2>1, <2>3, <2>4, LengthenedCovers
    <2>7. v = Append(u, r)
      BY <2>1
    <2> HIDE DEF r
    <2>8. v \in Seq(Entries) /\ Len(v) = Len(u) + 1 /\ v[Len(u) + 1] = r
      BY <2>6, <2>7, Appended
    <2>9. Ordered(v, s)
      <3>1. l.start \in Nat /\ l.end \in Nat /\ e.start \in Nat /\ e.end \in Nat
        BY <1>2 DEF Entries
      <3>2. r.start < r.end /\ r.end <= Len(s)
        BY <1>2, <2>3, <2>4, <2>6, <3>1
      <3>3. \A j \in 1..Len(u) : u[j].end <= r.start
        BY <2>4, <2>6
      <3>4. Ordered(Append(u, r), s)
        BY <2>4, <2>6, <3>2, <3>3, OrderedAppended
      <3> QED
        BY <2>7, <3>4
    <2>10. AllApart(v, s)
      <3>1. Len(u) # 0 => Apart(u[Len(u)], r, s)
        BY <2>5, <2>6 DEF Apart
      <3>2. AllApart(Append(u, r), s)
        BY <2>5, <2>6, <3>1, ApartAppended
      <3> QED
        BY <2>7, <3>2
    <2>11. ASSUME NEW m, NEW q \in 0..(Len(s) - 1), s[q + 1] # "n"
          PROVE  ShowsTo(v, Len(v), m, q) <=> ShowsTo(es, i + 1, m, q)
      <3>1. ShowsTo(Append(u, r), Len(u) + 1, m, q)
            <=> ShowsTo(u, Len(u), m, q) \/ (r.name = m /\ Within(r, q))
        BY <2>6, ShowsAppended
      <3>2. ShowsTo(Append(u, l), Len(u) + 1, m, q)
            <=> ShowsTo(u, Len(u), m, q) \/ (l.name = m /\ Within(l, q))
        BY ShowsAppended
      <3>3. ShowsTo(v, Len(v), m, q) <=> ShowsTo(u, Len(u), m, q) \/ (r.name = m /\ Within(r, q))
        BY <2>7, <2>8, <3>1
      <3>4. ShowsTo(o, Len(o), m, q) <=> ShowsTo(u, Len(u), m, q) \/ (l.name = m /\ Within(l, q))
        BY <2>1, <2>2, <3>2
      <3>5. ShowsTo(o, Len(o), m, q) <=> ShowsTo(es, i, m, q)
        BY <1>6, <2>11
      <3>6. Within(r, q) <=> Within(l, q) \/ Within(e, q)
        BY <2>6, <2>11
      <3>7. ShowsTo(es, i + 1, m, q) <=> ShowsTo(es, i, m, q) \/ (e.name = m /\ Within(e, q))
        BY <1>4
      <3>8. r.name = e.name /\ l.name = e.name
        BY <2>1, <2>6
      <3> QED
        BY <3>3, <3>4, <3>5, <3>6, <3>7, <3>8
    <2>12. Len(v) # 0 /\ v[Len(v)].end = es[i + 1].end
      BY <2>2, <2>6, <2>8 DEF e
    <2>13. Merged(v, es, i + 1, s)
      BY <1>1, <2>8, <2>9, <2>10, <2>11, <2>12 DEF Merged
    <2> QED
      BY <2>13 DEF v, e
  <1> QED
    <2>1. \/ /\ v = Append(o, e)
             /\ Len(o) # 0 => ~(o[Len(o)].name = e.name /\ BlankLinesOnly(s, o[Len(o)].end, e.start))
          \/ \E u \in Seq(Entries), l \in Entries :
                    /\ o = Append(u, l) /\ l.name = e.name /\ BlankLinesOnly(s, l.end, e.start)
                    /\ v = Append(u, Lengthened(l, e))
      BY <1>2, <1>5, JoinedIs
    <2> QED
      BY <1>8, <1>9, <2>1

LEMMA MergeShows ==
    ASSUME NEW s, Len(s) \in Nat, NEW es \in Seq(Entries), Ordered(es, s)
    PROVE  Merged(Merge(es, s), es, Len(es), s)
  <1> DEFINE n == Len(es)
  <1>1. n \in Nat
    OBVIOUS
  <1>2. PICK out : Merges(es, s, out) /\ Merge(es, s) = out[n]
    BY MergeIs
  <1>3. out[0] = <<>> /\ \A i \in 1..n : out[i] = Joined(out[i - 1], es[i], s)
    BY <1>2 DEF Merges
  <1> DEFINE G == {i \in Nat : i <= n => Merged(out[i], es, i, s)}
  <1>4. 0 \in G
    <2>1. PICK nil \in Seq(Entries) : nil = <<>>
      BY EmptySeq
    <2>2. Len(nil) = 0 /\ out[0] = nil
      BY <1>3, <2>1
    <2>3. (\A j \in 1..0 : FALSE) /\ (\A j \in 1..(0 - 1) : FALSE)
      OBVIOUS
    <2>4. Ordered(nil, s) /\ AllApart(nil, s)
      BY <2>2, <2>3 DEF Ordered, AllApart
    <2>5. \A m, q : ShowsTo(nil, Len(nil), m, q) <=> ShowsTo(es, 0, m, q)
      BY <2>2, <2>3 DEF ShowsTo
    <2>6. Merged(nil, es, 0, s)
      BY <2>1, <2>2, <2>4, <2>5 DEF Merged
    <2> QED
      BY <2>2, <2>6
  <1>5. ASSUME NEW i \in Nat, i \in G PROVE i + 1 \in G
    <2> SUFFICES ASSUME i + 1 <= n PROVE Merged(out[i + 1], es, i + 1, s)
      OBVIOUS
    <2>1. i + 1 \in 1..n /\ (i + 1) - 1 = i /\ i <= n
      BY <1>1
    <2>2. Merged(out[i], es, i, s)
      BY <1>5, <2>1
    <2>3. out[i + 1] = Joined(out[i], es[i + 1], s)
      BY <1>3, <2>1
    <2> QED
      BY <2>2, <2>3, MergedMore
  <1> HIDE DEF G
  <1>6. n \in G
    BY <1>1, <1>4, <1>5, Induction
  <1>7. Merged(out[n], es, n, s)
    BY <1>1, <1>6 DEF G
  <1> QED
    BY <1>2, <1>7
-----------------------------------------------------------------------------
(* What the window shows.                                                  *)

\* The runs show the tokens ts of the text s.
Shown(runs, s, ts) ==
    /\ runs \in Seq(Entries) /\ Ordered(runs, s) /\ AllApart(runs, s)
    /\ \A m : \A q \in 0..(Len(s) - 1) : s[q + 1] # "n" =>
          (ShowsTo(runs, Len(runs), m, q)
           <=> m # "" /\ \E t \in ts : PaletteName(t.type) = m /\ t.start <= q /\ q < t.start + t.length)

LEMMA ShownIs ==
    ASSUME NEW s, Len(s) \in Nat, NEW ts, Laid(s, ts)
    PROVE  Shown(StyleEntries(Encode(s, ts), s), s, ts)
  <1> DEFINE f == InOrder(ts)
             n == Cardinality(ts)
             es == Decode(Encode(s, ts), s)
             runs == Merge(es, s)
  <1>1. Decoded(es, s, f, n, n)
    BY DecodeShows
  <1>2. f \in [1..n -> ts] /\ \A t \in ts : \E k \in 1..n : f[k] = t
    BY OrderIs
  <1>3. StyleEntries(Encode(s, ts), s) = runs
    BY DEF StyleEntries
  <1> HIDE DEF f, n, es
  <1>4. es \in Seq(Entries) /\ Ordered(es, s) /\ \A m, q : ShowsTo(es, Len(es), m, q) <=> Named(f, n, m, q)
    BY <1>1 DEF Decoded
  <1>5. Merged(runs, es, Len(es), s)
    BY <1>4, MergeShows
  <1> HIDE DEF runs
  <1>6. runs \in Seq(Entries) /\ Ordered(runs, s) /\ AllApart(runs, s)
        /\ \A m : \A q \in 0..(Len(s) - 1) :
             s[q + 1] # "n" => (ShowsTo(runs, Len(runs), m, q) <=> ShowsTo(es, Len(es), m, q))
    BY <1>5 DEF Merged
  <1>7. \A m, q : Named(f, n, m, q)
          <=> m # "" /\ \E t \in ts : PaletteName(t.type) = m /\ t.start <= q /\ q < t.start + t.length
    BY <1>2 DEF Named
  <1>8. Shown(runs, s, ts)
    BY <1>4, <1>6, <1>7 DEF Shown
  <1> QED
    BY <1>3, <1>8

ShownInv == fresh => Shown(entries, body, tokens)

LEMMA NothingShown ==
    ASSUME NEW s, Len(s) \in Nat
    PROVE  Shown(<<>>, s, {})
  <1>1. PICK nil \in Seq(Entries) : nil = <<>>
    BY EmptySeq
  <1>2. Len(nil) = 0
    BY <1>1
  <1>3. \A j : j \notin 1..Len(nil)
    BY <1>2
  <1>4. Ordered(nil, s)
    BY <1>3 DEF Ordered
  <1>5. AllApart(nil, s)
    BY <1>2 DEF AllApart
  <1>6. \A m, q : ~ShowsTo(nil, Len(nil), m, q)
    BY <1>3 DEF ShowsTo
  <1>7. Shown(nil, s, {})
    BY <1>4, <1>5, <1>6 DEF Shown
  <1> QED
    BY <1>1, <1>7

LEMMA ShownInit == Init => ShownInv
  BY DEF Init, ShownInv

LEMMA ShownNext == DocumentInv /\ DataIsTheServers /\ ShownInv /\ [Next]_vars => ShownInv'
  <1> SUFFICES ASSUME DocumentInv, DataIsTheServers, ShownInv, [Next]_vars PROVE ShownInv'
    OBVIOUS
  <1>1. CASE Type \/ FindToken
    BY <1>1 DEF Type, FindToken, ShownInv
  <1>2. CASE ApplyFull \/ ApplyDelta
    <2>1. PICK s \in Seq(Rune) : s = body
      BY DEF DocumentInv
    <2>2. PICK ts : ts = tokens
      OBVIOUS
    <2>3. Len(s) \in Nat /\ Laid(s, ts)
      BY <2>1, <2>2 DEF DocumentInv
    <2>4. Shown(StyleEntries(Encode(s, ts), s), s, ts)
      BY <2>3, ShownIs
    <2>5. /\ entries' = StyleEntries(Encode(s, ts), s) \/ (ts = {} /\ entries' = <<>>)
          /\ body' = s /\ tokens' = ts
      <3>1. Answers
        BY <1>2, EveryAnswer
      <3> QED
        BY <2>1, <2>2, <3>1 DEF Answers
    <2>6. Shown(entries', body', tokens')
      BY <2>3, <2>4, <2>5, NothingShown
    <2> QED
      BY <2>6 DEF ShownInv
  <1>3. CASE UNCHANGED vars
    BY <1>3 DEF vars, cached, ShownInv
  <1> QED
    BY <1>1, <1>2, <1>3 DEF Next

LEMMA ShownJoined == ShownInv => RunsAreJoined
  <1> SUFFICES ASSUME ShownInv, fresh PROVE RunsAreJoined
    BY DEF RunsAreJoined
  <1>1. PICK s, ts, runs : s = body /\ ts = tokens /\ runs = entries
    OBVIOUS
  <1>2. Shown(runs, s, ts)
    BY <1>1 DEF ShownInv
  <1>3. Len(runs) \in Nat /\ Ordered(runs, s) /\ AllApart(runs, s)
    <2>1. runs \in Seq(Entries) /\ Ordered(runs, s) /\ AllApart(runs, s)
      BY <1>2, Zenon DEF Shown
    <2> QED
      BY <2>1
  <1>4. ASSUME NEW i \in 1..(Len(runs) - 1)
        PROVE  /\ runs[i].start < runs[i].end /\ runs[i].end <= runs[i + 1].start
               /\ runs[i].name = runs[i + 1].name
                    => \E q \in (runs[i].end + 1)..runs[i + 1].start : s[q] # "n"
    <2>1. i \in 1..Len(runs) /\ i + 1 \in 1..Len(runs) /\ i < i + 1
      BY <1>3
    <2>2. runs[i].start < runs[i].end /\ runs[i].end <= runs[i + 1].start
      BY <1>3, <2>1 DEF Ordered
    <2>3. Apart(runs[i], runs[i + 1], s)
      BY <1>3 DEF AllApart
    <2> QED
      BY <2>2, <2>3 DEF Apart
  <1> QED
    BY <1>1, <1>4 DEF RunsAreJoined

LEMMA ShownStyles == ShownInv => LettersHaveTheirStyle
  <1> SUFFICES ASSUME ShownInv, fresh PROVE LettersHaveTheirStyle
    BY DEF LettersHaveTheirStyle
  <1>1. PICK s, ts, runs : s = body /\ ts = tokens /\ runs = entries
    OBVIOUS
  <1>2. Shown(runs, s, ts)
    BY <1>1 DEF ShownInv
  <1>3. DOMAIN runs = 1..Len(runs)
    <2>1. runs \in Seq(Entries)
      BY <1>2, Zenon DEF Shown
    <2> QED
      BY <2>1
  <1>4. ASSUME NEW q \in 0..(Len(s) - 1), s[q + 1] # "n" PROVE ShownAt(q) = NamesAt(q)
    <2>1. \A m : m \in ShownAt(q) <=> ShowsTo(runs, Len(runs), m, q)
      BY <1>1, <1>3 DEF ShownAt, ShowsTo, Within
    <2>2. \A m : m \in NamesAt(q)
            <=> m # "" /\ \E t \in ts : PaletteName(t.type) = m /\ t.start <= q /\ q < t.start + t.length
      BY <1>1 DEF NamesAt
    <2>3. \A m : ShowsTo(runs, Len(runs), m, q)
            <=> m # "" /\ \E t \in ts : PaletteName(t.type) = m /\ t.start <= q /\ q < t.start + t.length
      BY <1>2, <1>4 DEF Shown
    <2>4. \A m : m \in ShownAt(q) <=> m \in NamesAt(q)
      BY <2>1, <2>2, <2>3
    <2> QED
      BY <2>4
  <1> QED
    BY <1>1, <1>4 DEF LettersHaveTheirStyle

\* However long the document is and however many tokens it has, runs that are
\* on the window are in order, and those of one name that follow each other
\* have a letter between them: a token that the server cut at line ends is one
\* run again (style.go:184-204).
THEOREM RunsAreOne == Spec => []RunsAreJoined
  BY DocumentInit, DocumentNext, DataInit, DataNext, ShownInit, ShownNext, ShownJoined, PTL DEF Spec

\* Every letter has the style of the token it is in and no other: reading
\* back the relative positions, leaving out the tokens without a name, and
\* joining runs over blank lines lose none and add none (style.go:153-204).
THEOREM StylesAreRight == Spec => []LettersHaveTheirStyle
  BY DocumentInit, DocumentNext, DataInit, DataNext, ShownInit, ShownNext, ShownStyles, PTL DEF Spec
=============================================================================

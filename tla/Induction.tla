----------------------------- MODULE Induction -----------------------------
(***************************************************************************)
(* Induction over the natural numbers, stated of sets; functions defined   *)
(* by recursion; and what FlattenSeq computes.                             *)
(***************************************************************************)
EXTENDS Naturals, SequencesExt, SequenceTheorems, WellFoundedInduction, NaturalsInduction, TLAPS

\* Any nonempty set of numbers has a least one.
LEMMA Least ==
    ASSUME NEW S \in SUBSET Nat, S # {}
    PROVE  \E m \in S : \A n \in S : m <= n
<1>1. PICK m \in S : \A n \in S : ~(<<n, m>> \in OpToRel(<, Nat))
  <2>1. IsWellFoundedOn(OpToRel(<, Nat), Nat)
    BY NatLessThanWellFounded
  <2> QED BY <2>1, WFMin
<1>2. \A n \in S : ~(n < m)
  BY <1>1 DEF OpToRel
<1> QED BY <1>2

\* A set that contains 0 and the successor of each of its numbers has them all.
LEMMA EveryNumber ==
    ASSUME NEW T, 0 \in T, \A n \in Nat : n \in T => n + 1 \in T
    PROVE  Nat \subseteq T
<1> SUFFICES ASSUME Nat \ T # {} PROVE FALSE
  OBVIOUS
<1>1. PICK S : S = Nat \ T
  OBVIOUS
<1>2. PICK x \in S : \A y \in S : x <= y
  BY <1>1, Least
<1>3. x - 1 \in Nat /\ x - 1 < x /\ x - 1 + 1 = x
  BY <1>1
<1>4. x - 1 \in T
  BY <1>1, <1>2, <1>3
<1> QED BY <1>1, <1>3, <1>4

-----------------------------------------------------------------------------
(***************************************************************************)
(* FlattenSeq.  f holds what the first 0, 1, ..., n sequences of s give.   *)
(***************************************************************************)
Joins(k, s, f) == f[k] = f[k - 1] \o s[k]
JoinsTo(n, s, f) ==
    /\ f[0] = <<>>
    /\ \A k \in 1..n : Joins(k, s, f)
Joinable(A, n, s) == n <= Len(s) => \E f \in [0..n -> Seq(A)] : JoinsTo(n, s, f)

LEMMA JoinsExist ==
    ASSUME NEW A, NEW s \in Seq(Seq(A))
    PROVE  \E f \in [0..Len(s) -> Seq(A)] : JoinsTo(Len(s), s, f)
<1>1. Len(s) \in Nat /\ \A k \in 1..Len(s) : s[k] \in Seq(A)
  BY LenProperties, ElementOfSeq
<1>2. PICK T : T = {n \in Nat : Joinable(A, n, s)}
  OBVIOUS
<1>3. 0 \in T
  <2>1. PICK f : f = [k \in 0..0 |-> <<>>]
    OBVIOUS
  <2>2. f \in [0..0 -> Seq(A)] /\ JoinsTo(0, s, f)
    BY <2>1, EmptySeq DEF JoinsTo
  <2> QED BY <1>2, <2>2 DEF Joinable
<1>4. ASSUME NEW n \in Nat, n \in T PROVE n + 1 \in T
  <2>1. SUFFICES ASSUME n + 1 <= Len(s)
                 PROVE  \E f \in [0..(n + 1) -> Seq(A)] : JoinsTo(n + 1, s, f)
    <3>1. Joinable(A, n + 1, s)
      BY DEF Joinable
    <3> QED BY <1>2, <3>1
  <2>2. PICK f \in [0..n -> Seq(A)] : JoinsTo(n, s, f)
    <3>1. Joinable(A, n, s) /\ n <= Len(s)
      BY <1>1, <1>2, <1>4, <2>1
    <3> QED BY <3>1 DEF Joinable
  <2>3. PICK x : x = f[n] \o s[n + 1] /\ x \in Seq(A)
    <3>1. f[n] \in Seq(A) /\ s[n + 1] \in Seq(A)
      BY <1>1, <2>1, <2>2
    <3> QED BY <3>1, ConcatProperties
  <2>4. PICK g : g = [k \in 0..(n + 1) |-> IF k = n + 1 THEN x ELSE f[k]]
    OBVIOUS
  <2>5. g \in [0..(n + 1) -> Seq(A)]
    BY <2>2, <2>3, <2>4
  <2>6. ASSUME NEW k \in 1..(n + 1) PROVE Joins(k, s, g)
    <3>1. CASE k = n + 1
      <4>1. k - 1 = n /\ n \in 0..(n + 1) /\ n # n + 1 /\ k \in 0..(n + 1)
        BY <3>1
      <4>2. g[k] = x /\ g[k - 1] = f[n]
        BY <2>4, <3>1, <4>1
      <4> QED BY <2>3, <3>1, <4>2 DEF Joins
    <3>2. CASE k # n + 1
      <4>1. k \in 1..n /\ k \in 0..(n + 1) /\ k - 1 \in 0..(n + 1) /\ k - 1 # n + 1
        BY <3>2
      <4>2. g[k] = f[k] /\ g[k - 1] = f[k - 1]
        BY <2>4, <3>2, <4>1
      <4>3. Joins(k, s, f)
        BY <2>2, <4>1 DEF JoinsTo
      <4> QED BY <4>2, <4>3 DEF Joins
    <3> QED BY <3>1, <3>2
  <2>7. g[0] = <<>>
    <3>1. 0 \in 0..(n + 1) /\ 0 # n + 1
      OBVIOUS
    <3> QED BY <2>2, <2>4, <3>1 DEF JoinsTo
  <2> QED BY <2>5, <2>6, <2>7 DEF JoinsTo
<1>5. Len(s) \in T
  BY <1>1, <1>3, <1>4, EveryNumber
<1> QED BY <1>1, <1>2, <1>5 DEF Joinable

LEMMA JoinsAgree ==
    ASSUME NEW s, NEW n \in Nat, NEW f, NEW g, JoinsTo(n, s, f), JoinsTo(n, s, g)
    PROVE  \A k \in 0..n : f[k] = g[k]
<1>1. PICK T : T = {k \in Nat : k <= n => f[k] = g[k]}
  OBVIOUS
<1>2. 0 \in T
  BY <1>1 DEF JoinsTo
<1>3. ASSUME NEW k \in Nat, k \in T PROVE k + 1 \in T
  <2>1. SUFFICES ASSUME k + 1 <= n PROVE f[k + 1] = g[k + 1]
    BY <1>1
  <2>2. f[k] = g[k]
    BY <1>1, <1>3, <2>1
  <2>3. k + 1 \in 1..n /\ k + 1 - 1 = k
    BY <2>1
  <2>4. Joins(k + 1, s, f) /\ Joins(k + 1, s, g)
    BY <2>3 DEF JoinsTo
  <2>5. f[k + 1] = f[k] \o s[k + 1] /\ g[k + 1] = g[k] \o s[k + 1]
    BY <2>3, <2>4 DEF Joins
  <2> QED BY <2>2, <2>5
<1>4. \A k \in Nat : k \in T
  BY <1>2, <1>3, EveryNumber
<1> QED BY <1>1, <1>4

LEMMA JoinsFlatten ==
    ASSUME NEW A, NEW s \in Seq(Seq(A)), NEW f, JoinsTo(Len(s), s, f)
    PROVE  FlattenSeq(s) = f[Len(s)]
<1>1. PICK n \in Nat : n = Len(s)
  BY LenProperties
<1>2. CASE n = 0
  <2>1. s = <<>>
    BY <1>1, <1>2, EmptySeq
  <2> QED BY <1>1, <1>2, <2>1 DEF FlattenSeq, JoinsTo
<1>3. CASE n # 0
  <2>1. PICK g \in [0..n -> Seq(A)] : JoinsTo(n, s, g)
    BY <1>1, JoinsExist
  <2>2. g[n] = f[n]
    <3>1. \A k \in 0..n : g[k] = f[k]
      BY <1>1, <2>1, JoinsAgree
    <3> QED BY <3>1
  <2>3. PICK h : h = [k \in 1..n |-> g[k]]
    OBVIOUS
  <2>4. h = [k \in 1..n |-> IF k = 1 THEN s[k] ELSE h[k - 1] \o s[k]]
    <3>1. ASSUME NEW k \in 1..n
          PROVE  h[k] = IF k = 1 THEN s[k] ELSE h[k - 1] \o s[k]
      <4>1. h[k] = g[k - 1] \o s[k]
        <5>1. Joins(k, s, g)
          BY <2>1 DEF JoinsTo
        <5> QED BY <2>3, <5>1 DEF Joins
      <4>2. CASE k = 1
        <5>1. k - 1 = 0 /\ s[k] \in Seq(A)
          BY <1>1, <4>2, ElementOfSeq
        <5>2. g[k - 1] = <<>>
          BY <2>1, <5>1 DEF JoinsTo
        <5> QED BY <4>1, <4>2, <5>1, <5>2, ConcatEmptySeq
      <4>3. CASE k # 1
        <5>1. k - 1 \in 1..n
          BY <4>3
        <5> QED BY <2>3, <4>1, <4>3, <5>1
      <4> QED BY <4>2, <4>3
    <3> QED BY <2>3, <3>1
  <2>5. ASSUME NEW e, e = [k \in 1..n |-> IF k = 1 THEN s[k] ELSE e[k - 1] \o s[k]]
        PROVE  e[n] = f[n]
    <3>1. PICK d : d = [k \in 0..n |-> IF k = 0 THEN <<>> ELSE e[k]]
      OBVIOUS
    <3>2. ASSUME NEW k \in 1..n PROVE Joins(k, s, d)
      <4>1. d[k] = IF k = 1 THEN s[k] ELSE e[k - 1] \o s[k]
        <5>1. k \in 0..n /\ k # 0
          OBVIOUS
        <5>2. e[k] = IF k = 1 THEN s[k] ELSE e[k - 1] \o s[k]
          BY <2>5
        <5> QED BY <3>1, <5>1, <5>2
      <4>2. CASE k = 1
        <5>1. k - 1 = 0 /\ 0 \in 0..n /\ s[k] \in Seq(A)
          BY <1>1, <4>2, ElementOfSeq
        <5>2. d[k - 1] = <<>>
          BY <3>1, <5>1
        <5>3. d[k] = <<>> \o s[k]
          BY <4>1, <4>2, <5>1, ConcatEmptySeq
        <5> QED BY <5>2, <5>3 DEF Joins
      <4>3. CASE k # 1
        <5>1. k - 1 \in 0..n /\ k - 1 # 0
          BY <4>3
        <5>2. d[k - 1] = e[k - 1]
          BY <3>1, <5>1
        <5> QED BY <4>1, <4>3, <5>2 DEF Joins
      <4> QED BY <4>2, <4>3
    <3>3. JoinsTo(n, s, d)
      <4>1. d[0] = <<>>
        BY <3>1
      <4> QED BY <3>2, <4>1 DEF JoinsTo
    <3>4. d[n] = f[n]
      <4>1. JoinsTo(n, s, f)
        BY <1>1
      <4>2. \A k \in 0..n : d[k] = f[k]
        BY <3>3, <4>1, JoinsAgree
      <4>3. n \in 0..n
        OBVIOUS
      <4> QED BY <4>2, <4>3
    <3>5. n \in 0..n /\ d[n] = e[n]
      BY <1>3, <3>1
    <3> QED BY <3>4, <3>5
  <2>6. PICK c : c = CHOOSE e : e = [k \in 1..n |-> IF k = 1 THEN s[k] ELSE e[k - 1] \o s[k]]
    OBVIOUS
  <2>7. c = [k \in 1..n |-> IF k = 1 THEN s[k] ELSE c[k - 1] \o s[k]]
    BY <2>4, <2>6
  <2>8. FlattenSeq(s) = c[n]
    BY <1>1, <1>3, <2>6 DEF FlattenSeq
  <2> QED BY <1>1, <2>5, <2>7, <2>8
<1> QED BY <1>2, <1>3

LEMMA Flattens ==
    ASSUME NEW A, NEW s \in Seq(Seq(A))
    PROVE  \E f : /\ \A k \in 0..Len(s) : f[k] \in Seq(A)
                 /\ JoinsTo(Len(s), s, f)
                 /\ FlattenSeq(s) = f[Len(s)]
<1>1. PICK f \in [0..Len(s) -> Seq(A)] : JoinsTo(Len(s), s, f)
  BY JoinsExist
<1>2. FlattenSeq(s) = f[Len(s)]
  BY <1>1, JoinsFlatten
<1> QED BY <1>1, <1>2

LEMMA FlattenEmpty == FlattenSeq(<<>>) = <<>>
BY EmptySeq DEF FlattenSeq

\* Sequences over A join to a sequence over A.
LEMMA FlattenType ==
    ASSUME NEW A, NEW s \in Seq(Seq(A))
    PROVE  FlattenSeq(s) \in Seq(A)
<1>1. PICK f : /\ \A k \in 0..Len(s) : f[k] \in Seq(A)
               /\ FlattenSeq(s) = f[Len(s)]
  BY Flattens
<1>2. Len(s) \in 0..Len(s)
  BY LenProperties
<1> QED BY <1>1, <1>2

LEMMA FlattenAppend ==
    ASSUME NEW A, NEW s \in Seq(Seq(A)), NEW x \in Seq(A)
    PROVE  FlattenSeq(Append(s, x)) = FlattenSeq(s) \o x
<1>1. PICK n, t : n = Len(s) /\ t = Append(s, x)
  OBVIOUS
<1>2. /\ n \in Nat /\ t \in Seq(Seq(A)) /\ Len(t) = n + 1
      /\ t[n + 1] = x /\ \A k \in 1..n : t[k] = s[k]
  BY <1>1, AppendProperties, LenProperties
<1>3. PICK f : JoinsTo(n + 1, t, f) /\ FlattenSeq(t) = f[n + 1]
  BY <1>2, Flattens
<1>4. JoinsTo(n, s, f)
  <2>1. ASSUME NEW k \in 1..n PROVE Joins(k, s, f)
    <3>1. k \in 1..(n + 1)
      BY <1>2
    <3>2. Joins(k, t, f)
      BY <1>3, <3>1 DEF JoinsTo
    <3> QED BY <1>2, <3>2 DEF Joins
  <2> QED BY <1>3, <2>1 DEF JoinsTo
<1>5. FlattenSeq(s) = f[n]
  BY <1>1, <1>4, JoinsFlatten
<1>6. Joins(n + 1, t, f)
  <2>1. n + 1 \in 1..(n + 1)
    BY <1>2
  <2> QED BY <1>3, <2>1 DEF JoinsTo
<1>7. f[n + 1] = f[n] \o x
  <2>1. n + 1 - 1 = n
    BY <1>2
  <2> QED BY <1>2, <1>6, <2>1 DEF Joins
<1> QED BY <1>1, <1>3, <1>5, <1>7

LEMMA Associate ==
    ASSUME NEW A, NEW a \in Seq(A), NEW b \in Seq(A), NEW c \in Seq(A)
    PROVE  (a \o b) \o c = a \o (b \o c)
BY ConcatAssociative

\* What a longer list joins to, from its two halves.
LEMMA FlattenConcat ==
    ASSUME NEW A, NEW s \in Seq(Seq(A)), NEW t \in Seq(Seq(A))
    PROVE  FlattenSeq(s \o t) = FlattenSeq(s) \o FlattenSeq(t)
<1>1. PICK m, n, u : m = Len(s) /\ n = Len(t) /\ u = s \o t
  OBVIOUS
<1>2. /\ m \in Nat /\ n \in Nat /\ u \in Seq(Seq(A)) /\ Len(u) = m + n
      /\ \A k \in 1..m : u[k] = s[k]
      /\ \A k \in 1..n : u[m + k] = t[k]
  BY <1>1, LenProperties, ConcatProperties
<1>3. PICK f : /\ \A k \in 0..m : f[k] \in Seq(A)
               /\ JoinsTo(m, s, f) /\ FlattenSeq(s) = f[m]
  BY <1>1, Flattens
<1>4. PICK g : /\ \A k \in 0..n : g[k] \in Seq(A)
               /\ JoinsTo(n, t, g) /\ FlattenSeq(t) = g[n]
  BY <1>1, Flattens
<1> DEFINE Shifted(k) == f[m] \o g[k]
<1> HIDE DEF Shifted
<1>0. PICK e : e = [k \in 0..n |-> Shifted(k)]
  OBVIOUS
<1>5. PICK h : h = [k \in 0..(m + n) |-> IF k <= m THEN f[k] ELSE e[k - m]]
  OBVIOUS
<1>6. f[m] \in Seq(A) /\ \A k \in 0..n : g[k] \in Seq(A)
  <2>1. m \in 0..m
    BY <1>2
  <2> QED BY <1>3, <1>4, <2>1
<1>7. h[0] = <<>>
  BY <1>2, <1>3, <1>5 DEF JoinsTo
<1>8. ASSUME NEW k \in 1..(m + n) PROVE Joins(k, u, h)
  <2>1. CASE k <= m
    <3>1. k \in 1..m /\ k - 1 <= m /\ k \in 0..(m + n) /\ k - 1 \in 0..(m + n)
      BY <1>2, <2>1
    <3>2. Joins(k, s, f)
      BY <1>3, <3>1 DEF JoinsTo
    <3>3. h[k] = f[k] /\ h[k - 1] = f[k - 1] /\ u[k] = s[k]
      BY <1>2, <1>5, <2>1, <3>1
    <3> QED BY <3>2, <3>3 DEF Joins
  <2>2. CASE ~(k <= m)
    <3>1. PICK j \in 1..n : k = m + j
      <4>1. k - m \in 1..n /\ k = m + (k - m)
        BY <1>2, <2>2
      <4> QED BY <4>1
    <3>2. j \in 0..n /\ j - 1 \in 0..n /\ k - m = j /\ k - 1 - m = j - 1
      BY <1>2, <3>1
    <3>3. g[j] = g[j - 1] \o t[j]
      <4>1. Joins(j, t, g)
        BY <1>4 DEF JoinsTo
      <4> QED BY <4>1 DEF Joins
    <3>4. h[k] = f[m] \o g[j]
      <4>1. h[k] = e[k - m]
        BY <1>2, <1>5, <2>2
      <4>2. e[j] = Shifted(j)
        BY <1>0, <3>2
      <4> QED BY <3>2, <4>1, <4>2 DEF Shifted
    <3>5. h[k - 1] = f[m] \o g[j - 1]
      <4>1. CASE j = 1
        <5>1. k - 1 \in 0..(m + n) /\ k - 1 <= m /\ k - 1 = m /\ j - 1 = 0
          BY <1>2, <3>1, <4>1
        <5>2. h[k - 1] = f[m] /\ g[j - 1] = <<>>
          BY <1>4, <1>5, <5>1 DEF JoinsTo
        <5> QED BY <1>6, <5>2, ConcatEmptySeq
      <4>2. CASE j # 1
        <5>1. k - 1 \in 0..(m + n) /\ ~(k - 1 <= m)
          BY <1>2, <3>1, <4>2
        <5>2. h[k - 1] = e[k - 1 - m]
          BY <1>5, <5>1
        <5>3. e[j - 1] = Shifted(j - 1)
          BY <1>0, <3>2
        <5> QED BY <3>2, <5>2, <5>3 DEF Shifted
      <4> QED BY <4>1, <4>2
    <3>6. u[k] = t[j] /\ t[j] \in Seq(A)
      BY <1>1, <1>2, <3>1, ElementOfSeq
    <3>7. f[m] \o (g[j - 1] \o t[j]) = (f[m] \o g[j - 1]) \o t[j]
      <4>1. g[j - 1] \in Seq(A)
        BY <1>6, <3>2
      <4>2. f[m] \in Seq(A) /\ t[j] \in Seq(A)
        BY <1>6, <3>6
      <4>3. PICK a \in Seq(A), b \in Seq(A), d \in Seq(A) :
               a = f[m] /\ b = g[j - 1] /\ d = t[j]
        BY <4>1, <4>2
      <4>4. (a \o b) \o d = a \o (b \o d)
        BY SMTT(40), Associate
      <4> QED BY <4>3, <4>4
    <3>8. h[k] = h[k - 1] \o u[k]
      BY <3>3, <3>4, <3>5, <3>6, <3>7
    <3> QED BY <3>8 DEF Joins
  <2> QED BY <2>1, <2>2
<1>9. JoinsTo(Len(u), u, h)
  BY <1>2, <1>7, <1>8 DEF JoinsTo
<1>10. FlattenSeq(u) = h[m + n]
  BY <1>2, <1>9, JoinsFlatten
<1>11. h[m + n] = f[m] \o g[n]
  <2>1. CASE n = 0
    <3>1. m + n \in 0..(m + n) /\ m + n <= m /\ m + n = m
      BY <1>2, <2>1
    <3>2. h[m + n] = f[m] /\ g[n] = <<>>
      BY <1>4, <1>5, <2>1, <3>1 DEF JoinsTo
    <3> QED BY <1>6, <3>2, ConcatEmptySeq
  <2>2. CASE n # 0
    <3>1. m + n \in 0..(m + n) /\ ~(m + n <= m) /\ m + n - m = n
      BY <1>2, <2>2
    <3>2. h[m + n] = e[m + n - m] /\ n \in 0..n
      BY <1>2, <1>5, <3>1
    <3>3. e[n] = Shifted(n)
      BY <1>0, <3>2
    <3> QED BY <3>1, <3>2, <3>3 DEF Shifted
  <2> QED BY <2>1, <2>2
<1> QED BY <1>1, <1>3, <1>4, <1>10, <1>11

\* One sequence joined is that sequence.
LEMMA FlattenOne ==
    ASSUME NEW A, NEW x \in Seq(A)
    PROVE  FlattenSeq(<<x>>) = x
<1>1. PICK s : s = <<x>>
  OBVIOUS
<1>2. s \in Seq(Seq(A)) /\ Len(s) = 1 /\ s[1] = x
  BY <1>1
<1>3. PICK f : JoinsTo(1, s, f) /\ FlattenSeq(s) = f[1]
  BY <1>2, Flattens
<1>4. f[1] = <<>> \o x
  <2>1. Joins(1, s, f)
    BY <1>3 DEF JoinsTo
  <2> QED BY <1>2, <1>3, <2>1 DEF Joins, JoinsTo
<1> QED BY <1>1, <1>3, <1>4, ConcatEmptySeq

\* Of sequences that are empty nothing comes.
LEMMA FlattenNothing ==
    ASSUME NEW s, s \in Seq(Seq({})), \A k \in 1..Len(s) : s[k] = <<>>
    PROVE  FlattenSeq(s) = <<>>
<1>1. FlattenSeq(s) \in Seq({})
  BY FlattenType
<1> QED BY <1>1, EmptySeq, ElementOfSeq, LenProperties

-----------------------------------------------------------------------------
(***************************************************************************)
(* Sequences made element by element.                                      *)
(***************************************************************************)
LEMMA MakeSeq ==
    ASSUME NEW S, NEW n \in Nat, NEW f, DOMAIN f = 1..n,
           f = [k \in 1..n |-> f[k]], \A k \in 1..n : f[k] \in S
    PROVE  f \in Seq(S) /\ Len(f) = n
<1>1. f \in [1..n -> S]
  OBVIOUS
<1> QED BY <1>1

LEMMA ConcatIs ==
    ASSUME NEW S, NEW s \in Seq(S), NEW t \in Seq(S), NEW m \in Nat, NEW n \in Nat,
           m = Len(s), n = Len(t)
    PROVE  /\ s \o t \in Seq(S) /\ Len(s \o t) = m + n
           /\ \A k \in 1..m : (s \o t)[k] = s[k]
           /\ \A k \in 1..n : (s \o t)[m + k] = t[k]
<1>1. /\ s \o t \in Seq(S) /\ Len(s \o t) = m + n
      /\ \A k \in 1..(m + n) : (s \o t)[k] = IF k <= m THEN s[k] ELSE t[k - m]
  BY ConcatProperties
<1>2. ASSUME NEW k \in 1..m PROVE (s \o t)[k] = s[k]
  <2>1. k \in 1..(m + n) /\ k <= m
    OBVIOUS
  <2> QED BY <1>1, <2>1
<1>3. ASSUME NEW k \in 1..n PROVE (s \o t)[m + k] = t[k]
  <2>1. m + k \in 1..(m + n) /\ ~(m + k <= m) /\ m + k - m = k
    OBVIOUS
  <2>2. (s \o t)[m + k] = t[m + k - m]
    BY <1>1, <2>1
  <2> QED BY <2>1, <2>2
<1> QED BY <1>1, <1>2, <1>3

\* u is s, then t.
Chained(u, S, s, t) ==
    /\ u \in Seq(S) /\ Len(u) = Len(s) + Len(t)
    /\ \A k \in 1..Len(s) : u[k] = s[k]
    /\ \A k \in 1..Len(t) : u[Len(s) + k] = t[k]

LEMMA ConcatChains ==
    ASSUME NEW S, NEW s \in Seq(S), NEW t \in Seq(S)
    PROVE  Chained(s \o t, S, s, t)
<1>1. PICK m \in Nat, n \in Nat : m = Len(s) /\ n = Len(t)
  BY LenProperties
<1> QED BY <1>1, ConcatIs DEF Chained

LEMMA SubType ==
    ASSUME NEW S, NEW R, NEW s \in Seq(S), \A k \in 1..Len(s) : s[k] \in R
    PROVE  s \in Seq(R)
<1>1. PICK n \in Nat : n = Len(s)
  BY LenProperties
<1>2. s \in [1..n -> S]
  BY <1>1, LenProperties
<1>3. s \in [1..n -> R]
  BY <1>1, <1>2
<1> QED BY <1>3
-----------------------------------------------------------------------------
(***************************************************************************)
(* Functions by recursion.  step makes a function of a function; rank says *)
(* which values it may look at.                                            *)
(***************************************************************************)
\* step looks only below the rank of what it computes.
LooksBelow(step, S, R, rank) ==
    \A x \in S : \A f, g \in [S -> R] :
        (\A y \in S : rank[y] < rank[x] => f[y] = g[y]) => step[f][x] = step[g][x]

\* f is what step makes of it, below rank n.
RightBelow(n, f, step, S, rank) == \A x \in S : rank[x] < n => f[x] = step[f][x]

LEMMA RightBelowExists ==
    ASSUME NEW S, NEW R, NEW rank \in [S -> Nat], NEW seed \in R,
           NEW step \in [[S -> R] -> [S -> R]], LooksBelow(step, S, R, rank), NEW n \in Nat
    PROVE  \E f \in [S -> R] : RightBelow(n, f, step, S, rank)
<1>1. PICK T : T = {k \in Nat : \E f \in [S -> R] : RightBelow(k, f, step, S, rank)}
  OBVIOUS
<1>2. 0 \in T
  <2>1. PICK f \in [S -> R] : f = [x \in S |-> seed]
    OBVIOUS
  <2>2. RightBelow(0, f, step, S, rank)
    BY DEF RightBelow
  <2> QED BY <1>1, <2>2
<1>3. ASSUME NEW k \in Nat, k \in T PROVE k + 1 \in T
  <2>1. PICK f \in [S -> R] : RightBelow(k, f, step, S, rank)
    BY <1>1, <1>3
  <2>2. PICK g \in [S -> R] : g = step[f]
    OBVIOUS
  <2>3. ASSUME NEW x \in S, rank[x] < k + 1 PROVE g[x] = step[g][x]
    <3>1. ASSUME NEW y \in S, rank[y] < rank[x] PROVE f[y] = g[y]
      <4>1. rank[x] \in Nat /\ rank[y] \in Nat
        OBVIOUS
      <4>2. rank[y] < k
        BY <2>3, <3>1, <4>1
      <4> QED BY <2>1, <2>2, <4>2 DEF RightBelow
    <3> QED BY <2>2, <3>1 DEF LooksBelow
  <2>4. RightBelow(k + 1, g, step, S, rank)
    BY <2>3 DEF RightBelow
  <2> QED BY <1>1, <2>4
<1> QED BY <1>1, <1>2, <1>3, EveryNumber

RightAgree(step, S, R, rank) ==
    \A m, n \in Nat : \A f, g \in [S -> R] :
        RightBelow(m, f, step, S, rank) /\ RightBelow(n, g, step, S, rank) =>
            \A z \in S : rank[z] < m /\ rank[z] < n => f[z] = g[z]

LEMMA RightBelowAgree ==
    ASSUME NEW S, NEW R, NEW rank \in [S -> Nat],
           NEW step \in [[S -> R] -> [S -> R]], LooksBelow(step, S, R, rank)
    PROVE  RightAgree(step, S, R, rank)
<1> SUFFICES ASSUME NEW m \in Nat, NEW n \in Nat, NEW f \in [S -> R], NEW g \in [S -> R],
                    RightBelow(m, f, step, S, rank), RightBelow(n, g, step, S, rank),
                    NEW z \in S, rank[z] < m, rank[z] < n
             PROVE  f[z] = g[z]
  BY DEF RightAgree
<1>1. PICK T : T = {k \in Nat : \A x \in S : rank[x] < k /\ rank[x] < m /\ rank[x] < n
                                                => f[x] = g[x]}
  OBVIOUS
<1>2. 0 \in T
  BY <1>1
<1>3. ASSUME NEW k \in Nat, k \in T PROVE k + 1 \in T
  <2>1. ASSUME NEW x \in S, rank[x] < k + 1, rank[x] < m, rank[x] < n PROVE f[x] = g[x]
    <3>1. ASSUME NEW y \in S, rank[y] < rank[x] PROVE f[y] = g[y]
      <4>1. rank[x] \in Nat /\ rank[y] \in Nat
        OBVIOUS
      <4>2. rank[y] < k /\ rank[y] < m /\ rank[y] < n
        BY <2>1, <3>1, <4>1
      <4> QED BY <1>1, <1>3, <4>2
    <3>2. step[f][x] = step[g][x]
      BY <3>1 DEF LooksBelow
    <3>3. f[x] = step[f][x] /\ g[x] = step[g][x]
      BY <2>1 DEF RightBelow
    <3> QED BY <3>2, <3>3
  <2> QED BY <1>1, <2>1
<1>4. rank[z] + 1 \in T /\ rank[z] < rank[z] + 1
  <2>1. rank[z] \in Nat
    OBVIOUS
  <2> QED BY <1>2, <1>3, <2>1, EveryNumber
<1> QED BY <1>1, <1>4

\* step defines a function from S to R by recursion.
Recurses(step, S, R, rank) ==
    /\ R # {} /\ rank \in [S -> Nat]
    /\ step \in [[S -> R] -> [S -> R]]
    /\ LooksBelow(step, S, R, rank)

LEMMA Recursion ==
    ASSUME NEW S, NEW R, NEW rank, NEW step, Recurses(step, S, R, rank)
    PROVE  \E f \in [S -> R] : f = step[f]
<1> PICK seed \in R : TRUE
  BY DEF Recurses
<1> rank \in [S -> Nat] /\ step \in [[S -> R] -> [S -> R]] /\ LooksBelow(step, S, R, rank)
  BY DEF Recurses
<1>0. RightAgree(step, S, R, rank)
  BY RightBelowAgree
<1>1. PICK below : below = [n \in Nat |-> CHOOSE f \in [S -> R] :
                                              RightBelow(n, f, step, S, rank)]
  OBVIOUS
<1>2. ASSUME NEW n \in Nat
      PROVE  below[n] \in [S -> R] /\ RightBelow(n, below[n], step, S, rank)
  <2>1. \E f \in [S -> R] : RightBelow(n, f, step, S, rank)
    BY RightBelowExists
  <2> QED BY <1>1, <2>1
<1>3. PICK f : f = [x \in S |-> below[rank[x] + 1][x]]
  OBVIOUS
<1>4. ASSUME NEW x \in S
      PROVE  rank[x] \in Nat /\ rank[x] + 1 \in Nat /\ rank[x] < rank[x] + 1
  <2>1. rank[x] \in Nat
    OBVIOUS
  <2> QED BY <2>1
<1>5. f \in [S -> R]
  BY <1>2, <1>3, <1>4
<1>6. ASSUME NEW x \in S PROVE f[x] = step[f][x]
  <2>1. PICK g \in [S -> R] : g = below[rank[x] + 1] /\ RightBelow(rank[x] + 1, g, step, S, rank)
    BY <1>2, <1>4
  <2>2. ASSUME NEW y \in S, rank[y] < rank[x] PROVE f[y] = g[y]
    <3>1. PICK h \in [S -> R] : h = below[rank[y] + 1] /\ RightBelow(rank[y] + 1, h, step, S, rank)
      BY <1>2, <1>4
    <3>2. rank[y] < rank[x] + 1
      BY <1>4, <2>2
    <3>3. PICK m \in Nat, n \in Nat : m = rank[y] + 1 /\ n = rank[x] + 1 /\ rank[y] < m
      BY <1>4
    <3>4. h[y] = g[y]
      <4>1. RightBelow(m, h, step, S, rank) /\ RightBelow(n, g, step, S, rank) /\ rank[y] < n
        BY <2>1, <3>1, <3>2, <3>3
      <4> QED BY <1>0, <3>3, <4>1 DEF RightAgree
    <3> QED BY <1>3, <3>1, <3>4
  <2>3. step[f][x] = step[g][x]
    BY <1>5, <2>2 DEF LooksBelow
  <2>4. g[x] = step[g][x]
    BY <1>4, <2>1 DEF RightBelow
  <2> QED BY <1>3, <2>1, <2>3, <2>4
<1>7. step[f] \in [S -> R]
  BY <1>5
<1> QED BY <1>5, <1>6, <1>7
\* Induction over a rank.
LEMMA RankInduction ==
    ASSUME NEW S, NEW rank \in [S -> Nat], NEW T,
           \A x \in S : (\A y \in S : rank[y] < rank[x] => y \in T) => x \in T
    PROVE  S \subseteq T
<1>1. PICK N : N = {n \in Nat : \A x \in S : rank[x] < n => x \in T}
  OBVIOUS
<1>2. \A x \in S : rank[x] \in Nat
  OBVIOUS
<1>3. 0 \in N
  BY <1>1, <1>2
<1>4. ASSUME NEW n \in Nat, n \in N PROVE n + 1 \in N
  <2>1. ASSUME NEW x \in S, rank[x] < n + 1 PROVE x \in T
    <3>1. ASSUME NEW y \in S, rank[y] < rank[x] PROVE y \in T
      <4>1. rank[y] < n
        BY <1>2, <2>1, <3>1
      <4> QED BY <1>1, <1>4, <4>1
    <3> QED BY <3>1
  <2> QED BY <1>1, <2>1
<1>5. ASSUME NEW x \in S PROVE x \in T
  <2>1. rank[x] + 1 \in N /\ rank[x] < rank[x] + 1
    BY <1>2, <1>3, <1>4, EveryNumber
  <2> QED BY <1>1, <2>1
<1> QED BY <1>5

\* g makes a value of the one before and of a number.
Iterates(N, R, base, g) ==
    /\ N \in Nat /\ base \in R
    /\ \A x \in R, n \in 1..N : g[<<x, n>>] \in R

Iterated(f, N, base, g) ==
    f = [n \in 0..N |-> IF n = 0 THEN base ELSE g[<<f[n - 1], n>>]]

\* A function that makes each value of the one before.
LEMMA Iteration ==
    ASSUME NEW N, NEW R, NEW base, NEW g, Iterates(N, R, base, g)
    PROVE  \E f \in [0..N -> R] : Iterated(f, N, base, g)
<1> N \in Nat /\ base \in R /\ \A x \in R, n \in 1..N : g[<<x, n>>] \in R
  BY DEF Iterates
<1>1. PICK S : S = 0..N
  OBVIOUS
<1>2. PICK rank : rank = [n \in S |-> n]
  OBVIOUS
<1>3. PICK step : step = [f \in [S -> R] |->
                            [n \in S |-> IF n = 0 THEN base ELSE g[<<f[n - 1], n>>]]]
  OBVIOUS
<1>4. \A n \in S : n # 0 => n - 1 \in S /\ n \in 1..N /\ rank[n - 1] < rank[n]
  BY <1>1, <1>2
<1>5. step \in [[S -> R] -> [S -> R]]
  <2>1. ASSUME NEW f \in [S -> R], NEW n \in S
        PROVE  (IF n = 0 THEN base ELSE g[<<f[n - 1], n>>]) \in R
    BY <1>4
  <2> QED BY <1>3, <2>1
<1>6. ASSUME NEW n \in S, NEW f \in [S -> R], NEW h \in [S -> R],
             \A m \in S : rank[m] < rank[n] => f[m] = h[m]
      PROVE  step[f][n] = step[h][n]
  <2>1. n # 0 => f[n - 1] = h[n - 1]
    BY <1>4, <1>6
  <2> QED BY <1>3, <2>1
<1>7. Recurses(step, S, R, rank)
  <2>1. rank \in [S -> Nat]
    BY <1>1, <1>2
  <2> QED BY <1>5, <1>6, <2>1 DEF Recurses, LooksBelow
<1>8. PICK f \in [S -> R] : f = step[f]
  BY <1>7, Recursion
<1> QED BY <1>1, <1>3, <1>8 DEF Iterated

-----------------------------------------------------------------------------
(***************************************************************************)
(* What is in a sequence.                                                  *)
(***************************************************************************)
Occurring(s) == {s[k] : k \in 1..Len(s)}

LEMMA ItemsEmpty == Occurring(<<>>) = {}
BY EmptySeq DEF Occurring

LEMMA ItemsConcat ==
    ASSUME NEW A, NEW s \in Seq(A), NEW t \in Seq(A)
    PROVE  Occurring(s \o t) = Occurring(s) \cup Occurring(t)
<1>1. PICK m \in Nat : m = Len(s)
  BY LenProperties
<1>2. PICK n \in Nat : n = Len(t)
  BY LenProperties
<1>3. PICK w : w = s \o t
  OBVIOUS
<1>4. /\ Len(w) = m + n /\ \A k \in 1..m : w[k] = s[k]
      /\ \A k \in 1..n : w[m + k] = t[k]
  BY <1>1, <1>2, <1>3, ConcatIs
<1>5. ASSUME NEW k \in 1..(m + n) PROVE w[k] \in Occurring(s) \cup Occurring(t)
  <2>1. CASE k \in 1..m
    BY <1>1, <1>4, <2>1 DEF Occurring
  <2>2. CASE k \notin 1..m
    <3>1. PICK j \in 1..n : k = m + j
      <4>1. k - m \in 1..n /\ k = m + (k - m)
        BY <2>2
      <4> QED BY <4>1
    <3> QED BY <1>2, <1>4, <3>1 DEF Occurring
  <2> QED BY <2>1, <2>2
<1>6. ASSUME NEW k \in 1..m PROVE s[k] \in Occurring(w)
  <2>1. k \in 1..(m + n)
    OBVIOUS
  <2> QED BY <1>4, <2>1 DEF Occurring
<1>7. ASSUME NEW k \in 1..n PROVE t[k] \in Occurring(w)
  <2>1. m + k \in 1..(m + n)
    OBVIOUS
  <2> QED BY <1>4, <2>1 DEF Occurring
<1> QED BY <1>1, <1>2, <1>3, <1>4, <1>5, <1>6, <1>7 DEF Occurring

\* What was in the sequences is in what they join to.
LEMMA ItemsFlatten ==
    ASSUME NEW A, NEW u \in Seq(Seq(A))
    PROVE  \A x : x \in Occurring(FlattenSeq(u)) <=> \E k \in 1..Len(u) : x \in Occurring(u[k])
<1>1. PICK m \in Nat : m = Len(u)
  BY LenProperties
<1>2. PICK f : /\ \A k \in 0..m : f[k] \in Seq(A)
               /\ JoinsTo(m, u, f) /\ FlattenSeq(u) = f[m]
  BY <1>1, Flattens
<1>3. PICK T : T = {n \in Nat : n <= m =>
                      \A x : x \in Occurring(f[n]) <=> \E k \in 1..n : x \in Occurring(u[k])}
  OBVIOUS
<1>4. 0 \in T
  <2>1. Occurring(f[0]) = {}
    BY <1>2, ItemsEmpty DEF JoinsTo
  <2> QED BY <1>3, <2>1
<1>5. ASSUME NEW n \in Nat, n \in T PROVE n + 1 \in T
  <2>1. SUFFICES ASSUME n + 1 <= m, NEW x
                 PROVE  x \in Occurring(f[n + 1]) <=> \E k \in 1..(n + 1) : x \in Occurring(u[k])
    BY <1>3
  <2>2. PICK q \in 1..m : q = n + 1 /\ q - 1 = n /\ n \in 0..m /\ n <= m
    <3>1. n + 1 \in 1..m /\ n + 1 - 1 = n /\ n \in 0..m /\ n <= m
      BY <1>1, <2>1
    <3> QED BY <3>1
  <2>3. f[q] = f[n] \o u[q]
    BY <1>2, <2>2 DEF JoinsTo, Joins
  <2>4. f[n] \in Seq(A) /\ u[q] \in Seq(A)
    BY <1>1, <1>2, <2>2, ElementOfSeq
  <2>5. Occurring(f[q]) = Occurring(f[n]) \cup Occurring(u[q])
    BY <2>3, <2>4, ItemsConcat
  <2>6. x \in Occurring(f[n]) <=> \E k \in 1..n : x \in Occurring(u[k])
    BY <1>3, <1>5, <2>2
  <2>7. 1..q = 1..n \cup {q}
    BY <2>2
  <2> QED BY <2>2, <2>5, <2>6, <2>7
<1>6. m \in T
  BY <1>4, <1>5, EveryNumber
<1> QED BY <1>1, <1>2, <1>3, <1>6
=============================================================================

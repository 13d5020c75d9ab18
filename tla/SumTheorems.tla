----------------------------- MODULE SumTheorems -----------------------------
(***************************************************************************)
(* Facts about sums of sequences, by induction on how many elements are    *)
(* added up.                                                               *)
(***************************************************************************)
EXTENDS Sums, FiniteSetTheorems, TLAPS

\* Every non-empty set of naturals has a least element.
LEMMA LeastNatural ==
  ASSUME NEW S \in SUBSET Nat, S # {}
  PROVE  \E k \in S : \A j \in S : k <= j
<1> DEFINE T == {1 .. k : k \in S}
           R == StrictSubsetOrdering(Nat)
<1>1. IsWellFoundedOn(R, FiniteSubsetsOf(Nat))
  BY FS_StrictSubsetOrderingWellFounded
<1>2. \A k \in Nat : IsFiniteSet(1 .. k) /\ 1 .. k \in SUBSET Nat
  BY FS_Interval
<1>3. T \subseteq FiniteSubsetsOf(Nat) /\ T # {}
  BY <1>2 DEF FiniteSubsetsOf
<1>4. \A j, k \in Nat : j < k => <<1 .. j, 1 .. k>> \in R
  <2> TAKE j, k \in Nat
  <2> HAVE j < k
  <2>1. 1 .. j \subseteq 1 .. k
    OBVIOUS
  <2>2. k \in 1 .. k /\ k \notin 1 .. j
    OBVIOUS
  <2>3. 1 .. j \in SUBSET Nat /\ 1 .. k \in SUBSET Nat
    OBVIOUS
  <2>4. QED
    BY <2>1, <2>2, <2>3 DEF StrictSubsetOrdering
<1> HIDE DEF R, T
<1>5. \E x \in T : \A y \in T : ~ (<<y, x>> \in R)
  BY <1>1, <1>3, WFMin
<1>6. PICK k \in S : \A j \in S : ~ (<<1 .. j, 1 .. k>> \in R)
  BY <1>5 DEF T
<1>7. ASSUME NEW j \in S PROVE k <= j
  <2>1. j \in Nat /\ k \in Nat
    OBVIOUS
  <2>2. ~ (j < k)
    BY <1>4, <1>6, <2>1
  <2>3. QED
    BY <2>1, <2>2
<1>8. QED
  BY <1>7

\* Induction on the numbers up to m, for a set instead of a predicate.
LEMMA UpTo ==
  ASSUME NEW m \in Nat, NEW S, 0 \in S,
         \A n \in 0 .. m - 1 : n \in S => n + 1 \in S
  PROVE  \A n \in 0 .. m : n \in S
<1> DEFINE Bad == {n \in 0 .. m : n \notin S}
<1>1. SUFFICES ASSUME Bad # {} PROVE FALSE
  OBVIOUS
<1>2. PICK k \in Bad : \A j \in Bad : k <= j
  <2>1. Bad \in SUBSET Nat
    OBVIOUS
  <2> HIDE DEF Bad
  <2>2. QED
    BY <1>1, <2>1, LeastNatural
<1>3. k \in 1 .. m /\ k \notin S
  BY <1>2
<1>4. k - 1 \in 0 .. m - 1 /\ k - 1 \notin Bad
  BY <1>2, <1>3
<1>5. k - 1 \in S
  BY <1>4
<1>6. (k - 1) + 1 \in S
  BY <1>4, <1>5
<1>7. QED
  BY <1>3, <1>6

\* The recursion of Sums is well founded: there are such partial sums.
LEMMA SumsExist ==
  ASSUME NEW s \in Seq(Nat)
  PROVE  \E f : f = [n \in 0 .. Len(s) |-> IF n = 0 THEN 0 ELSE f[n - 1] + s[n]]
<1> DEFINE Is(f, m) == /\ f \in [0 .. m -> Nat] /\ f[0] = 0
                       /\ \A n \in 1 .. m : f[n] = f[n - 1] + s[n]
           S == {m \in 0 .. Len(s) : \E f : Is(f, m)}
<1>1. 0 \in S
  <2> DEFINE f == [n \in 0 .. 0 |-> 0]
  <2>1. Is(f, 0) /\ 0 \in 0 .. Len(s)
    OBVIOUS
  <2> HIDE DEF f
  <2>2. \E g : Is(g, 0)
    BY <2>1
  <2>3. QED
    BY <2>1, <2>2
<1>2. ASSUME NEW m \in 0 .. Len(s) - 1, m \in S PROVE m + 1 \in S
  <2>1. PICK f : Is(f, m)
    BY <1>2
  <2> DEFINE g == [n \in 0 .. m + 1 |-> IF n <= m THEN f[n] ELSE f[m] + s[m + 1]]
  <2>2. s[m + 1] \in Nat /\ f[m] \in Nat
    BY <2>1
  <2>3. g \in [0 .. m + 1 -> Nat]
    BY <2>1, <2>2
  <2>4. ASSUME NEW n \in 1 .. m + 1 PROVE g[n] = g[n - 1] + s[n]
    <3>1. CASE n <= m
      BY <2>1, <3>1
    <3>2. CASE n = m + 1
      BY <2>1, <3>2
    <3>3. QED
      BY <3>1, <3>2
  <2>5. Is(g, m + 1) /\ m + 1 \in 0 .. Len(s)
    BY <2>1, <2>3, <2>4
  <2> HIDE DEF g
  <2>6. \E h : Is(h, m + 1)
    BY <2>5
  <2>7. QED
    BY <2>5, <2>6
<1>3. Len(s) \in S
  <2>1. Len(s) \in Nat /\ Len(s) \in 0 .. Len(s)
    OBVIOUS
  <2> HIDE DEF S
  <2>2. \A m \in 0 .. Len(s) : m \in S
    BY <1>1, <1>2, <2>1, UpTo
  <2>3. QED
    BY <2>1, <2>2
<1>4. PICK f : Is(f, Len(s))
  BY <1>3
<1>5. f = [n \in 0 .. Len(s) |-> IF n = 0 THEN 0 ELSE f[n - 1] + s[n]]
  BY <1>4
<1>6. QED
  BY <1>5

\* ... and what they are.
LEMMA SumsFunction ==
  ASSUME NEW s \in Seq(Nat)
  PROVE  Sums(s) = [n \in 0 .. Len(s) |-> IF n = 0 THEN 0 ELSE Sums(s)[n - 1] + s[n]]
BY SumsExist DEF Sums

LEMMA SumsStep ==
  ASSUME NEW s \in Seq(Nat)
  PROVE  /\ Sums(s)[0] = 0
         /\ \A n \in 0 .. Len(s) : Sums(s)[n] \in Nat
         /\ \A n \in 1 .. Len(s) : Sums(s)[n] = Sums(s)[n - 1] + s[n]
<1> DEFINE S == {n \in 0 .. Len(s) : Sums(s)[n] \in Nat}
<1>1. Sums(s)[0] = 0 /\ \A n \in 1 .. Len(s) : Sums(s)[n] = Sums(s)[n - 1] + s[n]
  <2> DEFINE f == Sums(s)
  <2>1. f = [n \in 0 .. Len(s) |-> IF n = 0 THEN 0 ELSE f[n - 1] + s[n]]
    BY SumsFunction
  <2> HIDE DEF f
  <2>2. f[0] = 0 /\ \A n \in 1 .. Len(s) : f[n] = f[n - 1] + s[n]
    BY <2>1
  <2>3. QED
    BY <2>2 DEF f
<1>2. 0 \in S
  BY <1>1
<1>3. ASSUME NEW n \in 0 .. Len(s) - 1, n \in S PROVE n + 1 \in S
  <2>1. Sums(s)[n + 1] = Sums(s)[(n + 1) - 1] + s[n + 1]
    BY <1>1
  <2>2. s[n + 1] \in Nat /\ (n + 1) - 1 = n
    OBVIOUS
  <2>3. QED
    BY <1>3, <2>1, <2>2
<1>4. \A n \in 0 .. Len(s) : n \in S
  <2>1. Len(s) \in Nat
    OBVIOUS
  <2> HIDE DEF S
  <2>2. QED
    BY <1>2, <1>3, <2>1, UpTo
<1>5. QED
  BY <1>1, <1>4

\* A sequence that is found in another adds what it adds.
LEMMA SumsWithin ==
  ASSUME NEW s \in Seq(Nat), NEW t \in Seq(Nat), NEW m \in Nat, NEW l \in Nat,
         l <= Len(t), m + l <= Len(s),
         \A n \in 1 .. l : s[m + n] = t[n]
  PROVE  Sums(s)[m + l] = Sums(s)[m] + Sums(t)[l]
<1> DEFINE S == {n \in 0 .. l : Sums(s)[m + n] = Sums(s)[m] + Sums(t)[n]}
<1>1. 0 \in S
  <2>1. Sums(t)[0] = 0 /\ Sums(s)[m] \in Nat /\ m + 0 = m
    BY SumsStep
  <2>2. QED
    BY <2>1
<1>2. ASSUME NEW n \in 0 .. l - 1, n \in S PROVE n + 1 \in S
  <2>1. Sums(t)[n + 1] = Sums(t)[(n + 1) - 1] + t[n + 1]
    BY SumsStep
  <2>2. Sums(s)[m + n + 1] = Sums(s)[(m + n + 1) - 1] + s[m + n + 1]
    BY SumsStep
  <2>3. (n + 1) - 1 = n /\ (m + n + 1) - 1 = m + n /\ m + (n + 1) = m + n + 1
    BY n \in Nat
  <2>4. s[m + n + 1] = t[n + 1] /\ t[n + 1] \in Nat
    <3>1. n + 1 \in 1 .. l /\ n + 1 \in 1 .. Len(t)
      OBVIOUS
    <3>2. s[m + (n + 1)] = t[n + 1]
      BY <3>1, Zenon
    <3>3. t[n + 1] \in Nat
      BY <3>1
    <3>4. QED
      BY <2>3, <3>2, <3>3
  <2>5. Sums(s)[m] \in Nat /\ Sums(t)[n] \in Nat
    BY SumsStep
  <2>6. Sums(s)[m + n] = Sums(s)[m] + Sums(t)[n]
    BY <1>2
  <2>7. Sums(t)[n + 1] = Sums(t)[n] + t[n + 1]
    BY <2>1, <2>3
  <2>8. Sums(s)[m + n + 1] = Sums(s)[m + n] + t[n + 1]
    BY <2>2, <2>3, <2>4
  <2>9. Sums(s)[m + n + 1] = Sums(s)[m] + Sums(t)[n + 1]
    <3> DEFINE a == Sums(s)[m]
               b == Sums(t)[n]
               c == t[n + 1]
    <3>1. a \in Nat /\ b \in Nat /\ c \in Nat
      BY <2>4, <2>5
    <3>2. Sums(t)[n + 1] = b + c /\ Sums(s)[m + n + 1] = (a + b) + c
      BY <2>6, <2>7, <2>8, Zenon
    <3> HIDE DEF a, b, c
    <3>3. (a + b) + c = a + (b + c)
      BY <3>1
    <3>4. Sums(s)[m + n + 1] = a + Sums(t)[n + 1]
      BY <3>2, <3>3
    <3>5. QED
      BY <3>4 DEF a
  <2>10. Sums(s)[m + (n + 1)] = Sums(s)[m] + Sums(t)[n + 1]
    BY <2>3, <2>9
  <2>11. QED
    BY <2>10
<1>3. l \in S
  <2> HIDE DEF S
  <2>1. \A n \in 0 .. l : n \in S
    BY <1>1, <1>2, UpTo
  <2>2. QED
    BY <2>1
<1>4. QED
  BY <1>3

-----------------------------------------------------------------------------
(* What is cited elsewhere. *)

LEMMA SumNat ==
  ASSUME NEW s \in Seq(Nat)
  PROVE  SumOf(s) \in Nat
BY SumsStep DEF SumOf

\* Sequences are equal when they have the same length and elements.
LEMMA SameNumbers ==
  ASSUME NEW s \in Seq(Nat), NEW t \in Seq(Nat), Len(s) = Len(t),
         \A i \in 1 .. Len(t) : s[i] = t[i]
  PROVE  s = t
OBVIOUS

LEMMA SumEmpty == SumOf(<<>>) = 0
BY SumsStep, <<>> \in Seq(Nat), Len(<<>>) = 0 DEF SumOf

LEMMA SumConcat ==
  ASSUME NEW s \in Seq(Nat), NEW t \in Seq(Nat)
  PROVE  SumOf(s \o t) = SumOf(s) + SumOf(t)
<1> DEFINE u == s \o t
<1>1. /\ u \in Seq(Nat) /\ Len(u) = Len(s) + Len(t)
      /\ Len(s) \in Nat /\ Len(t) \in Nat
  OBVIOUS
<1>2. \A n \in 1 .. Len(s) : u[0 + n] = s[n]
  OBVIOUS
<1>3. \A n \in 1 .. Len(t) : u[Len(s) + n] = t[n]
  OBVIOUS
<1> HIDE DEF u
<1>4. Sums(u)[0 + Len(s)] = Sums(u)[0] + Sums(s)[Len(s)]
  <2>1. 0 \in Nat /\ Len(s) <= Len(s) /\ 0 + Len(s) <= Len(u)
    BY <1>1
  <2>2. QED
    BY <1>1, <1>2, <2>1, SumsWithin, Zenon
<1>5. Sums(u)[Len(s) + Len(t)] = Sums(u)[Len(s)] + Sums(t)[Len(t)]
  <2>1. Len(t) <= Len(t) /\ Len(s) + Len(t) <= Len(u)
    BY <1>1
  <2>2. QED
    BY <1>1, <1>3, <2>1, SumsWithin, Zenon
<1>6. /\ Sums(u)[0] = 0 /\ Sums(s)[Len(s)] \in Nat /\ 0 + Len(s) = Len(s)
  BY <1>1, SumsStep
<1>7. QED
  BY <1>1, <1>4, <1>5, <1>6 DEF SumOf, u

LEMMA SumOne ==
  ASSUME NEW n \in Nat
  PROVE  SumOf(<<n>>) = n
<1>1. <<n>> \in Seq(Nat) /\ Len(<<n>>) = 1 /\ <<n>>[1] = n
  OBVIOUS
<1> DEFINE t == <<n>>
<1>2. t \in Seq(Nat) /\ Len(t) = 1 /\ t[1] = n
  BY <1>1
<1> HIDE DEF t
<1>3. Sums(t)[1] = Sums(t)[1 - 1] + t[1] /\ Sums(t)[0] = 0
  <2>1. 1 \in 1 .. Len(t)
    BY <1>2
  <2>2. QED
    BY <1>2, <2>1, SumsStep, Zenon
<1>4. QED
  BY <1>2, <1>3 DEF SumOf, t

LEMMA SumAppend ==
  ASSUME NEW s \in Seq(Nat), NEW n \in Nat
  PROVE  SumOf(Append(s, n)) = SumOf(s) + n
<1>1. <<n>> \in Seq(Nat) /\ Append(s, n) = s \o <<n>>
  OBVIOUS
<1>2. QED
  BY <1>1, SumConcat, SumOne

LEMMA SumTail ==
  ASSUME NEW s \in Seq(Nat), s # <<>>
  PROVE  /\ Tail(s) \in Seq(Nat) /\ Head(s) \in Nat
         /\ SumOf(s) = Head(s) + SumOf(Tail(s))
<1>1. /\ Tail(s) \in Seq(Nat) /\ Head(s) \in Nat /\ <<Head(s)>> \in Seq(Nat)
      /\ s = <<Head(s)>> \o Tail(s)
  OBVIOUS
<1>2. SumOf(<<Head(s)>> \o Tail(s)) = SumOf(<<Head(s)>>) + SumOf(Tail(s))
  BY <1>1, SumConcat
<1>3. QED
  BY <1>1, <1>2, SumOne

\* One number changes.
LEMMA SumChange ==
  ASSUME NEW s \in Seq(Nat), NEW t \in Seq(Nat), Len(s) = Len(t), NEW k \in 1 .. Len(s),
         \A n \in 1 .. Len(s) : n # k => s[n] = t[n]
  PROVE  SumOf(t) + s[k] = SumOf(s) + t[k]
<1> DEFINE l == Len(s) - k
           r == SubSeq(t, k + 1, Len(t))
<1>1. /\ Len(s) \in Nat /\ k \in Nat /\ k >= 1 /\ k - 1 \in Nat /\ l \in Nat
      /\ k + l = Len(s) /\ (k - 1) + 1 = k /\ 0 + (k - 1) = k - 1 /\ k <= Len(s)
  OBVIOUS
<1>2. r \in Seq(Nat) /\ Len(r) = l /\ \A n \in 1 .. l : t[k + n] = r[n]
  <2>1. r \in Seq(Nat) /\ Len(r) = l
    BY <1>1
  <2>2. ASSUME NEW n \in 1 .. l PROVE t[k + n] = r[n]
    <3>1. r[n] = t[(k + 1) + n - 1] /\ (k + 1) + n - 1 = k + n
      BY <1>1
    <3>2. QED
      BY <3>1
  <2>3. QED
    BY <2>1, <2>2
<1> HIDE DEF l, r
<1>3. \A n \in 1 .. l : s[k + n] = r[n]
  <2>1. \A n \in 1 .. l : k + n \in 1 .. Len(s) /\ k + n # k
    BY <1>1
  <2>2. QED
    BY <1>2, <2>1
<1>a. l <= Len(r) /\ k + l <= Len(s) /\ k + l <= Len(t)
  BY <1>1, <1>2
<1>4. Sums(s)[k + l] = Sums(s)[k] + Sums(r)[l]
  BY <1>1, <1>2, <1>3, <1>a, SumsWithin, Zenon
<1>5. Sums(t)[k + l] = Sums(t)[k] + Sums(r)[l]
  BY <1>1, <1>2, <1>a, SumsWithin, Zenon
<1>6. Sums(s)[k - 1] = Sums(t)[k - 1]
  <2>1. \A n \in 1 .. k - 1 : s[0 + n] = t[n]
    BY <1>1
  <2>a. 0 \in Nat /\ k - 1 <= Len(t) /\ 0 + (k - 1) <= Len(s)
    BY <1>1
  <2>2. Sums(s)[0 + (k - 1)] = Sums(s)[0] + Sums(t)[k - 1]
    BY <1>1, <2>1, <2>a, SumsWithin, Zenon
  <2>3. Sums(s)[0] = 0 /\ Sums(t)[k - 1] \in Nat
    BY <1>1, SumsStep
  <2>4. QED
    BY <1>1, <2>2, <2>3
<1>7. /\ Sums(s)[k] = Sums(s)[k - 1] + s[k] /\ Sums(t)[k] = Sums(t)[k - 1] + t[k]
      /\ Sums(s)[k - 1] \in Nat
  BY <1>1, SumsStep
<1>8. Sums(r)[l] \in Nat
  BY <1>1, <1>2, SumsStep
<1>9. SumOf(s) = Sums(s)[k + l] /\ SumOf(t) = Sums(t)[k + l]
  BY <1>1 DEF SumOf
<1>10. s[k] \in Nat /\ t[k] \in Nat
  BY <1>1
<1> DEFINE a == Sums(s)[k - 1]
           c == Sums(r)[l]
<1>11. SumOf(s) = (a + s[k]) + c /\ SumOf(t) = (a + t[k]) + c
  BY <1>4, <1>5, <1>6, <1>7, <1>9, Zenon
<1>12. a \in Nat /\ c \in Nat
  BY <1>7, <1>8
<1> HIDE DEF a, c
<1>13. QED
  BY <1>10, <1>11, <1>12

LEMMA SumZeros ==
  ASSUME NEW s \in Seq(Nat), \A n \in 1 .. Len(s) : s[n] = 0
  PROVE  SumOf(s) = 0
<1> DEFINE S == {n \in 0 .. Len(s) : Sums(s)[n] = 0}
           m == Len(s)
<1>1. m \in Nat /\ 0 \in S
  BY SumsStep
<1>2. ASSUME NEW n \in 0 .. m - 1, n \in S
      PROVE  n + 1 \in S
  <2>1. n + 1 \in 1 .. m /\ (n + 1) - 1 = n /\ n + 1 \in 0 .. m
    BY <1>1
  <2>2. Sums(s)[n + 1] = Sums(s)[(n + 1) - 1] + s[n + 1]
    BY <2>1, SumsStep
  <2>3. QED
    BY <1>2, <2>1, <2>2
<1> HIDE DEF S
<1>3. \A n \in 0 .. m : n \in S
  <2> HIDE DEF m
  <2>1. QED
    BY <1>1, <1>2, UpTo
<1>4. QED
  BY <1>1, <1>3 DEF SumOf, S
=============================================================================

------------------------------ MODULE KcpProofs ------------------------------
(***************************************************************************)
(* Proofs about Kcp, for any windows, segment sizes, writes and losses, in *)
(* sessions that send fewer segments than signed differences tell apart.   *)
(***************************************************************************)
EXTENDS Kcp, SumTheorems

-----------------------------------------------------------------------------
(* Sequence numbers.                                                       *)

Sns == 0 .. SnModulus - 1

\* How many segments before the one with number sn
Abs(sn) == (sn - FirstSn) % SnModulus

LEMMA Sizes ==
  /\ SnModulus \in Nat /\ SnModulus > 0 /\ FirstSn \in Sns /\ FirstSn \in Int
  /\ Wnd \in Nat /\ Wnd >= 1 /\ Mss \in Nat /\ Mss >= 1
  /\ FirstRmt \in 1 .. Wnd
  /\ \A a \in Sns : a \in Int
BY KcpAssumption DEF Sns

LEMMA Modulo ==
  ASSUME NEW M \in Nat, M > 0, NEW x \in Int
  PROVE  /\ 0 <= x /\ x < M => x % M = x
         /\ -M <= x /\ x < 0 => x % M = x + M
         /\ M <= x /\ x < 2 * M => x % M = x - M
         /\ x % M \in 0 .. M - 1
OBVIOUS

LEMMA AbsType ==
  ASSUME NEW a \in Sns
  PROVE  /\ Abs(a) \in Nat /\ Abs(a) < SnModulus
         /\ Abs(a) = a - FirstSn \/ Abs(a) = a - FirstSn + SnModulus
<1>1. /\ a - FirstSn \in Int /\ a - FirstSn < SnModulus /\ -SnModulus <= a - FirstSn
  BY Sizes DEF Sns
<1> DEFINE x == a - FirstSn
           M == SnModulus
<1>2. x \in Int /\ x < M /\ -M <= x /\ M \in Nat /\ M > 0
  BY <1>1, Sizes
<1> HIDE DEF x, M
<1>3. x % M \in Nat /\ x % M < M /\ (x % M = x \/ x % M = x + M)
  BY <1>2, Modulo
<1>4. QED
  BY <1>3 DEF Abs, x, M

LEMMA AbsFirst == Abs(FirstSn) = 0
<1>1. FirstSn - FirstSn = 0
  BY Sizes
<1>2. QED
  BY <1>1, Sizes, Modulo DEF Abs

LEMMA AbsOne ==
  ASSUME NEW a \in Sns, NEW b \in Sns, Abs(a) = Abs(b)
  PROVE  a = b
BY AbsType, Sizes DEF Sns

LEMMA AbsAdd ==
  ASSUME NEW a \in Sns, NEW n \in Nat, Abs(a) + n < SnModulus
  PROVE  Add(a, n) \in Sns /\ Abs(Add(a, n)) = Abs(a) + n
<1> DEFINE x == a + n
           M == SnModulus
           y == x % M
           A == Abs(a)
           F == FirstSn
<1>1. /\ M \in Nat /\ M > 0 /\ a \in Int /\ 0 <= a /\ a < M /\ F \in Int /\ 0 <= F /\ F < M
      /\ A \in Nat /\ A < M /\ (A = a - F \/ A = a - F + M) /\ A + n < M
      /\ x = a + n /\ x \in Int
  BY AbsType, Sizes DEF Sns
<1> HIDE DEF x, M, A, F
<1>2. 0 <= x /\ x < 2 * M
  BY <1>1
<1>3. y \in Int /\ 0 <= y /\ y < M /\ (y = x \/ y = x - M)
  BY <1>1, <1>2, Modulo
<1> HIDE DEF y
<1>4. (y - F) % M = A + n
  <2>1. y - F \in Int /\ -M <= y - F /\ y - F < M /\ A + n \in Nat
    BY <1>1, <1>3
  <2>2. A + n = y - F \/ A + n = y - F + M
    BY <1>1, <1>3
  <2>3. (y - F) % M = y - F \/ (y - F) % M = y - F + M
    BY <1>1, <2>1, Modulo
  <2>4. (y - F) % M \in 0 .. M - 1
    BY <1>1, <2>1, Modulo
  <2>5. QED
    BY <1>1, <2>1, <2>2, <2>3, <2>4
<1>5. Add(a, n) = y /\ y \in Sns
  BY <1>1, <1>3 DEF Add, Sns, y, x, M
<1>6. QED
  BY <1>4, <1>5 DEF Abs, F, M, A

LEMMA DiffAbs ==
  ASSUME NEW a \in Sns, NEW b \in Sns,
         2 * (Abs(a) - Abs(b)) < SnModulus - 1, 2 * (Abs(b) - Abs(a)) <= SnModulus
  PROVE  Diff(a, b) = Abs(a) - Abs(b)
<1> DEFINE M == SnModulus
           A == Abs(a)
           B == Abs(b)
           F == FirstSn
           d == (a - b) % M
<1>1. /\ M \in Nat /\ M > 0 /\ a \in Int /\ 0 <= a /\ a < M /\ b \in Int /\ 0 <= b /\ b < M
      /\ F \in Int /\ 0 <= F /\ F < M
      /\ A \in Nat /\ A < M /\ (A = a - F \/ A = a - F + M)
      /\ B \in Nat /\ B < M /\ (B = b - F \/ B = b - F + M)
      /\ 2 * (A - B) < M - 1 /\ 2 * (B - A) <= M
  BY AbsType, Sizes DEF Sns
<1> HIDE DEF M, A, B, F
<1>2. /\ a - b \in Int /\ -M <= a - b /\ a - b < M
      /\ a - b = A - B \/ a - b = A - B + M \/ a - b = A - B - M
  BY <1>1
<1>3. d \in Int /\ 0 <= d /\ d < M /\ (d = a - b \/ d = a - b + M)
  BY <1>1, <1>2, Modulo
<1>4. M \div 2 \in Int /\ 2 * (M \div 2) <= M /\ 2 * (M \div 2) >= M - 1
  BY <1>1
<1> HIDE DEF d
<1>5. IF A >= B THEN d = A - B ELSE d = A - B + M
  BY <1>1, <1>2, <1>3
<1>6. (IF d < M \div 2 THEN d ELSE d - M) = A - B
  BY <1>1, <1>3, <1>4, <1>5
<1>7. QED
  BY <1>6 DEF Diff, d, M, A, B

-----------------------------------------------------------------------------
(* Recursive functions and counts.                                         *)

\* f computes from b in n steps; g says what each step makes of each value.
Computes(f, S, b, n, g) ==
  /\ f \in [0 .. n -> S] /\ f[0] = b
  /\ \A i \in 1 .. n : f[i] = g[f[i - 1]][i]

\* Such a function exists.
LEMMA StepsExist ==
  ASSUME NEW S, NEW b \in S, NEW n \in Nat, NEW g \in [S -> [1 .. n -> S]]
  PROVE  \E f : Computes(f, S, b, n, g)
<1> DEFINE Is(f, m) == Computes(f, S, b, m, g)
           M == {m \in 0 .. n : \E f : Is(f, m)}
<1>1. 0 \in M
  <2> DEFINE f == [i \in 0 .. 0 |-> b]
  <2>1. Is(f, 0)
    BY DEF Computes
  <2> HIDE DEF f
  <2>2. \E h : Is(h, 0)
    BY <2>1
  <2>3. QED
    BY <2>2
<1>2. ASSUME NEW m \in 0 .. n - 1, m \in M
      PROVE  m + 1 \in M
  <2>a. PICK f : Is(f, m)
    BY <1>2
  <2>1. /\ f \in [0 .. m -> S] /\ f[0] = b
        /\ \A i \in 1 .. m : f[i] = g[f[i - 1]][i]
    BY <2>a DEF Computes
  <2> DEFINE x == g[f[m]][m + 1]
             h == [i \in 0 .. m + 1 |-> IF i <= m THEN f[i] ELSE x]
  <2>2. m \in Nat /\ m + 1 \in 1 .. n /\ m + 1 \in 0 .. n
    OBVIOUS
  <2>3. f[m] \in S
    BY <2>1, <2>2
  <2>4. x \in S
    BY <2>2, <2>3
  <2> HIDE DEF x
  <2>5. h \in [0 .. m + 1 -> S] /\ h[0] = b
    BY <2>1, <2>2, <2>4
  <2>6. ASSUME NEW i \in 1 .. m + 1
        PROVE  h[i] = g[h[i - 1]][i]
    <3>1. CASE i <= m
      <4>1. i \in 1 .. m /\ i - 1 \in 0 .. m /\ i \in 0 .. m + 1 /\ i - 1 <= m
        BY <2>2, <3>1
      <4>2. h[i] = f[i] /\ h[i - 1] = f[i - 1]
        BY <3>1, <4>1
      <4>3. QED
        BY <2>1, <4>1, <4>2
    <3>2. CASE i = m + 1
      <4>1. i - 1 = m /\ i - 1 \in 0 .. m + 1 /\ i \in 0 .. m + 1 /\ ~(i <= m)
        BY <2>2, <3>2
      <4>2. h[i] = x /\ h[i - 1] = f[m]
        BY <4>1
      <4>3. QED
        BY <3>2, <4>2 DEF x
    <3>3. QED
      BY <2>2, <3>1, <3>2
  <2>7. Is(h, m + 1)
    BY <2>5, <2>6 DEF Computes
  <2> HIDE DEF h
  <2>8. \E k : Is(k, m + 1)
    BY <2>7
  <2>9. QED
    BY <2>2, <2>8
<1>3. n \in M
  <2> HIDE DEF M
  <2>1. \A m \in 0 .. n : m \in M
    BY <1>1, <1>2, UpTo
  <2>2. QED
    BY <2>1
<1>4. QED
  BY <1>3

\* A function that computes within sets of values, each step from one to the next
LEMMA PathExists ==
  ASSUME NEW n \in Nat, NEW S, NEW R \in [0 .. n -> SUBSET S], NEW b, b \in R[0], NEW g,
         \A i \in 1 .. n : \A x \in R[i - 1] : g[x][i] \in R[i]
  PROVE  \E f : Computes(f, S, b, n, g)
<1> DEFINE h == [x \in S |-> [i \in 1 .. n |-> IF g[x][i] \in S THEN g[x][i] ELSE b]]
<1>1. b \in S
  OBVIOUS
<1>2. h \in [S -> [1 .. n -> S]] /\ \A x \in S : \A i \in 1 .. n : g[x][i] \in S => h[x][i] = g[x][i]
  BY <1>1
<1> HIDE DEF h
<1>3. PICK f : Computes(f, S, b, n, h)
  BY <1>1, <1>2, StepsExist
<1>4. f \in [0 .. n -> S] /\ f[0] = b /\ \A i \in 1 .. n : f[i] = h[f[i - 1]][i]
  BY <1>3 DEF Computes
<1>5. ASSUME NEW i \in 1 .. n, f[i - 1] \in R[i - 1]
      PROVE  f[i] = g[f[i - 1]][i] /\ f[i] \in R[i]
  <2>1. i - 1 \in 0 .. n /\ i \in 0 .. n
    OBVIOUS
  <2>2. g[f[i - 1]][i] \in R[i]
    BY <1>5
  <2>3. f[i - 1] \in S /\ g[f[i - 1]][i] \in S
    BY <1>4, <2>1, <2>2
  <2>4. f[i] = g[f[i - 1]][i]
    BY <1>2, <1>4, <2>3
  <2>5. QED
    BY <2>2, <2>4
<1> DEFINE M == {i \in 0 .. n : f[i] \in R[i]}
<1>6. 0 \in M
  BY <1>4
<1>7. ASSUME NEW i \in 0 .. n - 1, i \in M
      PROVE  i + 1 \in M
  <2>1. i + 1 \in 1 .. n /\ (i + 1) - 1 = i /\ i + 1 \in 0 .. n
    OBVIOUS
  <2>2. f[(i + 1) - 1] \in R[(i + 1) - 1]
    BY <1>7, <2>1
  <2>3. f[i + 1] \in R[i + 1]
    BY <1>5, <2>1, <2>2
  <2>4. QED
    BY <2>1, <2>3
<1>8. \A i \in 0 .. n : i \in M
  <2> HIDE DEF M
  <2>1. QED
    BY <1>6, <1>7, UpTo
<1>9. ASSUME NEW i \in 1 .. n
      PROVE  f[i] = g[f[i - 1]][i]
  <2>1. i - 1 \in 0 .. n
    OBVIOUS
  <2>2. f[i - 1] \in R[i - 1]
    BY <1>8, <2>1
  <2>3. QED
    BY <1>5, <2>2
<1>10. Computes(f, S, b, n, g)
  BY <1>4, <1>9 DEF Computes
<1>11. QED
  BY <1>10

\* The elements chosen are elements at the places.
LEMMA ChosenIn ==
  ASSUME NEW T, NEW J, NEW s, Len(s) \in Nat,
         \A i \in 1 .. Len(s) : i \in J => s[i] \in T
  PROVE  Chosen(s, J) \in Seq(T)
<1> DEFINE n == Len(s)
           S == Seq(T)
           e == <<>>
           g == [p \in S |-> [i \in 1 .. n |-> IF i \in J THEN Append(p, s[i]) ELSE p]]
           Is(f) == f = [i \in 0 .. n |->
                      IF i = 0 THEN e
                      ELSE IF i \in J THEN Append(f[i - 1], s[i]) ELSE f[i - 1]]
<1>1. g \in [S -> [1 .. n -> S]]
  <2>1. ASSUME NEW p \in S, NEW i \in 1 .. n
        PROVE  (IF i \in J THEN Append(p, s[i]) ELSE p) \in S
    <3>1. p \in Seq(T) /\ (i \in J => s[i] \in T)
      OBVIOUS
    <3>2. QED
      BY <3>1
  <2>2. QED
    BY <2>1
<1>2. e \in S /\ n \in Nat /\ e = <<>>
  OBVIOUS
<1> HIDE DEF e
<1>a. PICK f : Computes(f, S, e, n, g)
  <2> HIDE DEF g, S, n
  <2>1. QED
    BY <1>1, <1>2, StepsExist
<1>3. /\ f \in [0 .. n -> S] /\ f[0] = e
      /\ \A i \in 1 .. n : f[i] = g[f[i - 1]][i]
  BY <1>a DEF Computes
<1>4. Is(f)
  <2>1. ASSUME NEW i \in 1 .. n
        PROVE  f[i] = IF i \in J THEN Append(f[i - 1], s[i]) ELSE f[i - 1]
    <3>1. i - 1 \in 0 .. n
      BY <1>2
    <3>2. f[i - 1] \in S
      BY <1>3, <3>1
    <3>3. f[i] = g[f[i - 1]][i]
      BY <1>3
    <3> HIDE DEF S, n
    <3>4. QED
      BY <3>2, <3>3
  <2>2. \A i \in 0 .. n : i = 0 \/ i \in 1 .. n
    BY <1>2
  <2> HIDE DEF g, n, S
  <2>3. QED
    BY <1>3, <2>1, <2>2
<1> DEFINE c == CHOOSE f1 : Is(f1)
<1>5. Is(c)
  <2>1. \E f1 : Is(f1)
    BY <1>4
  <2> HIDE DEF Is
  <2>2. QED
    BY <2>1
<1>6. Chosen(s, J) = c[n]
  BY <1>2 DEF Chosen
<1> HIDE DEF c
<1>7. /\ c[0] = e
      /\ \A i \in 1 .. n : c[i] = IF i \in J THEN Append(c[i - 1], s[i]) ELSE c[i - 1]
  <2> DEFINE h == [i \in 0 .. n |->
                     IF i = 0 THEN e
                     ELSE IF i \in J THEN Append(c[i - 1], s[i]) ELSE c[i - 1]]
  <2>1. c = h
    BY <1>5
  <2> HIDE DEF n
  <2>2. h[0] = e
    BY <1>2
  <2>3. \A i \in 1 .. n : h[i] = IF i \in J THEN Append(c[i - 1], s[i]) ELSE c[i - 1]
    BY <1>2
  <2> HIDE DEF h
  <2>4. QED
    BY <2>1, <2>2, <2>3
<1> DEFINE M == {i \in 0 .. n : c[i] \in S}
<1>8. 0 \in M
  <2>1. c[0] \in S /\ 0 \in 0 .. n
    BY <1>2, <1>7
  <2>2. QED
    BY <2>1
<1>9. ASSUME NEW i \in 0 .. n - 1, i \in M
      PROVE  i + 1 \in M
  <2>1. i + 1 \in 1 .. n /\ (i + 1) - 1 = i /\ i + 1 \in 0 .. n
    BY <1>2
  <2>2. c[i] \in Seq(T)
    BY <1>9
  <2>3. c[i + 1] = IF i + 1 \in J THEN Append(c[i], s[i + 1]) ELSE c[i]
    BY <1>7, <2>1
  <2>4. i + 1 \in J => s[i + 1] \in T
    BY <2>1
  <2>5. c[i + 1] \in Seq(T)
    BY <2>2, <2>3, <2>4
  <2>6. QED
    BY <2>1, <2>5
<1>10. n \in M
  <2> HIDE DEF M, n
  <2>1. \A i \in 0 .. n : i \in M
    BY <1>2, <1>8, <1>9, UpTo
  <2>2. QED
    BY <1>2, <2>1
<1>11. QED
  BY <1>6, <1>10

\* A set of numbers from 1 on with no gap.
LEMMA FirstOnes ==
  ASSUME NEW L \in Nat, NEW S, S \subseteq 1 .. L, \A m \in S : \A i \in 1 .. m : i \in S
  PROVE  Cardinality(S) \in 0 .. L /\ S = 1 .. Cardinality(S)
<1> DEFINE T == (1 .. L + 1) \ S
<1>1. L + 1 \in T /\ T \in SUBSET Nat
  OBVIOUS
<1>2. PICK k \in T : \A j \in T : k <= j
  <2> HIDE DEF T
  <2>1. QED
    BY <1>1, LeastNatural
<1>3. k \in 1 .. L + 1 /\ k \notin S /\ \A j \in 1 .. k - 1 : j \in S
  BY <1>2
<1>4. \A m \in S : m < k
  BY <1>3
<1>5. S = 1 .. k - 1
  <2>1. \A m \in S : m \in 1 .. L /\ m < k /\ m \in 1 .. k - 1
    BY <1>3, <1>4
  <2>2. \A j \in 1 .. k - 1 : j \in S
    BY <1>3
  <2> HIDE DEF T
  <2>3. QED
    BY <2>1, <2>2, Zenon
<1>6. Cardinality(1 .. k - 1) = k - 1
  <2>1. k - 1 \in Nat /\ 1 \in Int /\ k - 1 \in Int
    BY <1>3
  <2>2. Cardinality(1 .. k - 1) = IF 1 > k - 1 THEN 0 ELSE (k - 1) - 1 + 1
    BY <2>1, FS_Interval
  <2>3. QED
    BY <2>1, <2>2
<1>7. QED
  BY <1>3, <1>5, <1>6

\* Numbers that rise, rise by one at least.
LEMMA Rising ==
  ASSUME NEW L \in Nat, NEW f \in [1 .. L -> Nat], NEW b \in Nat,
         \A i \in 1 .. L : b <= f[i],
         \A i, j \in 1 .. L : i < j => f[i] < f[j]
  PROVE  \A i \in 1 .. L : b + i - 1 <= f[i]
<1> DEFINE S == {n \in 0 .. L : n = 0 \/ b + n - 1 <= f[n]}
<1>1. 0 \in S
  OBVIOUS
<1>2. ASSUME NEW n \in 0 .. L - 1, n \in S
      PROVE  n + 1 \in S
  <2>1. n + 1 \in 1 .. L /\ n + 1 \in 0 .. L /\ f[n + 1] \in Nat /\ b <= f[n + 1]
    OBVIOUS
  <2>2. CASE n = 0
    BY <2>1, <2>2
  <2>3. CASE n # 0
    <3>1. n \in 1 .. L /\ n < n + 1 /\ f[n] \in Nat /\ b + n - 1 <= f[n]
      BY <1>2, <2>3
    <3>2. f[n] < f[n + 1]
      BY <2>1, <3>1
    <3>3. QED
      BY <2>1, <3>1, <3>2
  <2>4. QED
    BY <2>2, <2>3
<1>3. \A n \in 0 .. L : n \in S
  <2> HIDE DEF S
  <2>1. QED
    BY <1>1, <1>2, UpTo
<1>4. QED
  BY <1>3

\* What each segment of a packet keeps, the packet keeps (R: what holds after i).
LEMMA ParseSteps ==
  ASSUME NEW S, NEW k \in S, NEW packet, Len(packet) \in Nat,
         \A x \in S : \A i \in 1 .. Len(packet) : ParseSegment(x, packet[i]) \in S,
         NEW R, R \in [0 .. Len(packet) -> SUBSET S], k \in R[0],
         \A i \in 1 .. Len(packet) : \A x \in R[i - 1] : ParseSegment(x, packet[i]) \in R[i]
  PROVE  ParseAll(k, packet) \in R[Len(packet)]
<1> DEFINE n == Len(packet)
           g == [x \in S |-> [i \in 1 .. n |-> ParseSegment(x, packet[i])]]
           Is(f) == f = [i \in 0 .. n |->
                      IF i = 0 THEN k ELSE ParseSegment(f[i - 1], packet[i])]
<1>1. g \in [S -> [1 .. n -> S]] /\ n \in Nat
  OBVIOUS
<1>2. PICK f : Computes(f, S, k, n, g)
  <2> HIDE DEF g, n
  <2>1. QED
    BY <1>1, StepsExist
<1>3. /\ f \in [0 .. n -> S] /\ f[0] = k
      /\ \A i \in 1 .. n : f[i] = g[f[i - 1]][i]
  BY <1>2 DEF Computes
<1>4. Is(f)
  <2>1. ASSUME NEW i \in 1 .. n
        PROVE  f[i] = ParseSegment(f[i - 1], packet[i])
    <3>1. i - 1 \in 0 .. n
      BY <1>1
    <3>2. f[i - 1] \in S
      BY <1>3, <3>1
    <3>3. f[i] = g[f[i - 1]][i]
      BY <1>3
    <3> HIDE DEF n
    <3>4. QED
      BY <3>2, <3>3
  <2>2. \A i \in 0 .. n : i = 0 \/ i \in 1 .. n
    BY <1>1
  <2> HIDE DEF g, n
  <2>3. QED
    BY <1>3, <2>1, <2>2
<1> DEFINE c == CHOOSE f1 : Is(f1)
<1>5. Is(c)
  <2>1. \E f1 : Is(f1)
    BY <1>4
  <2> HIDE DEF Is
  <2>2. QED
    BY <2>1
<1>6. ParseAll(k, packet) = c[n]
  BY DEF ParseAll
<1> HIDE DEF c
<1>7. /\ c[0] = k
      /\ \A i \in 1 .. n : c[i] = ParseSegment(c[i - 1], packet[i])
  <2> DEFINE h == [i \in 0 .. n |-> IF i = 0 THEN k ELSE ParseSegment(c[i - 1], packet[i])]
  <2>1. c = h
    BY <1>5
  <2> HIDE DEF n
  <2>2. h[0] = k
    BY <1>1
  <2>3. \A i \in 1 .. n : h[i] = ParseSegment(c[i - 1], packet[i])
    BY <1>1
  <2> HIDE DEF h
  <2>4. QED
    BY <2>1, <2>2, <2>3
<1> DEFINE M == {i \in 0 .. n : c[i] \in R[i]}
<1>8. 0 \in M
  <2>1. c[0] \in R[0] /\ 0 \in 0 .. n
    BY <1>1, <1>7
  <2>2. QED
    BY <2>1
<1>9. ASSUME NEW i \in 0 .. n - 1, i \in M
      PROVE  i + 1 \in M
  <2>1. i + 1 \in 1 .. n /\ (i + 1) - 1 = i /\ i + 1 \in 0 .. n
    BY <1>1
  <2>2. c[i] \in R[i]
    BY <1>9
  <2>3. c[i + 1] = ParseSegment(c[i], packet[i + 1])
    BY <1>7, <2>1
  <2>4. ParseSegment(c[i], packet[i + 1]) \in R[i + 1]
    BY <2>1, <2>2
  <2>5. QED
    BY <2>1, <2>3, <2>4
<1>10. n \in M
  <2> HIDE DEF M, n
  <2>1. \A i \in 0 .. n : i \in M
    BY <1>1, <1>8, <1>9, UpTo
  <2>2. QED
    BY <1>1, <2>1
<1>11. QED
  BY <1>6, <1>10

\* What each chunk keeps, a buffer keeps.
LEMMA QueueSteps ==
  ASSUME NEW k, NEW chunks, Len(chunks) \in Nat,
         NEW S, NEW R, R \in [0 .. Len(chunks) -> SUBSET S], k \in R[0],
         \A i \in 1 .. Len(chunks) : \A x \in R[i - 1] : QueueChunk(x, chunks[i]) \in R[i]
  PROVE  QueueAll(k, chunks) \in R[Len(chunks)]
<1> DEFINE n == Len(chunks)
           g == [x \in S |-> [i \in 1 .. n |-> QueueChunk(x, chunks[i])]]
           Is(f) == f = [i \in 0 .. n |->
                      IF i = 0 THEN k ELSE QueueChunk(f[i - 1], chunks[i])]
<1>1. n \in Nat /\ \A x \in S : \A i \in 1 .. n : g[x][i] = QueueChunk(x, chunks[i])
  OBVIOUS
<1>a. \A i \in 1 .. n : \A x \in R[i - 1] : g[x][i] \in R[i]
  <2>1. \A i \in 1 .. n : i - 1 \in 0 .. n
    BY <1>1
  <2>2. \A i \in 1 .. n : \A x \in R[i - 1] : x \in S
    BY <2>1
  <2> HIDE DEF g
  <2>3. QED
    BY <1>1, <2>2
<1>2. PICK f : Computes(f, S, k, n, g)
  <2> HIDE DEF g, n
  <2>1. R \in [0 .. n -> SUBSET S] /\ k \in R[0]
    BY DEF n
  <2>2. QED
    BY <1>1, <1>a, <2>1, PathExists
<1>3. /\ f \in [0 .. n -> S] /\ f[0] = k
      /\ \A i \in 1 .. n : f[i] = g[f[i - 1]][i]
  BY <1>2 DEF Computes
<1>4. Is(f)
  <2>1. ASSUME NEW i \in 1 .. n
        PROVE  f[i] = QueueChunk(f[i - 1], chunks[i])
    <3>1. i - 1 \in 0 .. n
      BY <1>1
    <3>2. f[i - 1] \in S
      BY <1>3, <3>1
    <3>3. f[i] = g[f[i - 1]][i]
      BY <1>3
    <3> HIDE DEF n
    <3>4. QED
      BY <3>2, <3>3
  <2>2. \A i \in 0 .. n : i = 0 \/ i \in 1 .. n
    BY <1>1
  <2> HIDE DEF g, n
  <2>3. QED
    BY <1>3, <2>1, <2>2
<1> DEFINE c == CHOOSE f1 : Is(f1)
<1>5. Is(c)
  <2>1. \E f1 : Is(f1)
    BY <1>4
  <2> HIDE DEF Is
  <2>2. QED
    BY <2>1
<1>6. QueueAll(k, chunks) = c[n]
  BY DEF QueueAll
<1> HIDE DEF c
<1>7. /\ c[0] = k
      /\ \A i \in 1 .. n : c[i] = QueueChunk(c[i - 1], chunks[i])
  <2> DEFINE h == [i \in 0 .. n |-> IF i = 0 THEN k ELSE QueueChunk(c[i - 1], chunks[i])]
  <2>1. c = h
    BY <1>5
  <2> HIDE DEF n
  <2>2. h[0] = k
    BY <1>1
  <2>3. \A i \in 1 .. n : h[i] = QueueChunk(c[i - 1], chunks[i])
    BY <1>1
  <2> HIDE DEF h
  <2>4. QED
    BY <2>1, <2>2, <2>3
<1> DEFINE M == {i \in 0 .. n : c[i] \in R[i]}
<1>8. 0 \in M
  <2>1. c[0] \in R[0] /\ 0 \in 0 .. n
    BY <1>1, <1>7
  <2>2. QED
    BY <2>1
<1>9. ASSUME NEW i \in 0 .. n - 1, i \in M
      PROVE  i + 1 \in M
  <2>1. i + 1 \in 1 .. n /\ (i + 1) - 1 = i /\ i + 1 \in 0 .. n
    BY <1>1
  <2>2. c[i] \in R[i]
    BY <1>9
  <2>3. c[i + 1] = QueueChunk(c[i], chunks[i + 1])
    BY <1>7, <2>1
  <2>4. QueueChunk(c[i], chunks[i + 1]) \in R[i + 1]
    BY <2>1, <2>2
  <2>5. QED
    BY <2>1, <2>3, <2>4
<1>10. n \in M
  <2> HIDE DEF M, n
  <2>1. \A i \in 0 .. n : i \in M
    BY <1>1, <1>8, <1>9, UpTo
  <2>2. QED
    BY <1>1, <2>1
<1>11. QED
  BY <1>6, <1>10

\* What each buffer keeps, a write keeps.
LEMMA BufferSteps ==
  ASSUME NEW k, NEW from, NEW w, Len(w) \in Nat,
         NEW S, NEW R, R \in [0 .. Len(w) -> SUBSET S], k \in R[0],
         \A i \in 1 .. Len(w) : \A x \in R[i - 1] : QueueAll(x, Chunks(from + Sums(w)[i - 1], w[i])) \in R[i]
  PROVE  QueueBuffers(k, from, w) \in R[Len(w)]
<1> DEFINE n == Len(w)
           g == [x \in S |-> [i \in 1 .. n |-> QueueAll(x, Chunks(from + Sums(w)[i - 1], w[i]))]]
           Is(f) == f = [i \in 0 .. n |->
                      IF i = 0 THEN k ELSE QueueAll(f[i - 1], Chunks(from + Sums(w)[i - 1], w[i]))]
<1>1. n \in Nat /\ \A x \in S : \A i \in 1 .. n : g[x][i] = QueueAll(x, Chunks(from + Sums(w)[i - 1], w[i]))
  OBVIOUS
<1>a. \A i \in 1 .. n : \A x \in R[i - 1] : g[x][i] \in R[i]
  <2>1. \A i \in 1 .. n : i - 1 \in 0 .. n
    BY <1>1
  <2>2. \A i \in 1 .. n : \A x \in R[i - 1] : x \in S
    BY <2>1
  <2> HIDE DEF g
  <2>3. QED
    BY <1>1, <2>2
<1>2. PICK f : Computes(f, S, k, n, g)
  <2> HIDE DEF g, n
  <2>1. R \in [0 .. n -> SUBSET S] /\ k \in R[0]
    BY DEF n
  <2>2. QED
    BY <1>1, <1>a, <2>1, PathExists
<1>3. /\ f \in [0 .. n -> S] /\ f[0] = k
      /\ \A i \in 1 .. n : f[i] = g[f[i - 1]][i]
  BY <1>2 DEF Computes
<1>4. Is(f)
  <2>1. ASSUME NEW i \in 1 .. n
        PROVE  f[i] = QueueAll(f[i - 1], Chunks(from + Sums(w)[i - 1], w[i]))
    <3>1. i - 1 \in 0 .. n
      BY <1>1
    <3>2. f[i - 1] \in S
      BY <1>3, <3>1
    <3>3. f[i] = g[f[i - 1]][i]
      BY <1>3
    <3> HIDE DEF n
    <3>4. QED
      BY <3>2, <3>3
  <2>2. \A i \in 0 .. n : i = 0 \/ i \in 1 .. n
    BY <1>1
  <2> HIDE DEF g, n
  <2>3. QED
    BY <1>3, <2>1, <2>2
<1> DEFINE c == CHOOSE f1 : Is(f1)
<1>5. Is(c)
  <2>1. \E f1 : Is(f1)
    BY <1>4
  <2> HIDE DEF Is
  <2>2. QED
    BY <2>1
<1>6. QueueBuffers(k, from, w) = c[n]
  BY DEF QueueBuffers
<1> HIDE DEF c
<1>7. /\ c[0] = k
      /\ \A i \in 1 .. n : c[i] = QueueAll(c[i - 1], Chunks(from + Sums(w)[i - 1], w[i]))
  <2> DEFINE h == [i \in 0 .. n |-> IF i = 0 THEN k ELSE QueueAll(c[i - 1], Chunks(from + Sums(w)[i - 1], w[i]))]
  <2>1. c = h
    BY <1>5
  <2> HIDE DEF n
  <2>2. h[0] = k
    BY <1>1
  <2>3. \A i \in 1 .. n : h[i] = QueueAll(c[i - 1], Chunks(from + Sums(w)[i - 1], w[i]))
    BY <1>1
  <2> HIDE DEF h
  <2>4. QED
    BY <2>1, <2>2, <2>3
<1> DEFINE M == {i \in 0 .. n : c[i] \in R[i]}
<1>8. 0 \in M
  <2>1. c[0] \in R[0] /\ 0 \in 0 .. n
    BY <1>1, <1>7
  <2>2. QED
    BY <2>1
<1>9. ASSUME NEW i \in 0 .. n - 1, i \in M
      PROVE  i + 1 \in M
  <2>1. i + 1 \in 1 .. n /\ (i + 1) - 1 = i /\ i + 1 \in 0 .. n
    BY <1>1
  <2>2. c[i] \in R[i]
    BY <1>9
  <2>3. c[i + 1] = QueueAll(c[i], Chunks(from + Sums(w)[i], w[i + 1]))
    BY <1>7, <2>1
  <2>4. QueueAll(c[i], Chunks(from + Sums(w)[i], w[i + 1])) \in R[i + 1]
    BY <2>1, <2>2
  <2>5. QED
    BY <2>1, <2>3, <2>4
<1>10. n \in M
  <2> HIDE DEF M, n
  <2>1. \A i \in 0 .. n : i \in M
    BY <1>1, <1>8, <1>9, UpTo
  <2>2. QED
    BY <1>1, <2>1
<1>11. QED
  BY <1>6, <1>10

-----------------------------------------------------------------------------
(* Segments of consecutive bytes.                                          *)

\* The lengths of the first 0, 1, ... segments together, and of all
Lens(b) == [k \in 1 .. Len(b) |-> Len(b[k])]
Ends(b) == Sums(Lens(b))
Size(b) == Ends(b)[Len(b)]

\* Segments that hold the bytes after n, one after the other
Chain(b, n) ==
  /\ b \in Seq(Seq(Nat))
  /\ \A k \in 1 .. Len(b) :
       /\ Len(b[k]) >= 1 /\ Len(b[k]) <= Mss
       /\ \A j \in 1 .. Len(b[k]) : b[k][j] = n + Ends(b)[k - 1] + j

LEMMA LensType ==
  ASSUME NEW b \in Seq(Seq(Nat))
  PROVE  /\ Lens(b) \in Seq(Nat) /\ Len(Lens(b)) = Len(b) /\ Len(b) \in Nat
         /\ \A k \in 1 .. Len(b) : b[k] \in Seq(Nat) /\ Lens(b)[k] = Len(b[k]) /\ Len(b[k]) \in Nat
<1>1. Len(b) \in Nat /\ \A k \in 1 .. Len(b) : b[k] \in Seq(Nat) /\ Len(b[k]) \in Nat
  OBVIOUS
<1>2. QED
  BY <1>1 DEF Lens

LEMMA EndsFacts ==
  ASSUME NEW b \in Seq(Seq(Nat))
  PROVE  /\ Len(b) \in Nat /\ Ends(b)[0] = 0
         /\ \A k \in 0 .. Len(b) : Ends(b)[k] \in Nat
         /\ \A k \in 1 .. Len(b) : Ends(b)[k] = Ends(b)[k - 1] + Len(b[k])
         /\ Size(b) \in Nat /\ Size(b) = SumOf(Lens(b))
<1>1. /\ Lens(b) \in Seq(Nat) /\ Len(Lens(b)) = Len(b) /\ Len(b) \in Nat
      /\ \A k \in 1 .. Len(b) : Lens(b)[k] = Len(b[k])
  BY LensType
<1>2. /\ Sums(Lens(b))[0] = 0
      /\ \A k \in 0 .. Len(b) : Sums(Lens(b))[k] \in Nat
      /\ \A k \in 1 .. Len(b) : Sums(Lens(b))[k] = Sums(Lens(b))[k - 1] + Lens(b)[k]
  BY <1>1, SumsStep
<1>3. /\ Ends(b)[0] = 0
      /\ \A k \in 0 .. Len(b) : Ends(b)[k] \in Nat
      /\ \A k \in 1 .. Len(b) : Ends(b)[k] = Ends(b)[k - 1] + Len(b[k])
  BY <1>1, <1>2 DEF Ends
<1>4. Len(b) \in 0 .. Len(b)
  BY <1>1
<1>5. QED
  BY <1>1, <1>3, <1>4 DEF Size, SumOf, Ends

LEMMA EndsRise ==
  ASSUME NEW b \in Seq(Seq(Nat)), NEW m \in 0 .. Len(b), NEW n \in m .. Len(b)
  PROVE  Ends(b)[m] <= Ends(b)[n]
<1> DEFINE e == Ends(b)
           L == Len(b)
           S == {i \in 0 .. L - m : e[m] <= e[m + i]}
<1>1. /\ L \in Nat /\ \A k \in 0 .. L : e[k] \in Nat
      /\ \A k \in 1 .. L : e[k] >= e[k - 1]
  <2>1. /\ L \in Nat /\ \A k \in 0 .. L : e[k] \in Nat
        /\ \A k \in 1 .. L : e[k] = e[k - 1] + Len(b[k])
        /\ \A k \in 1 .. L : Len(b[k]) \in Nat
    BY EndsFacts, LensType
  <2> HIDE DEF e, L
  <2>2. ASSUME NEW k \in 1 .. L
        PROVE  e[k] >= e[k - 1]
    <3>1. k - 1 \in 0 .. L /\ Len(b[k]) \in Nat /\ e[k] = e[k - 1] + Len(b[k])
      BY <2>1
    <3>2. e[k - 1] \in Nat
      BY <2>1, <3>1
    <3>3. QED
      BY <3>1, <3>2
  <2>3. QED
    BY <2>1, <2>2
<1> HIDE DEF e, L
<1>2. m \in Nat /\ m <= L /\ n - m \in 0 .. L - m /\ L - m \in Nat /\ m + (n - m) = n
  BY <1>1 DEF L
<1>3. 0 \in S
  <2>1. e[m] \in Nat /\ m + 0 = m
    BY <1>1, <1>2
  <2>2. QED
    BY <1>2, <2>1
<1>4. ASSUME NEW i \in 0 .. (L - m) - 1, i \in S
      PROVE  i + 1 \in S
  <2>1. /\ m + (i + 1) \in 1 .. L /\ (m + (i + 1)) - 1 = m + i
        /\ m + i \in 0 .. L /\ i + 1 \in 0 .. L - m /\ m \in 0 .. L /\ m + (i + 1) \in 0 .. L
    BY <1>1, <1>2
  <2>2. e[m + (i + 1)] >= e[m + i] /\ e[m + i] \in Nat /\ e[m] \in Nat /\ e[m + (i + 1)] \in Nat
    BY <1>1, <2>1
  <2>3. e[m] <= e[m + i]
    BY <1>4
  <2>4. e[m] <= e[m + (i + 1)]
    BY <2>2, <2>3
  <2>5. QED
    BY <2>1, <2>4
<1>5. n - m \in S
  <2> HIDE DEF S
  <2>1. \A i \in 0 .. L - m : i \in S
    BY <1>2, <1>3, <1>4, UpTo
  <2>2. QED
    BY <1>2, <2>1
<1>6. QED
  BY <1>2, <1>5 DEF e

\* Sequences with the same first segments
LEMMA EndsPrefix ==
  ASSUME NEW b \in Seq(Seq(Nat)), NEW c \in Seq(Seq(Nat)), NEW m \in Nat,
         m <= Len(b), m <= Len(c), \A k \in 1 .. m : Len(b[k]) = Len(c[k])
  PROVE  \A k \in 0 .. m : Ends(b)[k] = Ends(c)[k]
<1>1. /\ Lens(b) \in Seq(Nat) /\ Len(Lens(b)) = Len(b) /\ Len(b) \in Nat
      /\ Lens(c) \in Seq(Nat) /\ Len(Lens(c)) = Len(c) /\ Len(c) \in Nat
      /\ \A k \in 1 .. m : Lens(b)[k] = Lens(c)[k]
  <2>1. /\ Lens(b) \in Seq(Nat) /\ Len(Lens(b)) = Len(b) /\ Len(b) \in Nat
        /\ \A k \in 1 .. Len(b) : Lens(b)[k] = Len(b[k])
    BY LensType
  <2>2. /\ Lens(c) \in Seq(Nat) /\ Len(Lens(c)) = Len(c) /\ Len(c) \in Nat
        /\ \A k \in 1 .. Len(c) : Lens(c)[k] = Len(c[k])
    BY LensType
  <2>3. \A k \in 1 .. m : k \in 1 .. Len(b) /\ k \in 1 .. Len(c)
    BY <2>1, <2>2
  <2>4. QED
    BY <2>1, <2>2, <2>3
<1>2. ASSUME NEW k \in 0 .. m
      PROVE  Ends(b)[k] = Ends(c)[k]
  <2>1. /\ k \in Nat /\ 0 \in Nat /\ k <= Len(Lens(c)) /\ 0 + k <= Len(Lens(b))
        /\ \A n \in 1 .. k : Lens(b)[0 + n] = Lens(c)[n]
    BY <1>1
  <2>2. Sums(Lens(b))[0 + k] = Sums(Lens(b))[0] + Sums(Lens(c))[k]
    BY <1>1, <2>1, SumsWithin, Zenon
  <2>3. Ends(b)[0] = 0 /\ Ends(c)[k] \in Nat /\ 0 + k = k
    BY <1>1, <2>1, EndsFacts
  <2>4. QED
    BY <2>2, <2>3 DEF Ends
<1>3. QED
  BY <1>2

LEMMA EndsWithin ==
  ASSUME NEW b \in Seq(Seq(Nat)), NEW c \in Seq(Seq(Nat)), NEW m \in Nat,
         m + Len(c) <= Len(b), \A k \in 1 .. Len(c) : Len(b[m + k]) = Len(c[k])
  PROVE  \A k \in 0 .. Len(c) : Ends(b)[m + k] = Ends(b)[m] + Ends(c)[k]
<1>1. /\ Lens(b) \in Seq(Nat) /\ Len(Lens(b)) = Len(b) /\ Len(b) \in Nat
      /\ Lens(c) \in Seq(Nat) /\ Len(Lens(c)) = Len(c) /\ Len(c) \in Nat
      /\ \A k \in 1 .. Len(b) : Lens(b)[k] = Len(b[k])
      /\ \A k \in 1 .. Len(c) : Lens(c)[k] = Len(c[k])
  BY LensType
<1>a. \A k \in 1 .. Len(c) : Lens(b)[m + k] = Lens(c)[k]
  <2>1. \A k \in 1 .. Len(c) : m + k \in 1 .. Len(b)
    BY <1>1
  <2>2. QED
    BY <1>1, <2>1
<1>2. ASSUME NEW k \in 0 .. Len(c)
      PROVE  Ends(b)[m + k] = Ends(b)[m] + Ends(c)[k]
  <2>1. /\ k \in Nat /\ k <= Len(Lens(c)) /\ m + k <= Len(Lens(b))
        /\ \A n \in 1 .. k : Lens(b)[m + n] = Lens(c)[n]
    BY <1>1, <1>a
  <2>2. Sums(Lens(b))[m + k] = Sums(Lens(b))[m] + Sums(Lens(c))[k]
    BY <1>1, <2>1, SumsWithin, Zenon
  <2>3. QED
    BY <2>2 DEF Ends
<1>3. QED
  BY <1>2

LEMMA SizeConcat ==
  ASSUME NEW b \in Seq(Seq(Nat)), NEW c \in Seq(Seq(Nat))
  PROVE  /\ b \o c \in Seq(Seq(Nat)) /\ Len(b \o c) = Len(b) + Len(c)
         /\ \A k \in 0 .. Len(b) : Ends(b \o c)[k] = Ends(b)[k]
         /\ \A k \in 0 .. Len(c) : Ends(b \o c)[Len(b) + k] = Size(b) + Ends(c)[k]
         /\ Size(b \o c) = Size(b) + Size(c)
<1> DEFINE d == b \o c
<1>1. /\ d \in Seq(Seq(Nat)) /\ Len(d) = Len(b) + Len(c) /\ Len(b) \in Nat /\ Len(c) \in Nat
      /\ \A k \in 1 .. Len(b) : d[k] = b[k]
      /\ \A k \in 1 .. Len(c) : d[Len(b) + k] = c[k]
  OBVIOUS
<1> HIDE DEF d
<1>2. \A k \in 0 .. Len(b) : Ends(d)[k] = Ends(b)[k]
  <2>1. Len(b) <= Len(d) /\ Len(b) <= Len(b)
    BY <1>1
  <2>2. QED
    BY <1>1, <2>1, EndsPrefix, Zenon
<1>3. \A k \in 0 .. Len(c) : Ends(d)[Len(b) + k] = Ends(d)[Len(b)] + Ends(c)[k]
  <2>1. Len(b) + Len(c) <= Len(d)
    BY <1>1
  <2>2. \A k \in 1 .. Len(c) : Len(d[Len(b) + k]) = Len(c[k])
    BY <1>1
  <2>3. QED
    BY <1>1, <2>1, <2>2, EndsWithin, Zenon
<1>4. Ends(d)[Len(b)] = Size(b)
  <2>1. Len(b) \in 0 .. Len(b)
    BY <1>1
  <2>2. QED
    BY <1>2, <2>1 DEF Size
<1>5. Size(d) = Size(b) + Size(c)
  <2>1. Len(c) \in 0 .. Len(c)
    BY <1>1
  <2>2. QED
    BY <1>1, <1>3, <1>4, <2>1 DEF Size
<1>6. QED
  BY <1>1, <1>2, <1>3, <1>4, <1>5 DEF d

LEMMA ChainConcat ==
  ASSUME NEW n \in Nat, NEW b, NEW c, Chain(b, n), Chain(c, n + Size(b))
  PROVE  Chain(b \o c, n) /\ Size(b \o c) = Size(b) + Size(c)
<1> DEFINE d == b \o c
           B == Len(b)
           C == Len(c)
<1>1. b \in Seq(Seq(Nat)) /\ c \in Seq(Seq(Nat)) /\ Size(b) \in Nat /\ B \in Nat /\ C \in Nat
  BY EndsFacts DEF Chain
<1>2. /\ d \in Seq(Seq(Nat)) /\ Len(d) = B + C /\ Size(d) = Size(b) + Size(c)
      /\ \A k \in 0 .. B : Ends(d)[k] = Ends(b)[k]
      /\ \A k \in 0 .. C : Ends(d)[B + k] = Size(b) + Ends(c)[k]
  BY <1>1, SizeConcat
<1>3. /\ \A k \in 1 .. B : d[k] = b[k]
      /\ \A k \in 1 .. C : d[B + k] = c[k]
  BY <1>1
<1>4. /\ \A k \in 0 .. C : Ends(c)[k] \in Nat
  BY <1>1, EndsFacts
<1> HIDE DEF d, B, C
<1>5. ASSUME NEW k \in 1 .. B + C
      PROVE  /\ Len(d[k]) >= 1 /\ Len(d[k]) <= Mss
             /\ \A j \in 1 .. Len(d[k]) : d[k][j] = n + Ends(d)[k - 1] + j
  <2>1. CASE k <= B
    <3>1. k \in 1 .. B /\ k - 1 \in 0 .. B
      BY <1>1, <2>1
    <3>2. d[k] = b[k] /\ Ends(d)[k - 1] = Ends(b)[k - 1]
      BY <1>2, <1>3, <3>1
    <3>3. /\ Len(b[k]) >= 1 /\ Len(b[k]) <= Mss
          /\ \A j \in 1 .. Len(b[k]) : b[k][j] = n + Ends(b)[k - 1] + j
      BY <3>1 DEF Chain, B
    <3>4. QED
      BY <3>2, <3>3
  <2>2. CASE k > B
    <3> DEFINE l == k - B
    <3>1. l \in 1 .. C /\ l - 1 \in 0 .. C /\ B + l = k /\ B + (l - 1) = k - 1
      BY <1>1, <2>2
    <3> HIDE DEF l
    <3>2. d[k] = c[l] /\ Ends(d)[k - 1] = Size(b) + Ends(c)[l - 1] /\ Ends(c)[l - 1] \in Nat
      <4>1. d[B + l] = c[l] /\ Ends(d)[B + (l - 1)] = Size(b) + Ends(c)[l - 1]
        BY <1>2, <1>3, <3>1
      <4>2. QED
        BY <1>4, <3>1, <4>1
    <3>3. /\ Len(c[l]) >= 1 /\ Len(c[l]) <= Mss
          /\ \A j \in 1 .. Len(c[l]) : c[l][j] = (n + Size(b)) + Ends(c)[l - 1] + j
      BY <3>1 DEF Chain, C
    <3>4. (n + Size(b)) + Ends(c)[l - 1] = n + Ends(d)[k - 1]
      BY <1>1, <3>2
    <3>5. QED
      BY <3>2, <3>3, <3>4
  <2>3. QED
    BY <1>1, <2>1, <2>2
<1>6. Chain(d, n)
  BY <1>2, <1>5 DEF Chain
<1>7. QED
  BY <1>2, <1>6 DEF d

\* c is the part of b with the l elements after the first m.
IsPart(c, b, m, l) ==
  /\ m \in 0 .. Len(b) /\ l \in 0 .. Len(b) - m
  /\ c \in Seq(Seq(Nat)) /\ Len(c) = l /\ \A k \in 1 .. l : c[k] = b[m + k]

\* A part of a chain is a chain.
LEMMA ChainPart ==
  ASSUME NEW n \in Nat, NEW b, Chain(b, n), NEW m, NEW l, NEW c, IsPart(c, b, m, l)
  PROVE  /\ Chain(c, n + Ends(b)[m]) /\ Ends(b)[m] \in Nat
         /\ Size(c) = Ends(b)[m + l] - Ends(b)[m]
<1>a. /\ m \in 0 .. Len(b) /\ l \in 0 .. Len(b) - m
      /\ c \in Seq(Seq(Nat)) /\ Len(c) = l /\ \A k \in 1 .. l : c[k] = b[m + k]
  BY DEF IsPart
<1>1. /\ b \in Seq(Seq(Nat)) /\ Len(b) \in Nat /\ m \in Nat /\ l \in Nat /\ m + l <= Len(b)
      /\ Ends(b)[m] \in Nat /\ \A k \in 0 .. l : Ends(c)[k] \in Nat
  <2>1. b \in Seq(Seq(Nat))
    BY DEF Chain
  <2>2. QED
    BY <1>a, <2>1, EndsFacts
<1>2. \A k \in 0 .. l : Ends(b)[m + k] = Ends(b)[m] + Ends(c)[k]
  <2>1. m + Len(c) <= Len(b) /\ \A k \in 1 .. Len(c) : Len(b[m + k]) = Len(c[k])
    BY <1>a, <1>1
  <2>2. \A k \in 0 .. Len(c) : Ends(b)[m + k] = Ends(b)[m] + Ends(c)[k]
    BY <1>a, <1>1, <2>1, EndsWithin, Zenon
  <2>3. QED
    BY <1>a, <2>2
<1>3. ASSUME NEW k \in 1 .. l
      PROVE  /\ Len(c[k]) >= 1 /\ Len(c[k]) <= Mss
             /\ \A j \in 1 .. Len(c[k]) : c[k][j] = (n + Ends(b)[m]) + Ends(c)[k - 1] + j
  <2>1. /\ m + k \in 1 .. Len(b) /\ k - 1 \in 0 .. l /\ (m + k) - 1 = m + (k - 1)
        /\ c[k] = b[m + k]
    BY <1>a, <1>1, SMT
  <2>2. /\ Len(b[m + k]) >= 1 /\ Len(b[m + k]) <= Mss
        /\ \A j \in 1 .. Len(b[m + k]) : b[m + k][j] = n + Ends(b)[(m + k) - 1] + j
    BY <2>1 DEF Chain
  <2>3. Ends(b)[(m + k) - 1] = Ends(b)[m] + Ends(c)[k - 1] /\ Ends(c)[k - 1] \in Nat
    BY <1>1, <1>2, <2>1
  <2>4. n + Ends(b)[(m + k) - 1] = (n + Ends(b)[m]) + Ends(c)[k - 1]
    BY <1>1, <2>3
  <2>5. QED
    BY <2>1, <2>2, <2>4
<1>4. Size(c) = Ends(b)[m + l] - Ends(b)[m]
  <2>1. l \in 0 .. l /\ Ends(c)[l] \in Nat /\ Size(c) = Ends(c)[l]
    BY <1>a, <1>1 DEF Size
  <2>2. Ends(b)[m + l] = Ends(b)[m] + Ends(c)[l]
    BY <1>2, <2>1
  <2>3. QED
    BY <1>1, <2>1, <2>2
<1>5. QED
  BY <1>a, <1>1, <1>3, <1>4 DEF Chain

LEMMA ChainSplit ==
  ASSUME NEW n \in Nat, NEW b, Chain(b, n), NEW m \in 0 .. Len(b)
  PROVE  /\ Chain(SubSeq(b, 1, m), n) /\ Len(SubSeq(b, 1, m)) = m
         /\ Chain(SubSeq(b, m + 1, Len(b)), n + Size(SubSeq(b, 1, m)))
         /\ Len(SubSeq(b, m + 1, Len(b))) = Len(b) - m
         /\ Size(b) = Size(SubSeq(b, 1, m)) + Size(SubSeq(b, m + 1, Len(b)))
<1> DEFINE c == SubSeq(b, 1, m)
           d == SubSeq(b, m + 1, Len(b))
<1>1. b \in Seq(Seq(Nat)) /\ Len(b) \in Nat /\ m \in Nat /\ m <= Len(b)
  BY EndsFacts DEF Chain
<1>2. /\ c \in Seq(Seq(Nat)) /\ Len(c) = m /\ \A k \in 1 .. m : c[k] = b[0 + k]
  BY <1>1
<1>3. /\ d \in Seq(Seq(Nat)) /\ Len(d) = Len(b) - m
      /\ \A k \in 1 .. Len(b) - m : d[k] = b[m + k]
  <2>1. d \in Seq(Seq(Nat)) /\ Len(d) = Len(b) - m
    BY <1>1
  <2>2. ASSUME NEW k \in 1 .. Len(b) - m
        PROVE  d[k] = b[m + k]
    <3>1. (m + 1) + k - 1 = m + k
      BY <1>1
    <3>2. QED
      BY <1>1, <3>1
  <2>3. QED
    BY <2>1, <2>2
<1> HIDE DEF c, d
<1>4. /\ Ends(b)[0] = 0 /\ Ends(b)[m] \in Nat /\ Ends(b)[Len(b)] \in Nat
      /\ Size(b) = Ends(b)[Len(b)]
  BY <1>1, EndsFacts DEF Size
<1>5. Chain(c, n + Ends(b)[0]) /\ Size(c) = Ends(b)[0 + m] - Ends(b)[0]
  <2>1. IsPart(c, b, 0, m)
    BY <1>1, <1>2 DEF IsPart
  <2>2. QED
    BY <2>1, ChainPart, SMT
<1>6. Chain(d, n + Ends(b)[m]) /\ Size(d) = Ends(b)[m + (Len(b) - m)] - Ends(b)[m]
  <2>1. IsPart(d, b, m, Len(b) - m)
    BY <1>1, <1>3 DEF IsPart
  <2>2. QED
    BY <2>1, ChainPart, SMT
<1>7. /\ n + Ends(b)[0] = n /\ 0 + m = m /\ m + (Len(b) - m) = Len(b)
      /\ Ends(b)[m] - Ends(b)[0] = Ends(b)[m]
  BY <1>1, <1>4
<1>8. Chain(c, n) /\ Size(c) = Ends(b)[m]
  BY <1>5, <1>7
<1>9. Chain(d, n + Size(c)) /\ Size(b) = Size(c) + Size(d)
  BY <1>4, <1>6, <1>7, <1>8
<1>10. QED
  BY <1>2, <1>3, <1>8, <1>9 DEF c, d

LEMMA ChainEmpty ==
  ASSUME NEW n \in Nat
  PROVE  Chain(<<>>, n) /\ Size(<<>>) = 0
<1> DEFINE e == <<>>
<1>1. e \in Seq(Seq(Nat)) /\ Len(e) = 0
  OBVIOUS
<1> HIDE DEF e
<1>2. Ends(e)[0] = 0
  BY <1>1, EndsFacts
<1>3. Chain(e, n) /\ Size(e) = 0
  BY <1>1, <1>2 DEF Chain, Size
<1>4. QED
  BY <1>3 DEF e

LEMMA ChainOne ==
  ASSUME NEW n \in Nat, NEW x \in Seq(Nat), Len(x) >= 1, Len(x) <= Mss,
         \A j \in 1 .. Len(x) : x[j] = n + j
  PROVE  Chain(<<x>>, n) /\ Size(<<x>>) = Len(x)
<1> DEFINE b == <<x>>
<1>1. b \in Seq(Seq(Nat)) /\ Len(b) = 1 /\ b[1] = x /\ Len(x) \in Nat
  OBVIOUS
<1> HIDE DEF b
<1>2. Ends(b)[0] = 0 /\ Ends(b)[1] = Ends(b)[1 - 1] + Len(b[1])
  <2>1. 1 \in 1 .. Len(b)
    BY <1>1
  <2>2. QED
    BY <1>1, <2>1, EndsFacts
<1>3. \A k \in 1 .. 1 : k = 1 /\ k - 1 = 0
  OBVIOUS
<1>4. \A k \in 1 .. Len(b) : /\ Len(b[k]) >= 1 /\ Len(b[k]) <= Mss
        /\ \A j \in 1 .. Len(b[k]) : b[k][j] = n + Ends(b)[k - 1] + j
  <2>1. \A j \in 1 .. Len(x) : x[j] = n + 0 + j
    OBVIOUS
  <2>2. QED
    BY <1>1, <1>2, <1>3, <2>1
<1>5. Chain(b, n) /\ Size(b) = Len(x)
  BY <1>1, <1>2, <1>4 DEF Chain, Size
<1>6. QED
  BY <1>5 DEF b

\* Each segment has a byte at least.
LEMMA ChainCount ==
  ASSUME NEW n \in Nat, NEW b, Chain(b, n)
  PROVE  Len(b) \in Nat /\ Size(b) \in Nat /\ Len(b) <= Size(b)
<1> DEFINE L == Len(b)
           e == Ends(b)
           S == {k \in 0 .. L : k <= e[k]}
<1>1. /\ b \in Seq(Seq(Nat)) /\ L \in Nat /\ e[0] = 0 /\ \A k \in 0 .. L : e[k] \in Nat
      /\ \A k \in 1 .. L : e[k] = e[k - 1] + Len(b[k])
      /\ \A k \in 1 .. L : Len(b[k]) \in Nat /\ Len(b[k]) >= 1
      /\ Size(b) = e[L]
  BY EndsFacts, LensType DEF Chain, Size
<1> HIDE DEF L, e
<1>2. 0 \in S
  BY <1>1
<1>3. ASSUME NEW k \in 0 .. L - 1, k \in S
      PROVE  k + 1 \in S
  <2>1. k + 1 \in 1 .. L /\ (k + 1) - 1 = k /\ k + 1 \in 0 .. L /\ k <= e[k] /\ k \in 0 .. L
    BY <1>1, <1>3
  <2>2. e[k + 1] = e[k] + Len(b[k + 1]) /\ e[k] \in Nat
    BY <1>1, <2>1
  <2>3. Len(b[k + 1]) \in Nat /\ Len(b[k + 1]) >= 1
    BY <1>1, <2>1
  <2>4. k + 1 <= e[k + 1]
    BY <2>1, <2>2, <2>3
  <2>5. QED
    BY <2>1, <2>4
<1>4. L \in S
  <2> HIDE DEF S
  <2>1. \A k \in 0 .. L : k \in S
    BY <1>1, <1>2, <1>3, UpTo
  <2>2. QED
    BY <1>1, <2>1
<1>5. QED
  BY <1>1, <1>4 DEF L

\* A byte is in one of the segments.
LEMMA ChainHolds ==
  ASSUME NEW n \in Nat, NEW b, Chain(b, n), NEW x \in Nat, n < x, x <= n + Size(b)
  PROVE  \E k \in 1 .. Len(b) :
           /\ n + Ends(b)[k - 1] < x /\ x <= n + Ends(b)[k]
           /\ \E j \in 1 .. Len(b[k]) : b[k][j] = x
<1> DEFINE L == Len(b)
           e == Ends(b)
           T == {k \in 0 .. L : x <= n + e[k]}
<1>1. /\ b \in Seq(Seq(Nat)) /\ L \in Nat /\ e[0] = 0 /\ \A k \in 0 .. L : e[k] \in Nat
      /\ \A k \in 1 .. L : e[k] = e[k - 1] + Len(b[k])
      /\ \A k \in 1 .. L : Len(b[k]) \in Nat
      /\ Size(b) = e[L]
      /\ \A k \in 1 .. L : \A j \in 1 .. Len(b[k]) : b[k][j] = n + e[k - 1] + j
  BY EndsFacts, LensType DEF Chain, Size
<1> HIDE DEF L, e
<1>2. L \in T /\ T \in SUBSET Nat
  BY <1>1
<1>3. PICK k \in T : \A j \in T : k <= j
  <2> HIDE DEF T
  <2>1. QED
    BY <1>2, LeastNatural
<1>4. k # 0
  BY <1>1, <1>3
<1>5. k \in 1 .. L /\ k - 1 \in 0 .. L /\ k - 1 \notin T
  BY <1>1, <1>3, <1>4
<1>6. /\ x <= n + e[k] /\ e[k - 1] \in Nat /\ n + e[k - 1] < x
      /\ e[k] = e[k - 1] + Len(b[k]) /\ Len(b[k]) \in Nat
  BY <1>1, <1>3, <1>5
<1> DEFINE j == x - (n + e[k - 1])
<1>7. j \in 1 .. Len(b[k]) /\ n + e[k - 1] + j = x
  BY <1>6
<1> HIDE DEF j
<1>8. b[k][j] = x
  BY <1>1, <1>5, <1>7
<1>9. QED
  BY <1>5, <1>6, <1>7, <1>8 DEF L, e

-----------------------------------------------------------------------------
(* The engine.  d is the segments one end has given a number to, in order; *)
(* the segment with n before it is d[n + 1].                               *)

Seg == [cmd : {"ACK", "PUSH", "WASK", "WINS"}, sn : Sns, una : Sns,
        wnd : 0 .. Wnd, data : Seq(Nat)]
Sent == [sn : Sns, data : Seq(Nat), acked : BOOLEAN]
Kept == [sn : Sns, data : Seq(Nat)]
KcpT ==
  [una : Sns, nxt : Sns, rnxt : Sns, rmt : 0 .. Wnd, queue : Seq(Seq(Nat)),
   buf : Seq(Sent), rq : Seq(Seq(Nat)), rbuf : Seq(Kept), acks : Seq(Sns),
   tell : BOOLEAN, armed : BOOLEAN]

\* Few enough segments for numbers to be told apart
Few(d) == d \in Seq(Seq(Nat)) /\ 2 * (Len(d) + Wnd) <= SnModulus

\* The segment is the one of d with its number.
At(s, d) == Abs(s.sn) < Len(d) /\ s.data = d[Abs(s.sn) + 1]

\* The segments an end has received, by how many are before them
Have(k) ==
  {j \in Nat : j < Abs(k.rnxt) \/ \E i \in 1 .. Len(k.rbuf) : Abs(k.rbuf[i].sn) = j}

\* How many segments were taken from rcv_queue
Taken(k) == Abs(k.rnxt) - Len(k.rq)

\* What k has received and not handed on, of d
Receives(k, d) ==
  /\ Abs(k.rnxt) <= Len(d)
  /\ Len(k.rq) <= Wnd /\ Len(k.rq) <= Abs(k.rnxt)
  /\ \A i \in 1 .. Len(k.rq) : k.rq[i] = d[Taken(k) + i]
  /\ \A i \in 1 .. Len(k.rbuf) :
       /\ Abs(k.rnxt) <= Abs(k.rbuf[i].sn) /\ Abs(k.rbuf[i].sn) < Abs(k.rnxt) + Wnd
       /\ At(k.rbuf[i], d)
  /\ \A i, j \in 1 .. Len(k.rbuf) : i < j => Abs(k.rbuf[i].sn) < Abs(k.rbuf[j].sn)

\* The acknowledgements k will send are for segments it has.
Owes(k) == \A i \in 1 .. Len(k.acks) : Abs(k.acks[i]) \in Have(k)

\* What k has under way of d, when the other end has H of it
Sends(k, d, H, die) ==
  /\ Abs(k.nxt) = Len(d)
  /\ Len(k.buf) <= Wnd
  /\ \A i \in 1 .. Len(k.buf) :
       /\ Abs(k.buf[i].sn) = Abs(k.una) + i - 1
       /\ IF k.buf[i].acked THEN Abs(k.buf[i].sn) \in H ELSE At(k.buf[i], d)
  /\ IF die THEN k.buf = <<>> /\ k.queue = <<>>
     ELSE /\ Abs(k.una) + Len(k.buf) = Len(d)
          /\ \A j \in 0 .. Abs(k.una) - 1 : j \in H

\* A segment of one that sends d and has H of what the receiver sends
Valid(s, d, H) ==
  /\ s \in Seg
  /\ \A j \in 0 .. Abs(s.una) - 1 : j \in H
  /\ s.cmd = "ACK" => Abs(s.sn) \in H
  /\ s.cmd = "PUSH" => At(s, d)

SameSend(k, m) ==
  /\ m.una = k.una /\ m.nxt = k.nxt /\ m.rmt = k.rmt
  /\ m.queue = k.queue /\ m.buf = k.buf /\ m.armed = k.armed

SameReceive(k, m) == m.rnxt = k.rnxt /\ m.rq = k.rq /\ m.rbuf = k.rbuf

LEMMA KcpFields ==
  ASSUME NEW k \in KcpT
  PROVE  /\ k.una \in Sns /\ k.nxt \in Sns /\ k.rnxt \in Sns /\ k.rmt \in 0 .. Wnd
         /\ k.queue \in Seq(Seq(Nat)) /\ k.buf \in Seq(Sent) /\ k.rq \in Seq(Seq(Nat))
         /\ k.rbuf \in Seq(Kept) /\ k.acks \in Seq(Sns)
         /\ Len(k.queue) \in Nat /\ Len(k.buf) \in Nat /\ Len(k.rq) \in Nat
         /\ Len(k.rbuf) \in Nat /\ Len(k.acks) \in Nat
         /\ k.tell \in BOOLEAN /\ k.armed \in BOOLEAN
BY DEF KcpT

LEMMA KcpNumbers ==
  ASSUME NEW k \in KcpT
  PROVE  /\ Abs(k.una) \in Nat /\ Abs(k.nxt) \in Nat /\ Abs(k.rnxt) \in Nat
         /\ \A i \in 1 .. Len(k.buf) : k.buf[i] \in Sent /\ k.buf[i].sn \in Sns /\ Abs(k.buf[i].sn) \in Nat
         /\ \A i \in 1 .. Len(k.rbuf) : k.rbuf[i] \in Kept /\ k.rbuf[i].sn \in Sns /\ Abs(k.rbuf[i].sn) \in Nat
         /\ \A i \in 1 .. Len(k.acks) : k.acks[i] \in Sns /\ Abs(k.acks[i]) \in Nat
<1>1. /\ k.una \in Sns /\ k.nxt \in Sns /\ k.rnxt \in Sns
      /\ \A i \in 1 .. Len(k.buf) : k.buf[i] \in Sent /\ k.buf[i].sn \in Sns
      /\ \A i \in 1 .. Len(k.rbuf) : k.rbuf[i] \in Kept /\ k.rbuf[i].sn \in Sns
      /\ \A i \in 1 .. Len(k.acks) : k.acks[i] \in Sns
  <2>1. \A i \in 1 .. Len(k.buf) : k.buf[i] \in Sent
    BY KcpFields
  <2>2. \A i \in 1 .. Len(k.rbuf) : k.rbuf[i] \in Kept
    BY KcpFields
  <2>3. \A x \in Sent : x.sn \in Sns
    BY DEF Sent
  <2>4. \A x \in Kept : x.sn \in Sns
    BY DEF Kept
  <2>5. QED
    BY <2>1, <2>2, <2>3, <2>4, KcpFields
<1>2. QED
  BY <1>1, AbsType

LEMMA FewFacts ==
  ASSUME NEW d, Few(d)
  PROVE  /\ d \in Seq(Seq(Nat)) /\ Len(d) \in Nat /\ 2 * (Len(d) + Wnd) <= SnModulus
         /\ \A i \in 1 .. Len(d) : d[i] \in Seq(Nat)
BY DEF Few

\* What has arrived was sent.
LEMMA HaveSent ==
  ASSUME NEW d, Few(d), NEW k \in KcpT, Receives(k, d)
  PROVE  \A j \in Have(k) : j \in Nat /\ j < Len(d)
<1>1. Abs(k.rnxt) <= Len(d) /\ \A i \in 1 .. Len(k.rbuf) : Abs(k.rbuf[i].sn) < Len(d)
  BY DEF Receives, At
<1>2. Abs(k.rnxt) \in Nat /\ Len(d) \in Nat
  BY KcpNumbers, FewFacts
<1>3. QED
  BY <1>1, <1>2 DEF Have

-----------------------------------------------------------------------------
(* Receiving.                                                              *)

\* The segments that move to rcv_queue are the next ones.
LEMMA MoveCount ==
  ASSUME NEW d, Few(d), NEW k \in KcpT, Receives(k, d), NEW n,
         n = Cardinality({m \in 1 .. Len(k.rbuf) :
               /\ m <= Wnd - Len(k.rq)
               /\ \A i \in 1 .. m : k.rbuf[i].sn = Add(k.rnxt, i - 1)})
  PROVE  /\ n \in 0 .. Len(k.rbuf) /\ n <= Wnd - Len(k.rq)
         /\ \A i \in 1 .. n : Abs(k.rbuf[i].sn) = Abs(k.rnxt) + i - 1
         /\ Abs(k.rnxt) + n <= Len(d)
         /\ Add(k.rnxt, n) \in Sns /\ Abs(Add(k.rnxt, n)) = Abs(k.rnxt) + n
<1> DEFINE L == Len(k.rbuf)
           r == Abs(k.rnxt)
           S == {m \in 1 .. L : /\ m <= Wnd - Len(k.rq)
                                /\ \A i \in 1 .. m : k.rbuf[i].sn = Add(k.rnxt, i - 1)}
<1>1. /\ L \in Nat /\ r \in Nat /\ Len(k.rq) \in Nat /\ Len(d) \in Nat /\ Wnd \in Nat
      /\ SnModulus \in Nat /\ 2 * (Len(d) + Wnd) <= SnModulus /\ k.rnxt \in Sns /\ Wnd >= 1
  BY KcpFields, KcpNumbers, FewFacts, Sizes
<1>2. /\ r <= Len(d) /\ Len(k.rq) <= Wnd
      /\ \A i \in 1 .. L : r <= Abs(k.rbuf[i].sn) /\ Abs(k.rbuf[i].sn) < Len(d)
      /\ \A i, j \in 1 .. L : i < j => Abs(k.rbuf[i].sn) < Abs(k.rbuf[j].sn)
  BY DEF Receives, At
<1>3. /\ n = Cardinality(S) /\ S \subseteq 1 .. L
      /\ \A m \in S : /\ m \in 1 .. L /\ m <= Wnd - Len(k.rq)
                     /\ \A i \in 1 .. m : k.rbuf[i].sn = Add(k.rnxt, i - 1)
      /\ \A m \in 1 .. L :
           /\ m <= Wnd - Len(k.rq)
           /\ \A i \in 1 .. m : k.rbuf[i].sn = Add(k.rnxt, i - 1)
           => m \in S
  OBVIOUS
<1> HIDE DEF S, L
<1>a. n \in 0 .. L /\ S = 1 .. n
  <2>1. ASSUME NEW m \in S, NEW i \in 1 .. m
        PROVE  i \in S
    <3>1. /\ m \in 1 .. L /\ m <= Wnd - Len(k.rq) /\ i <= m /\ i \in 1 .. L
          /\ \A j \in 1 .. m : k.rbuf[j].sn = Add(k.rnxt, j - 1)
      BY <1>1, <1>3
    <3>2. \A j \in 1 .. i : j \in 1 .. m
      BY <3>1
    <3>3. \A j \in 1 .. i : k.rbuf[j].sn = Add(k.rnxt, j - 1)
      BY <3>1, <3>2
    <3>4. i <= Wnd - Len(k.rq)
      BY <1>1, <3>1
    <3>5. QED
      BY <1>3, <3>1, <3>3, <3>4
  <2>2. Cardinality(S) \in 0 .. L /\ S = 1 .. Cardinality(S)
    BY <1>1, <1>3, <2>1, FirstOnes
  <2>3. QED
    BY <1>3, <2>2
<1>4. /\ n <= Wnd - Len(k.rq)
      /\ \A i \in 1 .. n : k.rbuf[i].sn = Add(k.rnxt, i - 1)
  <2>1. n = 0 \/ n \in 1 .. n
    BY <1>1, <1>a
  <2>2. n = 0 \/ n \in S
    BY <1>a, <2>1
  <2>3. CASE n = 0
    <3>1. \A i \in 1 .. n : FALSE
      BY <2>3
    <3>2. n <= Wnd - Len(k.rq)
      BY <1>1, <1>2, <2>3
    <3>3. QED
      BY <3>1, <3>2
  <2>4. CASE n \in S
    BY <1>3, <2>4
  <2>5. QED
    BY <2>2, <2>3, <2>4
<1>5. \A i \in 0 .. n : Add(k.rnxt, i) \in Sns /\ Abs(Add(k.rnxt, i)) = r + i
  <2>1. ASSUME NEW i \in 0 .. n
        PROVE  i \in Nat /\ r + i < SnModulus
    <3>1. /\ i \in Nat /\ i <= n /\ n \in Nat /\ n <= Wnd /\ r <= Len(d)
      BY <1>1, <1>2, <1>a, <1>4
    <3>2. QED
      BY <1>1, <3>1
  <2>2. QED
    BY <1>1, <2>1, AbsAdd
<1>6. \A i \in 1 .. n : Abs(k.rbuf[i].sn) = r + i - 1
  <2>1. ASSUME NEW i \in 1 .. n
        PROVE  Abs(k.rbuf[i].sn) = r + i - 1
    <3>1. i - 1 \in 0 .. n
      BY <1>1, <1>a
    <3>2. k.rbuf[i].sn = Add(k.rnxt, i - 1)
      BY <1>4
    <3>3. Abs(Add(k.rnxt, i - 1)) = r + (i - 1)
      BY <1>5, <3>1
    <3>4. QED
      BY <1>1, <1>a, <3>2, <3>3
  <2>2. QED
    BY <2>1
<1>7. r + n <= Len(d)
  <2>1. CASE n = 0
    BY <1>1, <1>2, <2>1
  <2>2. CASE n # 0
    <3>1. n \in 1 .. n /\ n \in 1 .. L
      BY <1>1, <1>a, <2>2
    <3>2. Abs(k.rbuf[n].sn) = r + n - 1 /\ Abs(k.rbuf[n].sn) < Len(d)
      BY <1>2, <1>6, <3>1
    <3>3. QED
      BY <1>1, <1>a, <3>2
  <2>3. QED
    BY <2>1, <2>2
<1>8. n \in 0 .. n
  BY <1>1, <1>a
<1>9. QED
  BY <1>a, <1>4, <1>5, <1>6, <1>7, <1>8 DEF L, r

\* u is s followed by t.
Joins(s, t, u, T) ==
  /\ u \in Seq(T) /\ Len(u) = Len(s) + Len(t)
  /\ \A i \in 1 .. Len(s) : u[i] = s[i]
  /\ \A i \in 1 .. Len(t) : u[Len(s) + i] = t[i]

LEMMA Joined ==
  ASSUME NEW T, NEW s \in Seq(T), NEW t \in Seq(T)
  PROVE  Joins(s, t, s \o t, T)
BY DEF Joins

\* u is what s has after the first n.
Rests(s, n, u, T) ==
  /\ u \in Seq(T) /\ Len(u) = Len(s) - n
  /\ \A i \in 1 .. Len(u) : n + i \in 1 .. Len(s) /\ u[i] = s[n + i]

LEMMA Rested ==
  ASSUME NEW T, NEW s \in Seq(T), NEW n \in 0 .. Len(s)
  PROVE  Rests(s, n, SubSeq(s, n + 1, Len(s)), T)
<1> DEFINE u == SubSeq(s, n + 1, Len(s))
<1>1. n \in Nat /\ n <= Len(s) /\ Len(s) \in Nat
  OBVIOUS
<1>2. u \in Seq(T) /\ Len(u) = Len(s) - n
  BY <1>1
<1>3. ASSUME NEW i \in 1 .. Len(u)
      PROVE  n + i \in 1 .. Len(s) /\ u[i] = s[n + i]
  <2>1. (n + 1) + i - 1 = n + i /\ n + i \in 1 .. Len(s)
    BY <1>1, <1>2
  <2>2. QED
    BY <1>1, <1>2, <2>1
<1>4. QED
  BY <1>2, <1>3 DEF Rests

LEMMA Cut1 ==
  ASSUME NEW T, NEW s \in Seq(T), NEW n \in 0 .. Len(s)
  PROVE  /\ SubSeq(s, 1, n) \in Seq(T) /\ Len(SubSeq(s, 1, n)) = n
         /\ \A i \in 1 .. n : SubSeq(s, 1, n)[i] = s[i]
OBVIOUS

\* The data of the first n segments of b
FirstData(b, n, p) ==
  p \in Seq(Seq(Nat)) /\ Len(p) = n /\ \A i \in 1 .. n : p[i] = b[i].data

LEMMA FirstDataIs ==
  ASSUME NEW b \in Seq(Kept), NEW n \in 0 .. Len(b)
  PROVE  FirstData(b, n, [i \in 1 .. n |-> b[i].data])
<1>1. n \in Nat /\ \A i \in 1 .. n : i \in 1 .. Len(b)
  OBVIOUS
<1>2. \A i \in 1 .. n : b[i] \in Kept
  BY <1>1
<1>3. \A i \in 1 .. n : b[i].data \in Seq(Nat)
  BY <1>2 DEF Kept
<1>4. QED
  BY <1>1, <1>3 DEF FirstData

LEMMA MoveReadyKeeps ==
  ASSUME NEW d, Few(d), NEW k \in KcpT, Receives(k, d), NEW m, m = MoveReady(k)
  PROVE  /\ m \in KcpT /\ Receives(m, d) /\ Have(k) \subseteq Have(m)
         /\ SameSend(k, m) /\ m.acks = k.acks /\ m.tell = k.tell
         /\ Taken(m) = Taken(k) /\ Len(m.rq) >= Len(k.rq)
<1> DEFINE n == Cardinality({i \in 1 .. Len(k.rbuf) :
                  /\ i <= Wnd - Len(k.rq)
                  /\ \A j \in 1 .. i : k.rbuf[j].sn = Add(k.rnxt, j - 1)})
           r == Abs(k.rnxt)
           L == Len(k.rbuf)
<1>1. /\ m = [k EXCEPT !.rq = k.rq \o [i \in 1 .. n |-> k.rbuf[i].data],
                       !.rbuf = SubSeq(k.rbuf, n + 1, Len(k.rbuf)),
                       !.rnxt = Add(k.rnxt, n)]
  BY DEF MoveReady
<1>2. /\ n \in 0 .. L /\ n <= Wnd - Len(k.rq)
      /\ \A i \in 1 .. n : Abs(k.rbuf[i].sn) = r + i - 1
      /\ r + n <= Len(d)
      /\ Add(k.rnxt, n) \in Sns /\ Abs(Add(k.rnxt, n)) = r + n
  BY MoveCount
<1> HIDE DEF n
<1>3. /\ L \in Nat /\ r \in Nat /\ Len(k.rq) \in Nat /\ Len(d) \in Nat /\ Wnd \in Nat
      /\ k.rq \in Seq(Seq(Nat)) /\ k.rbuf \in Seq(Kept)
      /\ \A i \in 1 .. L : Abs(k.rbuf[i].sn) \in Nat
  BY KcpFields, KcpNumbers, FewFacts, Sizes
<1>4. /\ m.rq = k.rq \o [i \in 1 .. n |-> k.rbuf[i].data]
      /\ m.rbuf = SubSeq(k.rbuf, n + 1, Len(k.rbuf))
      /\ m.rnxt = Add(k.rnxt, n)
      /\ SameSend(k, m) /\ m.acks = k.acks /\ m.tell = k.tell
  BY <1>1 DEF SameSend, KcpT
<1>5. /\ m.rq \in Seq(Seq(Nat)) /\ Len(m.rq) = Len(k.rq) + n
      /\ \A i \in 1 .. Len(k.rq) : m.rq[i] = k.rq[i]
      /\ \A i \in 1 .. n : m.rq[Len(k.rq) + i] = k.rbuf[i].data
      /\ m.rbuf \in Seq(Kept) /\ Len(m.rbuf) = L - n
      /\ \A i \in 1 .. L - n : m.rbuf[i] = k.rbuf[n + i]
  <2> DEFINE p == [i \in 1 .. n |-> k.rbuf[i].data]
  <2>1. k.rq \in Seq(Seq(Nat)) /\ k.rbuf \in Seq(Kept) /\ n \in 0 .. Len(k.rbuf)
    BY <1>2, <1>3
  <2>2. FirstData(k.rbuf, n, p)
    BY <2>1, FirstDataIs, Zenon
  <2> HIDE DEF p
  <2>3. p \in Seq(Seq(Nat)) /\ Len(p) = n /\ \A i \in 1 .. n : p[i] = k.rbuf[i].data
    BY <2>2 DEF FirstData
  <2>4. Joins(k.rq, p, k.rq \o p, Seq(Nat))
    BY <2>1, <2>3, Joined, Zenon
  <2>5. Joins(k.rq, p, m.rq, Seq(Nat))
    BY <1>4, <2>4 DEF p
  <2>6. Rests(k.rbuf, n, m.rbuf, Kept)
    BY <1>4, <2>1, Rested, Zenon
  <2>7. QED
    BY <2>3, <2>5, <2>6 DEF Joins, Rests
<1>6. m \in KcpT
  BY <1>1, <1>2, <1>4, <1>5 DEF KcpT
<1>7. Abs(m.rnxt) = r + n /\ Taken(m) = Taken(k)
  BY <1>2, <1>3, <1>4, <1>5 DEF Taken
<1>8. /\ r <= Len(d) /\ Len(k.rq) <= Wnd /\ Len(k.rq) <= r
      /\ \A i \in 1 .. Len(k.rq) : k.rq[i] = d[Taken(k) + i]
      /\ \A i \in 1 .. L :
           /\ r <= Abs(k.rbuf[i].sn) /\ Abs(k.rbuf[i].sn) < r + Wnd
           /\ At(k.rbuf[i], d)
      /\ \A i, j \in 1 .. L : i < j => Abs(k.rbuf[i].sn) < Abs(k.rbuf[j].sn)
  BY DEF Receives
<1>n. /\ n \in Nat /\ n <= L /\ Len(m.rq) = Len(k.rq) + n /\ Len(m.rbuf) = L - n
      /\ L \in Nat /\ r \in Nat /\ Len(k.rq) \in Nat /\ Wnd \in Nat
      /\ Taken(m) = r - Len(k.rq)
  BY <1>2, <1>3, <1>5, <1>7 DEF Taken
<1> HIDE DEF r, L
<1>9. ASSUME NEW i \in 1 .. Len(m.rq)
      PROVE  m.rq[i] = d[Taken(m) + i]
  <2>1. CASE i <= Len(k.rq)
    <3>1. i \in 1 .. Len(k.rq)
      BY <1>3, <2>1
    <3>2. QED
      BY <1>5, <1>7, <1>8, <3>1
  <2>2. CASE i > Len(k.rq)
    <3> DEFINE j == i - Len(k.rq)
    <3>1. j \in 1 .. n /\ j \in 1 .. L /\ Len(k.rq) + j = i /\ i \in Int /\ j \in Int
      BY <1>n, <2>2
    <3> HIDE DEF j
    <3>2. m.rq[i] = k.rbuf[j].data
      BY <1>5, <3>1
    <3>3. k.rbuf[j].data = d[Abs(k.rbuf[j].sn) + 1] /\ Abs(k.rbuf[j].sn) = r + j - 1
      BY <1>2, <1>8, <3>1 DEF At
    <3>4. (r + j - 1) + 1 = Taken(m) + i
      <4> DEFINE a == Len(k.rq)
                 t == Taken(m)
      <4>1. r \in Nat /\ a \in Nat /\ t = r - a /\ j \in Int /\ i = a + j
        BY <1>n, <3>1
      <4> HIDE DEF a, t
      <4>2. (r + j - 1) + 1 = t + i
        BY <4>1
      <4>3. QED
        BY <4>2 DEF t
    <3>5. QED
      BY <3>2, <3>3, <3>4
  <2>3. QED
    BY <1>2, <1>3, <1>5, <2>1, <2>2
<1>10. /\ \A i \in 1 .. n : Abs(k.rbuf[i].sn) < r + n
       /\ \A i \in 1 .. L : n < i => r + n <= Abs(k.rbuf[i].sn)
  <2>1. \A i \in 1 .. n : Abs(k.rbuf[i].sn) < r + n
    BY <1>2, <1>3
  <2>2. \A i \in 1 .. L : r + i - 1 <= Abs(k.rbuf[i].sn)
    <3> DEFINE f == [i \in 1 .. L |-> Abs(k.rbuf[i].sn)]
    <3>1. /\ f \in [1 .. L -> Nat] /\ \A i \in 1 .. L : r <= f[i]
          /\ \A i, j \in 1 .. L : i < j => f[i] < f[j]
      BY <1>3, <1>8
    <3>2. \A i \in 1 .. L : f[i] = Abs(k.rbuf[i].sn)
      OBVIOUS
    <3> HIDE DEF f
    <3>3. \A i \in 1 .. L : r + i - 1 <= f[i]
      BY <1>3, <3>1, Rising
    <3>4. QED
      BY <3>2, <3>3
  <2>3. QED
    BY <1>2, <1>3, <2>1, <2>2
<1>11. ASSUME NEW i \in 1 .. Len(m.rbuf)
       PROVE  /\ n + i \in 1 .. L /\ m.rbuf[i] = k.rbuf[n + i]
              /\ r + n <= Abs(m.rbuf[i].sn) /\ Abs(m.rbuf[i].sn) < (r + n) + Wnd
              /\ At(m.rbuf[i], d)
  <2>1. n + i \in 1 .. L /\ m.rbuf[i] = k.rbuf[n + i] /\ n < n + i
    <3>1. n + i \in 1 .. L /\ n < n + i /\ i \in 1 .. L - n
      BY <1>n
    <3>2. QED
      BY <1>5, <3>1
  <2>2. r + n <= Abs(k.rbuf[n + i].sn) /\ Abs(k.rbuf[n + i].sn) < r + Wnd /\ At(k.rbuf[n + i], d)
    BY <1>8, <1>10, <2>1
  <2>3. Abs(k.rbuf[n + i].sn) < (r + n) + Wnd
    <3>1. Abs(k.rbuf[n + i].sn) \in Nat
      BY <1>3, <2>1 DEF L
    <3>2. QED
      BY <1>n, <2>2, <3>1
  <2>4. QED
    BY <2>1, <2>2, <2>3
<1>12. \A i, j \in 1 .. Len(m.rbuf) : i < j => Abs(m.rbuf[i].sn) < Abs(m.rbuf[j].sn)
  <2>1. ASSUME NEW i \in 1 .. Len(m.rbuf), NEW j \in 1 .. Len(m.rbuf), i < j
        PROVE  Abs(m.rbuf[i].sn) < Abs(m.rbuf[j].sn)
    <3>1. n + i \in 1 .. L /\ n + j \in 1 .. L /\ n + i < n + j
      BY <1>n, <1>11, <2>1
    <3>2. QED
      BY <1>8, <1>11, <3>1
  <2>2. QED
    BY <2>1
<1>13. Receives(m, d)
  <2>1. Len(m.rq) <= Wnd /\ Len(m.rq) <= r + n /\ r + n <= Len(d)
    BY <1>2, <1>3, <1>5, <1>8
  <2>2. QED
    BY <1>7, <1>9, <1>11, <1>12, <2>1 DEF Receives
<1>14. ASSUME NEW j \in Have(k)
       PROVE  j \in Have(m)
  <2>1. j \in Nat /\ (j < r \/ \E i \in 1 .. L : Abs(k.rbuf[i].sn) = j)
    BY DEF Have, r, L
  <2>2. CASE j < r + n
    BY <1>7, <2>1, <2>2 DEF Have
  <2>3. CASE ~(j < r + n)
    <3>1. PICK i \in 1 .. L : Abs(k.rbuf[i].sn) = j
      BY <1>2, <1>3, <2>1, <2>3
    <3>2. i \notin 1 .. n
      BY <1>10, <2>3, <3>1
    <3>3. i - n \in 1 .. Len(m.rbuf) /\ n + (i - n) = i /\ i - n \in 1 .. L - n
      BY <1>2, <1>3, <1>5, <3>2
    <3>4. m.rbuf[i - n] = k.rbuf[i]
      BY <1>5, <3>3
    <3>5. QED
      BY <2>1, <3>1, <3>3, <3>4 DEF Have
  <2>4. QED
    BY <2>2, <2>3
<1>15. QED
  BY <1>2, <1>3, <1>4, <1>5, <1>6, <1>7, <1>13, <1>14

LEMMA ReceiveSame ==
  ASSUME NEW k, NEW m, SameReceive(k, m), NEW d
  PROVE  /\ Receives(k, d) => Receives(m, d)
         /\ Have(m) = Have(k) /\ Taken(m) = Taken(k)
BY DEF SameReceive, Receives, Have, Taken

LEMMA DiffFew ==
  ASSUME NEW d, Few(d), NEW a \in Sns, NEW b \in Sns, Abs(a) <= Len(d), Abs(b) <= Len(d) + Wnd
  PROVE  Diff(a, b) = Abs(a) - Abs(b)
<1>1. /\ Abs(a) \in Nat /\ Abs(b) \in Nat /\ Len(d) \in Nat /\ SnModulus \in Nat
      /\ Wnd \in Nat /\ Wnd >= 1 /\ 2 * (Len(d) + Wnd) <= SnModulus
  BY AbsType, FewFacts, Sizes
<1>2. 2 * (Abs(a) - Abs(b)) < SnModulus - 1 /\ 2 * (Abs(b) - Abs(a)) <= SnModulus
  BY <1>1
<1>3. QED
  BY <1>2, DiffAbs

\* The end of the window
LEMMA WindowEnd ==
  ASSUME NEW d, Few(d), NEW a \in Sns, Abs(a) <= Len(d), NEW n \in 0 .. Wnd
  PROVE  Add(a, n) \in Sns /\ Abs(Add(a, n)) = Abs(a) + n /\ Abs(Add(a, n)) <= Len(d) + Wnd
<1>1. /\ Abs(a) \in Nat /\ Len(d) \in Nat /\ SnModulus \in Nat /\ n \in Nat /\ n <= Wnd
      /\ Wnd \in Nat /\ Wnd >= 1 /\ 2 * (Len(d) + Wnd) <= SnModulus
  BY AbsType, FewFacts, Sizes
<1>2. Abs(a) + n < SnModulus
  BY <1>1
<1>3. Add(a, n) \in Sns /\ Abs(Add(a, n)) = Abs(a) + n
  BY <1>1, <1>2, AbsAdd
<1>4. QED
  BY <1>1, <1>3

\* recv takes the segment that comes next.
LEMMA RecvKeeps ==
  ASSUME NEW d, Few(d), NEW k \in KcpT, Receives(k, d), k.rq # <<>>, NEW m, m = Recv(k)
  PROVE  /\ m \in KcpT /\ Receives(m, d) /\ Have(k) \subseteq Have(m)
         /\ SameSend(k, m) /\ m.acks = k.acks
         /\ Taken(m) = Taken(k) + 1 /\ Taken(k) \in Nat /\ Taken(k) + 1 <= Len(d)
         /\ Head(k.rq) = d[Taken(k) + 1]
<1> DEFINE q == Tail(k.rq)
           j == [k EXCEPT !.rq = q]
           o == MoveReady(j)
<1>1. /\ k.rq \in Seq(Seq(Nat)) /\ Len(k.rq) \in Nat /\ Len(k.rq) >= 1 /\ Abs(k.rnxt) \in Nat
      /\ Len(d) \in Nat
  BY KcpFields, KcpNumbers, FewFacts
<1>2. /\ q \in Seq(Seq(Nat)) /\ Len(q) = Len(k.rq) - 1
      /\ \A i \in 1 .. Len(q) : q[i] = k.rq[i + 1] /\ i + 1 \in 1 .. Len(k.rq)
      /\ Head(k.rq) = k.rq[1]
  BY <1>1
<1> HIDE DEF q
<1>3. /\ j \in KcpT /\ j.rq = q /\ j.rnxt = k.rnxt /\ j.rbuf = k.rbuf
      /\ SameSend(k, j) /\ j.acks = k.acks
  BY <1>2 DEF KcpT, SameSend
<1> HIDE DEF j
<1>4. /\ Abs(k.rnxt) <= Len(d) /\ Len(k.rq) <= Wnd /\ Len(k.rq) <= Abs(k.rnxt)
      /\ \A i \in 1 .. Len(k.rq) : k.rq[i] = d[Taken(k) + i]
      /\ Taken(k) = Abs(k.rnxt) - Len(k.rq)
  BY DEF Receives, Taken
<1>5. Taken(j) = Taken(k) + 1 /\ Taken(k) \in Nat /\ Taken(k) + 1 <= Len(d)
  <2>1. Taken(j) = Abs(k.rnxt) - Len(q)
    BY <1>3 DEF Taken
  <2>2. QED
    BY <1>1, <1>2, <1>4, <2>1
<1>6. ASSUME NEW i \in 1 .. Len(q)
      PROVE  q[i] = d[Taken(j) + i]
  <2>1. q[i] = d[Taken(k) + (i + 1)]
    BY <1>2, <1>4
  <2>2. Taken(k) + (i + 1) = Taken(j) + i
    BY <1>5
  <2>3. QED
    BY <2>1, <2>2
<1>7. Receives(j, d)
  <2>1. Len(q) <= Wnd /\ Len(q) <= Abs(k.rnxt)
    BY <1>1, <1>2, <1>4, Sizes
  <2>2. QED
    BY <1>3, <1>6, <2>1 DEF Receives
<1>8. Have(j) = Have(k)
  BY <1>3 DEF Have
<1>9. /\ o \in KcpT /\ Receives(o, d) /\ Have(j) \subseteq Have(o)
      /\ SameSend(j, o) /\ o.acks = j.acks /\ Taken(o) = Taken(j)
  BY <1>3, <1>7, MoveReadyKeeps
<1>10. m = [o EXCEPT !.tell = o.tell \/ (Len(k.rq) >= Wnd /\ Len(o.rq) < Wnd)]
  BY DEF Recv, j, q
<1> HIDE DEF o
<1>11. /\ m \in KcpT /\ SameReceive(o, m) /\ SameSend(o, m) /\ m.acks = o.acks
  <2> DEFINE b == o.tell \/ (Len(k.rq) >= Wnd /\ Len(o.rq) < Wnd)
  <2>1. b \in BOOLEAN
    BY KcpFields, <1>9
  <2>2. m = [o EXCEPT !.tell = b]
    BY <1>10
  <2> HIDE DEF b
  <2>3. QED
    BY <1>9, <2>1, <2>2 DEF KcpT, SameReceive, SameSend
<1>12. Receives(m, d) /\ Have(m) = Have(o) /\ Taken(m) = Taken(o)
  BY <1>9, <1>11, ReceiveSame
<1>13. SameSend(k, m) /\ m.acks = k.acks
  BY <1>3, <1>9, <1>11 DEF SameSend
<1>14. Head(k.rq) = d[Taken(k) + 1]
  BY <1>1, <1>2, <1>4
<1>15. QED
  BY <1>5, <1>8, <1>9, <1>11, <1>12, <1>13, <1>14

\* u is s with x after the first n.
Inserts(s, n, x, u, T) ==
  /\ u \in Seq(T) /\ Len(u) = Len(s) + 1
  /\ \A i \in 1 .. n : u[i] = s[i]
  /\ u[n + 1] = x
  /\ \A i \in n + 1 .. Len(s) : u[i + 1] = s[i]

LEMMA Inserted ==
  ASSUME NEW T, NEW s \in Seq(T), NEW n \in 0 .. Len(s), NEW x \in T
  PROVE  Inserts(s, n, x, InsertAt(s, n + 1, x), T)
<1> DEFINE a == SubSeq(s, 1, n)
           b == SubSeq(s, n + 1, Len(s))
           p == <<x>>
           u == (a \o p) \o b
<1>1. n \in Nat /\ n <= Len(s) /\ Len(s) \in Nat /\ (n + 1) - 1 = n
  OBVIOUS
<1>2. InsertAt(s, n + 1, x) = u
  BY <1>1 DEF InsertAt
<1>3. a \in Seq(T) /\ Len(a) = n /\ \A i \in 1 .. n : a[i] = s[i]
  BY <1>1
<1>4. b \in Seq(T) /\ Len(b) = Len(s) - n
  BY <1>1
<1>5. \A i \in 1 .. Len(s) - n : b[i] = s[n + i]
  <2>1. ASSUME NEW i \in 1 .. Len(s) - n
        PROVE  b[i] = s[n + i]
    <3>1. (n + 1) + i - 1 = n + i
      BY <1>1
    <3>2. QED
      BY <1>1, <3>1
  <2>2. QED
    BY <2>1
<1>6. p \in Seq(T) /\ Len(p) = 1 /\ p[1] = x
  OBVIOUS
<1> HIDE DEF a, b, p
<1>7. Joins(a, p, a \o p, T)
  BY <1>3, <1>6, Joined, Zenon
<1> DEFINE c == a \o p
<1>8. c \in Seq(T) /\ Len(c) = n + 1 /\ (\A i \in 1 .. n : c[i] = s[i]) /\ c[n + 1] = x
  <2>1. 1 \in 1 .. Len(p)
    BY <1>6
  <2>2. QED
    BY <1>3, <1>6, <1>7, <2>1 DEF Joins
<1>9. Joins(c, b, u, T)
  BY <1>4, <1>8, Joined, Zenon
<1> HIDE DEF c, u
<1>10. /\ u \in Seq(T) /\ Len(u) = (n + 1) + (Len(s) - n)
       /\ \A i \in 1 .. n + 1 : u[i] = c[i]
       /\ \A i \in 1 .. Len(s) - n : u[(n + 1) + i] = b[i]
  BY <1>4, <1>8, <1>9 DEF Joins
<1>11. /\ \A i \in 1 .. n : u[i] = s[i]
       /\ u[n + 1] = x
  BY <1>1, <1>8, <1>10
<1>12. ASSUME NEW i \in n + 1 .. Len(s)
       PROVE  u[i + 1] = s[i]
  <2>1. i - n \in 1 .. Len(s) - n /\ (n + 1) + (i - n) = i + 1 /\ n + (i - n) = i
    BY <1>1
  <2>2. u[(n + 1) + (i - n)] = b[i - n] /\ b[i - n] = s[n + (i - n)]
    BY <1>5, <1>10, <2>1
  <2>3. QED
    BY <2>1, <2>2
<1>13. Len(u) = Len(s) + 1
  BY <1>1, <1>10
<1>14. Inserts(s, n, x, u, T)
  BY <1>10, <1>11, <1>12, <1>13 DEF Inserts
<1>15. QED
  BY <1>2, <1>14

\* A segment is put between those before and those after it.
LEMMA SortedIn ==
  ASSUME NEW d, Few(d), NEW k \in KcpT, Receives(k, d),
         NEW x \in Kept, At(x, d), Abs(k.rnxt) <= Abs(x.sn), Abs(x.sn) < Abs(k.rnxt) + Wnd,
         \A i \in 1 .. Len(k.rbuf) : k.rbuf[i].sn # x.sn,
         NEW n, n = Cardinality({i \in 1 .. Len(k.rbuf) : Diff(x.sn, k.rbuf[i].sn) > 0}),
         NEW m, m = [k EXCEPT !.rbuf = InsertAt(k.rbuf, n + 1, x)]
  PROVE  /\ m \in KcpT /\ Receives(m, d) /\ Have(k) \subseteq Have(m) /\ Abs(x.sn) \in Have(m)
         /\ SameSend(k, m) /\ m.acks = k.acks /\ m.tell = k.tell /\ Taken(m) = Taken(k)
<1> DEFINE L == Len(k.rbuf)
           A == Abs(x.sn)
           r == Abs(k.rnxt)
           f == [i \in 1 .. L |-> Abs(k.rbuf[i].sn)]
           E == {i \in 1 .. L : Diff(x.sn, k.rbuf[i].sn) > 0}
           u == InsertAt(k.rbuf, n + 1, x)
<1>1. /\ L \in Nat /\ r \in Nat /\ x.sn \in Sns /\ A \in Nat /\ Len(d) \in Nat
      /\ k.rbuf \in Seq(Kept) /\ Wnd \in Nat
      /\ \A i \in 1 .. L : k.rbuf[i].sn \in Sns /\ f[i] = Abs(k.rbuf[i].sn) /\ f[i] \in Nat
  BY KcpFields, KcpNumbers, FewFacts, Sizes, AbsType DEF Kept
<1>2. /\ r <= A /\ A < r + Wnd /\ A < Len(d)
      /\ \A i \in 1 .. L : r <= f[i] /\ f[i] < r + Wnd /\ f[i] < Len(d) /\ At(k.rbuf[i], d)
      /\ \A i, j \in 1 .. L : i < j => f[i] < f[j]
  BY <1>1 DEF Receives, At
<1>3. \A i \in 1 .. L : f[i] # A
  BY <1>1, AbsOne
<1>4. \A i \in 1 .. L : Diff(x.sn, k.rbuf[i].sn) = A - f[i]
  <2>1. ASSUME NEW i \in 1 .. L
        PROVE  Diff(x.sn, k.rbuf[i].sn) = A - f[i]
    <3>1. /\ k.rbuf[i].sn \in Sns /\ f[i] = Abs(k.rbuf[i].sn) /\ f[i] < Len(d) /\ A < Len(d)
          /\ f[i] \in Nat
      BY <1>1, <1>2
    <3>2. A <= Len(d) /\ f[i] <= Len(d) + Wnd
      <4> HIDE DEF f, A
      <4>1. QED
        BY <1>1, <3>1
    <3>3. Diff(x.sn, k.rbuf[i].sn) = Abs(x.sn) - Abs(k.rbuf[i].sn)
      BY <1>1, <3>1, <3>2, DiffFew
    <3>4. QED
      BY <3>1, <3>3
  <2>2. QED
    BY <2>1
<1> HIDE DEF f, A
<1>5. /\ n = Cardinality(E) /\ E \subseteq 1 .. L
      /\ \A i \in 1 .. L : i \in E <=> f[i] < A
  BY <1>1, <1>4
<1> HIDE DEF E, L
<1>6. n \in 0 .. L /\ E = 1 .. n
  <2>1. \A m1 \in E : \A i \in 1 .. m1 : i \in E
    <3>1. ASSUME NEW m1 \in E, NEW i \in 1 .. m1
          PROVE  i \in E
      <4>1. m1 \in 1 .. L /\ i \in 1 .. L /\ (i = m1 \/ i < m1)
        BY <1>1, <1>5
      <4>2. f[m1] < A /\ f[i] \in Nat /\ f[m1] \in Nat /\ (i = m1 \/ f[i] < f[m1])
        BY <1>1, <1>2, <1>5, <4>1
      <4>3. f[i] < A
        BY <1>1, <4>2
      <4>4. QED
        BY <1>5, <4>1, <4>3
    <3>2. QED
      BY <3>1
  <2>2. Cardinality(E) \in 0 .. L /\ E = 1 .. Cardinality(E)
    BY <1>1, <1>5, <2>1, FirstOnes
  <2>3. QED
    BY <1>5, <2>2
<1>7. /\ \A i \in 1 .. n : i \in 1 .. L /\ f[i] < A
      /\ \A i \in n + 1 .. L : i \in 1 .. L /\ A < f[i]
  <2>1. \A i \in 1 .. n : i \in 1 .. L /\ f[i] < A
    BY <1>5, <1>6
  <2>2. \A i \in n + 1 .. L : i \in 1 .. L /\ i \notin 1 .. n
    BY <1>1, <1>6
  <2>3. \A i \in n + 1 .. L : ~(f[i] < A) /\ f[i] # A /\ f[i] \in Nat
    BY <1>1, <1>3, <1>5, <1>6, <2>2
  <2>4. QED
    BY <1>1, <2>1, <2>2, <2>3
<1>8. Inserts(k.rbuf, n, x, u, Kept)
  <2>1. n \in 0 .. Len(k.rbuf)
    BY <1>6 DEF L
  <2>2. QED
    BY <1>1, <2>1, Inserted, Zenon
<1> HIDE DEF u
<1>9. /\ u \in Seq(Kept) /\ Len(u) = L + 1
      /\ \A i \in 1 .. n : u[i] = k.rbuf[i]
      /\ u[n + 1] = x
      /\ \A i \in n + 1 .. L : u[i + 1] = k.rbuf[i]
  BY <1>8 DEF Inserts, L
<1>10. /\ m \in KcpT /\ m.rbuf = u /\ m.rq = k.rq /\ m.rnxt = k.rnxt
       /\ SameSend(k, m) /\ m.acks = k.acks /\ m.tell = k.tell /\ Taken(m) = Taken(k)
  <2>1. m = [k EXCEPT !.rbuf = u]
    BY DEF u
  <2>2. QED
    BY <1>9, <2>1 DEF KcpT, SameSend, Taken
<1>z. n \in Nat /\ n <= L /\ L \in Nat
  BY <1>1, <1>6
\* Where the elements of u come from
<1> DEFINE from(i) == IF i <= n THEN i ELSE i - 1
<1>11. ASSUME NEW i \in 1 .. L + 1
       PROVE  /\ i = n + 1 => u[i] = x
              /\ i # n + 1 => from(i) \in 1 .. L /\ u[i] = k.rbuf[from(i)]
  <2>1. CASE i \in 1 .. n
    <3>1. i # n + 1 /\ i <= n /\ i \in 1 .. L
      BY <1>z, <2>1
    <3>2. from(i) = i
      BY <3>1
    <3>3. u[i] = k.rbuf[i]
      BY <1>9, <2>1
    <3>4. QED
      BY <3>1, <3>2, <3>3
  <2>2. CASE i = n + 1
    BY <1>9, <2>2
  <2>3. CASE i - 1 \in n + 1 .. L
    <3>1. (i - 1) + 1 = i /\ i # n + 1 /\ ~(i <= n) /\ i - 1 \in 1 .. L
      BY <1>z, <2>3
    <3>2. u[(i - 1) + 1] = k.rbuf[i - 1]
      BY <1>9, <2>3
    <3>3. QED
      BY <3>1, <3>2
  <2>4. QED
    BY <1>z, <2>1, <2>2, <2>3
<1>12. ASSUME NEW i \in 1 .. L + 1
       PROVE  r <= Abs(u[i].sn) /\ Abs(u[i].sn) < r + Wnd /\ At(u[i], d)
  <2>1. CASE i = n + 1
    BY <1>2, <1>11, <2>1 DEF A
  <2>2. CASE i # n + 1
    <3>1. from(i) \in 1 .. L /\ u[i] = k.rbuf[from(i)]
      BY <1>11, <2>2
    <3> HIDE DEF from
    <3>2. QED
      BY <1>1, <1>2, <3>1
  <2>3. QED
    BY <2>1, <2>2
<1>13. ASSUME NEW i \in 1 .. L + 1, NEW j \in 1 .. L + 1, i < j
       PROVE  Abs(u[i].sn) < Abs(u[j].sn)
  <2>1. CASE i = n + 1
    <3>1. j # n + 1 /\ from(j) = j - 1 /\ from(j) \in n + 1 .. L
      BY <1>z, <1>13, <2>1
    <3>2. u[i] = x /\ u[j] = k.rbuf[from(j)] /\ from(j) \in 1 .. L
      BY <1>11, <2>1, <3>1
    <3> HIDE DEF from
    <3>3. A < f[from(j)] /\ f[from(j)] = Abs(k.rbuf[from(j)].sn)
      BY <1>1, <1>7, <3>1, <3>2
    <3>4. QED
      BY <3>2, <3>3 DEF A
  <2>2. CASE j = n + 1
    <3>1. i # n + 1 /\ from(i) = i /\ i \in 1 .. n
      BY <1>1, <1>6, <1>13, <2>2
    <3>2. u[j] = x /\ u[i] = k.rbuf[i] /\ i \in 1 .. L
      BY <1>11, <2>2, <3>1
    <3>3. f[i] < A /\ f[i] = Abs(k.rbuf[i].sn)
      BY <1>1, <1>7, <3>1, <3>2
    <3>4. QED
      BY <3>2, <3>3 DEF A
  <2>3. CASE i # n + 1 /\ j # n + 1
    <3>1. from(i) < from(j)
      BY <1>z, <1>13, <2>3
    <3>2. /\ u[i] = k.rbuf[from(i)] /\ from(i) \in 1 .. L
          /\ u[j] = k.rbuf[from(j)] /\ from(j) \in 1 .. L
      BY <1>11, <2>3
    <3> HIDE DEF from
    <3>3. f[from(i)] < f[from(j)]
      BY <1>2, <3>1, <3>2
    <3>4. QED
      BY <1>1, <3>2, <3>3
  <2>4. QED
    BY <2>1, <2>2, <2>3
<1>14. Receives(m, d)
  <2>1. /\ Abs(k.rnxt) <= Len(d) /\ Len(k.rq) <= Wnd /\ Len(k.rq) <= Abs(k.rnxt)
        /\ \A i \in 1 .. Len(k.rq) : k.rq[i] = d[Taken(k) + i]
    BY DEF Receives
  <2>2. QED
    BY <1>9, <1>10, <1>12, <1>13, <2>1 DEF Receives, r
<1>15. A \in Have(m)
  <2>1. n + 1 \in 1 .. Len(u)
    BY <1>1, <1>6, <1>9
  <2>2. Abs(m.rbuf[n + 1].sn) = A
    BY <1>9, <1>10 DEF A
  <2>3. QED
    BY <1>1, <1>10, <2>1, <2>2 DEF Have
<1>16. ASSUME NEW j \in Have(k)
       PROVE  j \in Have(m)
  <2>1. CASE j < Abs(k.rnxt)
    BY <1>10, <2>1 DEF Have
  <2>2. CASE \E i \in 1 .. L : Abs(k.rbuf[i].sn) = j
    <3>1. PICK i \in 1 .. L : Abs(k.rbuf[i].sn) = j
      BY <2>2
    <3>2. \E l \in 1 .. L + 1 : u[l] = k.rbuf[i]
      <4>1. CASE i \in 1 .. n
        <5>1. i \in 1 .. L + 1
          BY <1>1
        <5>2. QED
          BY <1>9, <4>1, <5>1
      <4>2. CASE i \in n + 1 .. L
        <5>1. i + 1 \in 1 .. L + 1
          BY <1>1
        <5>2. QED
          BY <1>9, <4>2, <5>1
      <4>3. QED
        BY <1>1, <1>6, <4>1, <4>2
    <3>3. j \in Nat
      BY DEF Have
    <3>4. QED
      BY <1>9, <1>10, <3>1, <3>2, <3>3 DEF Have
  <2>3. QED
    BY <2>1, <2>2 DEF Have, L
<1>17. QED
  BY <1>10, <1>14, <1>15, <1>16 DEF A

LEMMA ParseDataKeeps ==
  ASSUME NEW d, Few(d), NEW k \in KcpT, Receives(k, d), NEW s \in Seg, At(s, d),
         NEW m, m = ParseData(k, s)
  PROVE  /\ m \in KcpT /\ Receives(m, d) /\ Have(k) \subseteq Have(m)
         /\ SameSend(k, m) /\ m.acks = k.acks /\ m.tell = k.tell /\ Taken(m) = Taken(k)
         /\ Abs(s.sn) < Abs(k.rnxt) + Wnd => Abs(s.sn) \in Have(m)
<1> DEFINE A == Abs(s.sn)
           r == Abs(k.rnxt)
           x == [sn |-> s.sn, data |-> s.data]
           there == \E i \in DOMAIN k.rbuf : k.rbuf[i].sn = s.sn
<1>1. /\ s.sn \in Sns /\ A \in Nat /\ A < Len(d) /\ r \in Nat /\ Wnd \in Nat /\ Wnd >= 1
      /\ k.rnxt \in Sns /\ r <= Len(d) /\ Len(d) \in Nat /\ s.data \in Seq(Nat)
      /\ Len(k.rbuf) \in Nat /\ DOMAIN k.rbuf = 1 .. Len(k.rbuf)
  <2>1. s.sn \in Sns /\ s.data \in Seq(Nat)
    BY DEF Seg
  <2>2. A < Len(d) /\ r <= Len(d)
    BY DEF At, Receives
  <2>3. k.rbuf \in Seq(Kept) /\ k.rnxt \in Sns
    BY KcpFields
  <2>4. A \in Nat /\ r \in Nat
    BY <2>1, <2>3, AbsType
  <2>5. QED
    BY <2>1, <2>2, <2>3, <2>4, FewFacts, Sizes
<1>2. Diff(s.sn, k.rnxt) = A - r
  <2>1. A <= Len(d) /\ r <= Len(d) + Wnd
    BY <1>1
  <2>2. QED
    BY <1>1, <2>1, DiffFew
<1>3. Diff(s.sn, Add(k.rnxt, Wnd)) = A - (r + Wnd)
  <2>1. Add(k.rnxt, Wnd) \in Sns /\ Abs(Add(k.rnxt, Wnd)) = r + Wnd
        /\ Abs(Add(k.rnxt, Wnd)) <= Len(d) + Wnd
    <3>1. Wnd \in 0 .. Wnd
      BY <1>1
    <3>2. QED
      BY <1>1, <3>1, WindowEnd
  <2>2. A <= Len(d)
    BY <1>1
  <2>3. Diff(s.sn, Add(k.rnxt, Wnd)) = Abs(s.sn) - Abs(Add(k.rnxt, Wnd))
    BY <1>1, <2>1, <2>2, DiffFew
  <2>4. QED
    BY <2>1, <2>3
<1>4. CASE A - (r + Wnd) >= 0 \/ A - r < 0 \/ there
  <2>1. m = MoveReady(k)
    BY <1>2, <1>3, <1>4 DEF ParseData
  <2>2. A < r + Wnd => A \in Have(k)
    <3>1. CASE A < r
      BY <1>1, <3>1 DEF Have
    <3>2. CASE there
      BY <1>1, <3>2 DEF Have
    <3> HIDE DEF A, r, there
    <3>3. QED
      BY <1>1, <1>4, <3>1, <3>2
  <2>3. QED
    BY <2>1, <2>2, MoveReadyKeeps
<1>5. CASE ~(A - (r + Wnd) >= 0 \/ A - r < 0 \/ there)
  <2> DEFINE n == Cardinality({i \in DOMAIN k.rbuf : Diff(s.sn, k.rbuf[i].sn) > 0})
             o == [k EXCEPT !.rbuf = InsertAt(k.rbuf, n + 1, x)]
  <2>1. m = MoveReady(o)
    <3>1. ~(Diff(s.sn, Add(k.rnxt, Wnd)) >= 0 \/ Diff(s.sn, k.rnxt) < 0 \/ there)
      BY <1>2, <1>3, <1>5
    <3>2. QED
      BY <3>1 DEF ParseData
  <2>2. x \in Kept /\ At(x, d) /\ x.sn = s.sn
    BY <1>1 DEF Kept, At
  <2>3. r <= A /\ A < r + Wnd
    BY <1>1, <1>5
  <2>4. \A i \in 1 .. Len(k.rbuf) : k.rbuf[i].sn # x.sn
    BY <1>1, <1>5
  <2>5. n = Cardinality({i \in 1 .. Len(k.rbuf) : Diff(x.sn, k.rbuf[i].sn) > 0})
    BY <1>1
  <2> HIDE DEF n, x
  <2>6. o = [k EXCEPT !.rbuf = InsertAt(k.rbuf, n + 1, x)]
    OBVIOUS
  <2> HIDE DEF o
  <2>7. /\ o \in KcpT /\ Receives(o, d) /\ Have(k) \subseteq Have(o) /\ Abs(x.sn) \in Have(o)
        /\ SameSend(k, o) /\ o.acks = k.acks /\ o.tell = k.tell /\ Taken(o) = Taken(k)
    <3>1. Abs(k.rnxt) <= Abs(x.sn) /\ Abs(x.sn) < Abs(k.rnxt) + Wnd
      BY <2>2, <2>3
    <3>2. QED
      BY <2>2, <2>4, <2>5, <2>6, <3>1, SortedIn
  <2>8. /\ m \in KcpT /\ Receives(m, d) /\ Have(o) \subseteq Have(m)
        /\ SameSend(o, m) /\ m.acks = o.acks /\ m.tell = o.tell /\ Taken(m) = Taken(o)
    BY <2>1, <2>7, MoveReadyKeeps
  <2>9. SameSend(k, m)
    BY <2>7, <2>8 DEF SameSend
  <2>10. QED
    BY <2>2, <2>7, <2>8, <2>9
<1>6. QED
  BY <1>4, <1>5

-----------------------------------------------------------------------------
(* Sending.                                                                *)

LEMMA SentNumbers ==
  ASSUME NEW d, Few(d), NEW H, \A j \in H : j \in Nat /\ j < Len(d), NEW die,
         NEW k \in KcpT, Sends(k, d, H, die)
  PROVE  \A i \in 1 .. Len(k.buf) :
           /\ k.buf[i] \in Sent /\ k.buf[i].sn \in Sns
           /\ Abs(k.buf[i].sn) = Abs(k.una) + i - 1 /\ Abs(k.buf[i].sn) < Len(d)
<1>1. \A i \in 1 .. Len(k.buf) : k.buf[i] \in Sent /\ k.buf[i].sn \in Sns
  BY KcpNumbers
<1>2. \A i \in 1 .. Len(k.buf) :
        /\ Abs(k.buf[i].sn) = Abs(k.una) + i - 1
        /\ Abs(k.buf[i].sn) \in H \/ At(k.buf[i], d)
  BY DEF Sends
<1>3. QED
  BY <1>1, <1>2 DEF At

LEMMA ParseUnaKeeps ==
  ASSUME NEW d, Few(d), NEW H, \A j \in H : j \in Nat /\ j < Len(d), NEW die,
         NEW k \in KcpT, Sends(k, d, H, die),
         NEW una \in Sns, \A j \in 0 .. Abs(una) - 1 : j \in H, NEW m, m = ParseUna(k, una)
  PROVE  /\ m \in KcpT /\ Sends(m, d, H, die) /\ SameReceive(k, m)
         /\ m.acks = k.acks /\ m.nxt = k.nxt /\ m.queue = k.queue
         /\ Len(m.buf) <= Len(k.buf)
<1> DEFINE L == Len(k.buf)
           N == Abs(una)
           u == Abs(k.una)
           S == {i \in 1 .. L : \A j \in 1 .. i : Diff(una, k.buf[j].sn) > 0}
           n == Cardinality(S)
           kept == SubSeq(k.buf, n + 1, L)
<1>1. /\ L \in Nat /\ N \in Nat /\ u \in Nat /\ Len(d) \in Nat /\ k.buf \in Seq(Sent)
      /\ DOMAIN k.buf = 1 .. L /\ k.nxt \in Sns /\ Wnd \in Nat
  BY KcpFields, KcpNumbers, FewFacts, AbsType, Sizes
<1>2. N <= Len(d)
  <2>1. CASE N = 0
    BY <1>1, <2>1
  <2>2. CASE N # 0
    <3>1. N - 1 \in 0 .. N - 1
      BY <1>1, <2>2
    <3>2. N - 1 < Len(d)
      BY <3>1
    <3>3. QED
      BY <1>1, <3>2
  <2>3. QED
    BY <2>1, <2>2
<1>3. \A i \in 1 .. L :
        /\ k.buf[i].sn \in Sns /\ Abs(k.buf[i].sn) = u + i - 1
        /\ Diff(una, k.buf[i].sn) = N - (u + i - 1)
  <2>1. ASSUME NEW i \in 1 .. L
        PROVE  /\ k.buf[i].sn \in Sns /\ Abs(k.buf[i].sn) = u + i - 1
               /\ Diff(una, k.buf[i].sn) = N - (u + i - 1)
    <3>1. k.buf[i].sn \in Sns /\ Abs(k.buf[i].sn) = u + i - 1 /\ Abs(k.buf[i].sn) < Len(d)
      BY SentNumbers
    <3>2. Abs(k.buf[i].sn) <= Len(d) + Wnd
      BY <1>1, <3>1
    <3>3. Diff(una, k.buf[i].sn) = N - Abs(k.buf[i].sn)
      BY <1>2, <3>1, <3>2, DiffFew
    <3>4. QED
      BY <3>1, <3>3
  <2>2. QED
    BY <2>1
<1>4. m = [k EXCEPT !.buf = kept, !.una = IF kept = <<>> THEN k.nxt ELSE Head(kept).sn]
  BY <1>1 DEF ParseUna
<1>5. n \in 0 .. L /\ S = 1 .. n
  <2>1. S \subseteq 1 .. L
    OBVIOUS
  <2>2. \A i \in S : \A j \in 1 .. i : j \in S
    <3>1. ASSUME NEW i \in S, NEW j \in 1 .. i
          PROVE  j \in S
      <4>1. i \in 1 .. L /\ j \in 1 .. L /\ \A l \in 1 .. j : l \in 1 .. i
        BY <1>1
      <4>2. \A l \in 1 .. i : Diff(una, k.buf[l].sn) > 0
        OBVIOUS
      <4>3. QED
        BY <4>1, <4>2
    <3>2. QED
      BY <3>1
  <2> HIDE DEF S, L
  <2>3. QED
    BY <1>1, <2>1, <2>2, FirstOnes
<1>6. n = 0 \/ u + n <= N
  <2>1. CASE n # 0
    <3>1. n \in S /\ n \in 1 .. n /\ n \in 1 .. L
      BY <1>1, <1>5, <2>1
    <3>2. Diff(una, k.buf[n].sn) > 0
      BY <3>1
    <3>3. N - (u + n - 1) > 0
      BY <1>3, <3>1, <3>2
    <3> HIDE DEF n, u, N
    <3>4. QED
      BY <1>1, <3>1, <3>3
  <2>2. QED
    BY <2>1
<1> HIDE DEF S, n
<1>7. Rests(k.buf, n, kept, Sent)
  <2>1. n \in 0 .. Len(k.buf)
    BY <1>5
  <2>2. QED
    BY <1>1, <2>1, Rested, Zenon
<1> HIDE DEF kept
<1>8. /\ kept \in Seq(Sent) /\ Len(kept) = L - n
      /\ \A i \in 1 .. Len(kept) : n + i \in 1 .. L /\ kept[i] = k.buf[n + i]
  BY <1>7 DEF Rests
<1>9. /\ m.una \in Sns
      /\ kept = <<>> => m.una = k.nxt
      /\ kept # <<>> => m.una = k.buf[n + 1].sn /\ n + 1 \in 1 .. L
  <2>1. CASE kept = <<>>
    BY <1>1, <1>4, <2>1 DEF KcpT
  <2>2. CASE kept # <<>>
    <3>1. 1 \in 1 .. Len(kept) /\ Head(kept) = kept[1]
      BY <1>8, <2>2
    <3>2. Head(kept) = k.buf[n + 1] /\ n + 1 \in 1 .. L
      BY <1>8, <3>1
    <3>3. m.una = k.buf[n + 1].sn
      BY <1>4, <2>2, <3>2 DEF KcpT
    <3>4. QED
      BY <1>3, <2>2, <3>2, <3>3
  <2>3. QED
    BY <2>1, <2>2
<1>10. /\ m \in KcpT /\ m.buf = kept /\ SameReceive(k, m)
       /\ m.acks = k.acks /\ m.nxt = k.nxt /\ m.queue = k.queue
  <2>1. m = [k EXCEPT !.buf = kept, !.una = m.una]
    BY <1>4 DEF KcpT
  <2>2. QED
    BY <1>8, <1>9, <2>1 DEF KcpT, SameReceive
<1>11. /\ Abs(k.nxt) = Len(d) /\ L <= Wnd
       /\ \A i \in 1 .. L : IF k.buf[i].acked THEN Abs(k.buf[i].sn) \in H ELSE At(k.buf[i], d)
       /\ IF die THEN k.buf = <<>> /\ k.queue = <<>>
          ELSE /\ u + L = Len(d)
               /\ \A j \in 0 .. u - 1 : j \in H
  BY DEF Sends
<1>z. n \in Nat /\ n <= L /\ L \in Nat /\ u \in Nat /\ N \in Nat /\ Wnd \in Nat /\ L <= Wnd
  BY <1>1, <1>5, <1>11
<1>12. Len(m.buf) <= Len(k.buf) /\ Len(m.buf) <= Wnd
  <2>1. Len(m.buf) = L - n
    BY <1>8, <1>10
  <2> HIDE DEF L
  <2>2. QED
    BY <1>z, <2>1 DEF L
<1>13. CASE die
  <2>1. k.buf = <<>> /\ k.queue = <<>> /\ L = 0
    BY <1>11, <1>13
  <2>2. Len(kept) = 0 /\ kept = <<>>
    BY <1>8, <1>z, <2>1
  <2>3. Sends(m, d, H, die)
    BY <1>10, <1>11, <1>12, <1>13, <2>1, <2>2 DEF Sends
  <2>4. QED
    BY <1>10, <1>12, <2>3
<1>14. CASE ~die
  <2>1. Abs(m.una) = u + n
    <3>1. CASE kept = <<>>
      <4>1. Len(kept) = 0
        BY <3>1
      <4>2. Abs(m.una) = Len(d) /\ u + L = Len(d)
        BY <1>9, <1>11, <1>14, <3>1
      <4> HIDE DEF L, u
      <4>3. QED
        BY <1>8, <1>z, <4>1, <4>2
    <3>2. CASE kept # <<>>
      <4>1. Abs(m.una) = u + (n + 1) - 1
        BY <1>3, <1>9, <3>2
      <4> HIDE DEF u
      <4>2. QED
        BY <1>z, <4>1
    <3>3. QED
      BY <3>1, <3>2
  <2>2. Abs(m.una) + Len(m.buf) = Len(d)
    <3> DEFINE a == Abs(m.una)
               b == Len(m.buf)
               c == Len(d)
    <3>1. u + L = c /\ b = L - n /\ a = u + n /\ n \in Nat /\ L \in Nat /\ u \in Nat
      BY <1>8, <1>10, <1>11, <1>14, <1>z, <2>1
    <3> HIDE DEF L, u, a, b, c
    <3>2. a + b = c
      BY <3>1
    <3>3. QED
      BY <3>2 DEF a, b, c
  <2>3. ASSUME NEW i \in 1 .. Len(m.buf)
        PROVE  /\ Abs(m.buf[i].sn) = Abs(m.una) + i - 1
               /\ IF m.buf[i].acked THEN Abs(m.buf[i].sn) \in H ELSE At(m.buf[i], d)
    <3>1. n + i \in 1 .. L /\ m.buf[i] = k.buf[n + i]
      BY <1>8, <1>10
    <3>2. Abs(k.buf[n + i].sn) = u + (n + i) - 1
      BY <1>3, <3>1
    <3>3. u + (n + i) - 1 = Abs(m.una) + i - 1
      <4> HIDE DEF u
      <4>1. QED
        BY <1>z, <2>1
    <3>4. IF k.buf[n + i].acked THEN Abs(k.buf[n + i].sn) \in H ELSE At(k.buf[n + i], d)
      BY <1>11, <3>1
    <3>5. QED
      BY <3>1, <3>2, <3>3, <3>4
  <2>4. ASSUME NEW j \in 0 .. Abs(m.una) - 1
        PROVE  j \in H
    <3>1. CASE j < u
      <4>1. j \in 0 .. u - 1
        BY <1>z, <3>1
      <4>2. QED
        BY <1>11, <1>14, <4>1
    <3>2. CASE ~(j < u)
      <4> HIDE DEF u
      <4>1. j \in 0 .. N - 1
        BY <1>6, <1>z, <2>1, <3>2
      <4>2. QED
        BY <4>1
    <3>3. QED
      BY <3>1, <3>2
  <2>5. Sends(m, d, H, die)
    BY <1>10, <1>11, <1>12, <1>14, <2>2, <2>3, <2>4 DEF Sends
  <2>6. QED
    BY <1>10, <1>12, <2>5
<1>15. QED
  BY <1>13, <1>14

LEMMA ParseAckKeeps ==
  ASSUME NEW d, NEW H, NEW die, NEW k \in KcpT, Sends(k, d, H, die),
         NEW sn \in Sns, Abs(sn) \in H, NEW m, m = ParseAck(k, sn)
  PROVE  /\ m \in KcpT /\ Sends(m, d, H, die) /\ SameReceive(k, m)
         /\ m.acks = k.acks /\ m.nxt = k.nxt /\ m.queue = k.queue
         /\ Len(m.buf) = Len(k.buf)
<1> DEFINE b == [i \in DOMAIN k.buf |->
                   IF k.buf[i].sn = sn THEN Acknowledged(k.buf[i]) ELSE k.buf[i]]
<1>1. m = k \/ m = [k EXCEPT !.buf = b]
  BY DEF ParseAck
<1>2. /\ k.buf \in Seq(Sent) /\ Len(k.buf) \in Nat /\ DOMAIN k.buf = 1 .. Len(k.buf)
      /\ \A i \in 1 .. Len(k.buf) : k.buf[i] \in Sent
  BY KcpFields, KcpNumbers
<1>3. \A x \in Sent : /\ Acknowledged(x) \in Sent /\ Acknowledged(x).sn = x.sn
                      /\ Acknowledged(x).acked = TRUE
  <2>1. <<>> \in Seq(Nat)
    OBVIOUS
  <2>2. QED
    BY <2>1 DEF Acknowledged, Sent
<1>4. /\ b \in Seq(Sent) /\ Len(b) = Len(k.buf)
      /\ \A i \in 1 .. Len(k.buf) :
           b[i] = IF k.buf[i].sn = sn THEN Acknowledged(k.buf[i]) ELSE k.buf[i]
  BY <1>2, <1>3
<1> HIDE DEF b
<1>5. CASE m = k
  BY <1>5 DEF SameReceive, KcpT
<1>6. CASE m = [k EXCEPT !.buf = b]
  <2>1. /\ m \in KcpT /\ m.buf = b /\ m.una = k.una /\ SameReceive(k, m)
        /\ m.acks = k.acks /\ m.nxt = k.nxt /\ m.queue = k.queue
    BY <1>4, <1>6 DEF KcpT, SameReceive
  <2>2. /\ Abs(k.nxt) = Len(d) /\ Len(k.buf) <= Wnd
        /\ \A i \in 1 .. Len(k.buf) :
             /\ Abs(k.buf[i].sn) = Abs(k.una) + i - 1
             /\ IF k.buf[i].acked THEN Abs(k.buf[i].sn) \in H ELSE At(k.buf[i], d)
        /\ IF die THEN k.buf = <<>> /\ k.queue = <<>>
           ELSE /\ Abs(k.una) + Len(k.buf) = Len(d)
                /\ \A j \in 0 .. Abs(k.una) - 1 : j \in H
    BY DEF Sends
  <2>3. ASSUME NEW i \in 1 .. Len(b)
        PROVE  /\ Abs(b[i].sn) = Abs(k.una) + i - 1
               /\ IF b[i].acked THEN Abs(b[i].sn) \in H ELSE At(b[i], d)
    <3>1. CASE k.buf[i].sn = sn
      <4>1. b[i] = Acknowledged(k.buf[i]) /\ k.buf[i] \in Sent /\ i \in 1 .. Len(k.buf)
        BY <1>2, <1>4, <3>1
      <4>2. b[i].acked = TRUE /\ b[i].sn = sn
        BY <1>3, <3>1, <4>1
      <4>3. Abs(sn) = Abs(k.una) + i - 1
        BY <2>2, <3>1, <4>1
      <4>4. QED
        BY <4>2, <4>3
    <3>2. CASE k.buf[i].sn # sn
      BY <1>4, <2>2, <3>2
    <3>3. QED
      BY <3>1, <3>2
  <2>4. die => b = <<>>
    BY <1>4, <2>2
  <2>5. Sends(m, d, H, die)
    BY <1>4, <2>1, <2>2, <2>3, <2>4 DEF Sends
  <2>6. QED
    BY <1>4, <2>1, <2>5
<1>7. QED
  BY <1>1, <1>5, <1>6

-----------------------------------------------------------------------------
(* A packet.                                                               *)

\* An engine that sends `mine`, when the other end sends `theirs` and has H
Sound(k, mine, theirs, H, die) ==
  k \in KcpT /\ Receives(k, theirs) /\ Owes(k) /\ Sends(k, mine, H, die)

\* Segments arrive and are confirmed, none is numbered, queued or handed on.
Hears(k, m) ==
  /\ m.nxt = k.nxt /\ m.queue = k.queue /\ Len(m.buf) <= Len(k.buf)
  /\ Taken(m) = Taken(k) /\ Have(k) \subseteq Have(m)

LEMMA HearsOn ==
  ASSUME NEW k \in KcpT, NEW l \in KcpT, NEW m \in KcpT, Hears(k, l), Hears(l, m)
  PROVE  Hears(k, m)
<1>1. Len(k.buf) \in Nat /\ Len(l.buf) \in Nat /\ Len(m.buf) \in Nat
  BY KcpFields
<1>2. QED
  BY <1>1 DEF Hears

LEMMA SendSame ==
  ASSUME NEW k, NEW m, SameSend(k, m), NEW d, NEW H, NEW die, Sends(k, d, H, die)
  PROVE  Sends(m, d, H, die)
BY DEF SameSend, Sends

LEMMA SegmentKeeps ==
  ASSUME NEW mine, Few(mine), NEW theirs, Few(theirs),
         NEW H, \A j \in H : j \in Nat /\ j < Len(mine), NEW die,
         NEW k, Sound(k, mine, theirs, H, die), NEW s, Valid(s, theirs, H),
         NEW m, m = ParseSegment(k, s)
  PROVE  Sound(m, mine, theirs, H, die) /\ Hears(k, m)
<1> DEFINE k1 == [k EXCEPT !.rmt = s.wnd]
           a == ParseUna(k1, s.una)
<1>1. /\ s \in Seg /\ \A j \in 0 .. Abs(s.una) - 1 : j \in H
      /\ s.cmd = "ACK" => Abs(s.sn) \in H
      /\ s.cmd = "PUSH" => At(s, theirs)
  BY DEF Valid
<1>2. /\ s.cmd \in {"ACK", "PUSH", "WASK", "WINS"} /\ s.sn \in Sns /\ s.una \in Sns
      /\ s.wnd \in 0 .. Wnd
  BY <1>1 DEF Seg
<1>3. k \in KcpT /\ Receives(k, theirs) /\ Owes(k) /\ Sends(k, mine, H, die)
  BY DEF Sound
<1>4. /\ k1 \in KcpT /\ SameReceive(k, k1) /\ k1.acks = k.acks /\ Sends(k1, mine, H, die)
      /\ k1.nxt = k.nxt /\ k1.queue = k.queue /\ k1.buf = k.buf
  BY <1>2, <1>3 DEF KcpT, SameReceive, Sends
<1> HIDE DEF k1
<1>5. /\ a \in KcpT /\ Sends(a, mine, H, die) /\ SameReceive(k1, a)
      /\ a.acks = k1.acks /\ a.nxt = k1.nxt /\ a.queue = k1.queue
      /\ Len(a.buf) <= Len(k1.buf)
  BY <1>1, <1>2, <1>4, ParseUnaKeeps
<1>6. /\ m = CASE s.cmd = "ACK"  -> ParseAck(a, s.sn)
              [] s.cmd = "PUSH" ->
                   IF Diff(s.sn, Add(a.rnxt, Wnd)) >= 0 THEN a
                   ELSE LET b == [a EXCEPT !.acks = Append(@, s.sn)]
                        IN  IF Diff(s.sn, a.rnxt) < 0 THEN b ELSE ParseData(b, s)
              [] s.cmd = "WASK" -> [a EXCEPT !.tell = TRUE]
              [] s.cmd = "WINS" -> a
  BY DEF ParseSegment, k1
<1> HIDE DEF a
<1>7. SameReceive(k, a) /\ a.acks = k.acks /\ Hears(k, a) /\ Receives(a, theirs) /\ Owes(a)
      /\ Have(a) = Have(k)
  <2>1. SameReceive(k, a) /\ a.acks = k.acks
    BY <1>4, <1>5 DEF SameReceive
  <2>2. Receives(a, theirs) /\ Have(a) = Have(k) /\ Taken(a) = Taken(k)
    BY <1>3, <2>1, ReceiveSame
  <2>3. QED
    BY <1>3, <1>4, <1>5, <2>1, <2>2 DEF Owes, Hears
\* Only what a later step may change is looked at from here on.
<1>8. ASSUME NEW b \in KcpT, SameReceive(a, b), Sends(b, mine, H, die), b.acks = a.acks,
             b.nxt = a.nxt, b.queue = a.queue, Len(b.buf) <= Len(a.buf)
      PROVE  Sound(b, mine, theirs, H, die) /\ Hears(k, b)
  <2>1. Receives(b, theirs) /\ Have(b) = Have(a) /\ Taken(b) = Taken(a)
    BY <1>7, <1>8, ReceiveSame
  <2>2. Hears(a, b)
    BY <1>8, <2>1 DEF Hears
  <2>3. Hears(k, b)
    BY <1>3, <1>5, <1>7, <2>2, HearsOn
  <2>4. Owes(b)
    BY <1>7, <1>8, <2>1 DEF Owes
  <2>5. QED
    BY <1>8, <2>1, <2>3, <2>4 DEF Sound
<1>9. Len(a.buf) \in Nat
  BY <1>5, KcpFields
<1>10. CASE s.cmd = "ACK"
  <2>1. m = ParseAck(a, s.sn)
    BY <1>6, <1>10
  <2>2. /\ m \in KcpT /\ Sends(m, mine, H, die) /\ SameReceive(a, m)
        /\ m.acks = a.acks /\ m.nxt = a.nxt /\ m.queue = a.queue
        /\ Len(m.buf) = Len(a.buf)
    BY <1>1, <1>2, <1>5, <1>10, <2>1, ParseAckKeeps
  <2>3. QED
    BY <1>8, <1>9, <2>2
<1>11. CASE s.cmd = "WINS"
  <2>1. m = a
    BY <1>6, <1>11
  <2>2. QED
    BY <1>5, <1>8, <1>9, <2>1 DEF SameReceive
<1>12. CASE s.cmd = "WASK"
  <2>1. m = [a EXCEPT !.tell = TRUE]
    BY <1>6, <1>12
  <2>2. /\ m \in KcpT /\ SameSend(a, m) /\ SameReceive(a, m) /\ m.acks = a.acks
        /\ m.nxt = a.nxt /\ m.queue = a.queue /\ m.buf = a.buf
    BY <1>5, <2>1 DEF KcpT, SameReceive, SameSend
  <2>3. Sends(m, mine, H, die)
    BY <1>5, <2>2, SendSame
  <2>4. QED
    BY <1>8, <1>9, <2>2, <2>3
<1>13. CASE s.cmd = "PUSH"
  <2> DEFINE b == [a EXCEPT !.acks = Append(@, s.sn)]
             r == Abs(a.rnxt)
             A == Abs(s.sn)
  <2>1. At(s, theirs) /\ A < Len(theirs) /\ A \in Nat /\ r \in Nat /\ r <= Len(theirs)
        /\ a.rnxt \in Sns /\ Len(theirs) \in Nat /\ Wnd \in Nat
    <3>1. At(s, theirs) /\ A < Len(theirs)
      BY <1>1, <1>13 DEF At
    <3>2. r \in Nat /\ a.rnxt \in Sns
      BY <1>5, KcpFields, KcpNumbers
    <3>3. r <= Len(theirs)
      BY <1>7 DEF Receives
    <3>4. QED
      BY <1>2, <3>1, <3>2, <3>3, AbsType, FewFacts, Sizes
  <2>2. Diff(s.sn, a.rnxt) = A - r
    <3>1. A <= Len(theirs) /\ r <= Len(theirs) + Wnd
      BY <2>1
    <3>2. QED
      BY <1>2, <2>1, <3>1, DiffFew
  <2>3. Diff(s.sn, Add(a.rnxt, Wnd)) = A - (r + Wnd)
    <3>1. /\ Add(a.rnxt, Wnd) \in Sns /\ Abs(Add(a.rnxt, Wnd)) = r + Wnd
          /\ Abs(Add(a.rnxt, Wnd)) <= Len(theirs) + Wnd
      <4>1. Wnd \in 0 .. Wnd
        BY <2>1
      <4>2. QED
        BY <2>1, <4>1, WindowEnd
    <3>2. A <= Len(theirs)
      BY <2>1
    <3>3. Diff(s.sn, Add(a.rnxt, Wnd)) = Abs(s.sn) - Abs(Add(a.rnxt, Wnd))
      BY <1>2, <3>1, <3>2, DiffFew
    <3>4. QED
      BY <3>1, <3>3
  <2>4. m = IF A - (r + Wnd) >= 0 THEN a ELSE IF A - r < 0 THEN b ELSE ParseData(b, s)
    BY <1>6, <1>13, <2>2, <2>3
  <2>5. CASE A - (r + Wnd) >= 0
    <3>1. m = a
      BY <2>4, <2>5
    <3>2. QED
      BY <1>5, <1>8, <1>9, <3>1 DEF SameReceive
  <2>6. CASE A < r + Wnd
    <3>1. b \in KcpT /\ SameSend(a, b) /\ SameReceive(a, b) /\ b.acks = Append(a.acks, s.sn)
      <4>1. a.acks \in Seq(Sns)
        BY <1>5, KcpFields
      <4>2. Append(a.acks, s.sn) \in Seq(Sns)
        BY <1>2, <4>1
      <4> DEFINE l == Append(a.acks, s.sn)
      <4>3. b = [a EXCEPT !.acks = l]
        OBVIOUS
      <4> HIDE DEF b, l
      <4>4. l \in Seq(Sns)
        BY <4>2 DEF l
      <4>5. b \in KcpT /\ SameSend(a, b) /\ SameReceive(a, b) /\ b.acks = l
        BY <1>5, <4>3, <4>4 DEF KcpT, SameSend, SameReceive
      <4>6. QED
        BY <4>5 DEF l
    <3>2. Receives(b, theirs) /\ Have(b) = Have(a) /\ Taken(b) = Taken(a) /\ Abs(b.rnxt) = r
      BY <1>7, <3>1, ReceiveSame DEF SameReceive
    <3> HIDE DEF b
    <3>3. ASSUME NEW c \in KcpT, SameSend(b, c), c.acks = b.acks, Receives(c, theirs),
                 Taken(c) = Taken(b), Have(b) \subseteq Have(c), A \in Have(c)
          PROVE  Sound(c, mine, theirs, H, die) /\ Hears(k, c)
      <4>1. SameSend(a, c)
        BY <3>1, <3>3 DEF SameSend
      <4>2. Sends(c, mine, H, die)
        BY <1>5, <4>1, SendSame
      <4>3. Hears(a, c)
        BY <1>9, <3>2, <3>3, <4>1 DEF Hears, SameSend
      <4>4. Hears(k, c)
        BY <1>3, <1>5, <1>7, <3>3, <4>3, HearsOn
      <4>5. Owes(c)
        <5>1. a.acks \in Seq(Sns) /\ Len(a.acks) \in Nat
          BY <1>5, KcpFields
        <5>2. \A i \in 1 .. Len(c.acks) : c.acks[i] = s.sn \/ \E j \in 1 .. Len(a.acks) : c.acks[i] = a.acks[j]
          BY <1>2, <3>1, <3>3, <5>1
        <5>3. \A j \in 1 .. Len(a.acks) : Abs(a.acks[j]) \in Have(c)
          BY <1>7, <3>2, <3>3 DEF Owes
        <5>4. QED
          BY <3>3, <5>2, <5>3 DEF Owes
      <4>6. QED
        BY <3>3, <4>2, <4>4, <4>5 DEF Sound
    <3>4. CASE A - r < 0
      <4>1. m = b
        BY <2>1, <2>4, <2>6, <3>4
      <4>2. A \in Have(b)
        BY <2>1, <3>2, <3>4 DEF Have
      <4>3. SameSend(b, b)
        BY DEF SameSend
      <4>4. QED
        BY <3>1, <3>2, <3>3, <4>1, <4>2, <4>3
    <3>5. CASE ~(A - r < 0)
      <4>1. m = ParseData(b, s)
        BY <2>1, <2>4, <2>6, <3>5
      <4>2. /\ m \in KcpT /\ Receives(m, theirs) /\ Have(b) \subseteq Have(m)
            /\ SameSend(b, m) /\ m.acks = b.acks /\ Taken(m) = Taken(b)
            /\ Abs(s.sn) < Abs(b.rnxt) + Wnd => Abs(s.sn) \in Have(m)
        BY <1>1, <2>1, <3>1, <3>2, <4>1, ParseDataKeeps
      <4>3. A \in Have(m)
        BY <2>6, <3>2, <4>2
      <4>4. QED
        BY <3>3, <4>2, <4>3
    <3>6. QED
      BY <3>4, <3>5
  <2>7. QED
    BY <2>1, <2>5, <2>6
<1>14. QED
  BY <1>2, <1>10, <1>11, <1>12, <1>13

\* The segments an end may send that sends d and has H
Sendable(d, H) == {s \in Seg : Valid(s, d, H)}

LEMMA ParseAllKeeps ==
  ASSUME NEW mine, Few(mine), NEW theirs, Few(theirs),
         NEW H, \A j \in H : j \in Nat /\ j < Len(mine), NEW die,
         NEW k, Sound(k, mine, theirs, H, die), NEW packet \in Seq(Sendable(theirs, H)),
         NEW m, m = ParseAll(k, packet)
  PROVE  Sound(m, mine, theirs, H, die) /\ Hears(k, m)
<1> DEFINE S == {x \in KcpT : Sound(x, mine, theirs, H, die) /\ Hears(k, x)}
           n == Len(packet)
           R == [i \in 0 .. n |-> S]
<1>1. k \in S
  BY KcpFields DEF Sound, Hears
<1>2. n \in Nat /\ \A i \in 1 .. n : Valid(packet[i], theirs, H)
  <2>1. n \in Nat /\ \A i \in 1 .. n : packet[i] \in Sendable(theirs, H)
    OBVIOUS
  <2>2. QED
    BY <2>1 DEF Sendable
<1>3. ASSUME NEW x \in S, NEW i \in 1 .. n
      PROVE  ParseSegment(x, packet[i]) \in S
  <2> DEFINE y == ParseSegment(x, packet[i])
  <2>1. Sound(x, mine, theirs, H, die) /\ Hears(k, x) /\ x \in KcpT /\ k \in KcpT
    BY <1>1
  <2>2. y = ParseSegment(x, packet[i])
    OBVIOUS
  <2> HIDE DEF y
  <2>3. Sound(y, mine, theirs, H, die) /\ Hears(x, y)
    BY <1>2, <2>1, <2>2, SegmentKeeps
  <2>4. y \in KcpT
    BY <2>3 DEF Sound
  <2>5. Hears(k, y)
    BY <2>1, <2>3, <2>4, HearsOn
  <2>6. QED
    BY <2>2, <2>3, <2>4, <2>5
<1> HIDE DEF S, n
<1>4. /\ R \in [0 .. n -> SUBSET S] /\ k \in R[0] /\ R[n] = S
      /\ \A i \in 1 .. n : \A x \in R[i - 1] : ParseSegment(x, packet[i]) \in R[i]
  <2>1. 0 \in 0 .. n /\ n \in 0 .. n
    BY <1>2
  <2>2. \A i \in 1 .. n : i \in 0 .. n /\ i - 1 \in 0 .. n
    BY <1>2
  <2>3. \A i \in 0 .. n : R[i] = S
    OBVIOUS
  <2>4. R \in [0 .. n -> SUBSET S]
    OBVIOUS
  <2> HIDE DEF R
  <2>5. QED
    BY <1>1, <1>3, <2>1, <2>2, <2>3, <2>4
<1>5. ParseAll(k, packet) \in R[n]
  <2> HIDE DEF R
  <2>1. Len(packet) \in Nat /\ n = Len(packet)
    BY <1>2 DEF n
  <2>2. QED
    BY <1>1, <1>3, <1>4, <2>1, ParseSteps
<1>6. m \in S
  BY <1>4, <1>5
<1>7. QED
  BY <1>6 DEF S

-----------------------------------------------------------------------------
(* Flushing.                                                               *)

\* s is a beginning of t.
Begins(s, t) == Len(s) <= Len(t) /\ \A i \in 1 .. Len(s) : t[i] = s[i]

LEMMA SendableMore ==
  ASSUME NEW d, Few(d), NEW e, Few(e), Begins(d, e), NEW H, NEW G, H \subseteq G
  PROVE  /\ \A s : s.sn \in Sns /\ At(s, d) => At(s, e)
         /\ \A s : Valid(s, d, H) => Valid(s, e, G)
         /\ Sendable(d, H) \subseteq Sendable(e, G)
<1>1. ASSUME NEW s, s.sn \in Sns, At(s, d)
      PROVE  At(s, e)
  <2>1. Abs(s.sn) \in Nat /\ Abs(s.sn) < Len(d) /\ s.data = d[Abs(s.sn) + 1]
    BY <1>1, AbsType DEF At
  <2>2. Len(d) \in Nat /\ Len(e) \in Nat /\ Len(d) <= Len(e)
    BY FewFacts DEF Begins
  <2>3. Abs(s.sn) + 1 \in 1 .. Len(d) /\ Abs(s.sn) < Len(e)
    BY <2>1, <2>2
  <2>4. e[Abs(s.sn) + 1] = d[Abs(s.sn) + 1]
    BY <2>3 DEF Begins
  <2>5. QED
    BY <2>1, <2>3, <2>4 DEF At
<1>2. ASSUME NEW s, Valid(s, d, H)
      PROVE  Valid(s, e, G)
  <2>1. s \in Seg /\ s.sn \in Sns
    BY <1>2 DEF Valid, Seg
  <2>2. QED
    BY <1>1, <1>2, <2>1 DEF Valid
<1>3. QED
  BY <1>1, <1>2 DEF Sendable

\* The queued segments that are given a number, with what was sent before
Numbered(d, q, n) == d \o SubSeq(q, 1, n)

LEMMA NumberedIs ==
  ASSUME NEW d, Few(d), NEW q \in Seq(Seq(Nat)), 2 * (Len(d) + Len(q) + Wnd) <= SnModulus,
         NEW n \in 0 .. Len(q)
  PROVE  /\ Few(Numbered(d, q, n)) /\ Len(Numbered(d, q, n)) = Len(d) + n
         /\ Begins(d, Numbered(d, q, n))
         /\ \A i \in 1 .. n : Numbered(d, q, n)[Len(d) + i] = q[i]
<1> DEFINE p == SubSeq(q, 1, n)
           e == d \o p
<1>1. /\ n \in Nat /\ Len(q) \in Nat /\ n <= Len(q) /\ d \in Seq(Seq(Nat)) /\ Len(d) \in Nat
      /\ Wnd \in Nat /\ SnModulus \in Nat
  BY FewFacts, Sizes
<1>2. p \in Seq(Seq(Nat)) /\ Len(p) = n /\ \A i \in 1 .. n : p[i] = q[i]
  BY Cut1, Zenon
<1> HIDE DEF p
<1>3. Joins(d, p, e, Seq(Nat))
  BY <1>1, <1>2, Joined, Zenon
<1>4. e = Numbered(d, q, n)
  BY DEF Numbered, p
<1> HIDE DEF e
<1>5. /\ e \in Seq(Seq(Nat)) /\ Len(e) = Len(d) + n
      /\ \A i \in 1 .. Len(d) : e[i] = d[i]
      /\ \A i \in 1 .. n : e[Len(d) + i] = q[i]
  BY <1>2, <1>3 DEF Joins
<1>6. 2 * (Len(e) + Wnd) <= SnModulus /\ Len(d) <= Len(e)
  BY <1>1, <1>5
<1>7. QED
  BY <1>4, <1>5, <1>6 DEF Few, Begins

\* f: what k becomes and sends when it numbers n segments
Flushing(k, f, n, mine, theirs, H) ==
  /\ Sound(f.k, Numbered(mine, k.queue, n), theirs, H, FALSE)
  /\ SameReceive(k, f.k)
  /\ f.k.queue = SubSeq(k.queue, n + 1, Len(k.queue))
  /\ Len(f.k.buf) = Len(k.buf) + n
  /\ f.out \in Seq(Seq(Sendable(Numbered(mine, k.queue, n), Have(k))))

\* How many segments both windows let through
LEMMA RoomIs ==
  ASSUME NEW d, Few(d), NEW H, NEW k \in KcpT, Sends(k, d, H, FALSE)
  PROVE  Room(k) \in Int /\ Len(k.buf) + Room(k) <= Wnd
<1> DEFINE w == IF Wnd < k.rmt THEN Wnd ELSE k.rmt
           u == Abs(k.una)
           e == Add(k.una, w)
<1>1. /\ w \in 0 .. Wnd /\ w \in Int /\ k.una \in Sns /\ k.nxt \in Sns /\ u \in Nat
      /\ Len(k.buf) \in Nat /\ Len(d) \in Nat /\ Wnd \in Nat /\ w <= Wnd
  BY KcpFields, KcpNumbers, FewFacts, Sizes
<1>2. Abs(k.nxt) = Len(d) /\ u + Len(k.buf) = Len(d) /\ u <= Len(d)
  BY <1>1 DEF Sends
<1> HIDE DEF w
<1>3. e \in Sns /\ Abs(e) = u + w /\ Abs(e) <= Len(d) + Wnd
  BY <1>1, <1>2, WindowEnd
<1>4. Diff(k.nxt, e) = Len(d) - (u + w)
  <2>1. Abs(k.nxt) <= Len(d)
    BY <1>1, <1>2
  <2>2. Diff(k.nxt, e) = Abs(k.nxt) - Abs(e)
    <3> HIDE DEF e
    <3>1. QED
      BY <1>1, <1>3, <2>1, DiffFew
  <2>3. QED
    BY <1>2, <1>3, <2>2
<1>5. Room(k) = -(Len(d) - (u + w))
  BY <1>4 DEF Room, w
<1> DEFINE a == Len(d)
           b == Len(k.buf)
           r == Room(k)
<1>6. /\ u \in Nat /\ a \in Nat /\ b \in Nat /\ w \in Int /\ Wnd \in Nat
      /\ w <= Wnd /\ u + b = a /\ r = -(a - (u + w))
  BY <1>1, <1>2, <1>5
<1> HIDE DEF u, e, a, b, r
<1>7. r \in Int /\ b + r <= Wnd
  BY <1>6
<1>8. QED
  BY <1>7 DEF b, r

LEMMA FlushKeeps ==
  ASSUME NEW mine, Few(mine), NEW theirs, Few(theirs),
         NEW H, \A j \in H : j \in Nat /\ j < Len(mine),
         NEW k, Sound(k, mine, theirs, H, FALSE),
         2 * (Len(mine) + Len(k.queue) + Wnd) <= SnModulus,
         NEW due, NEW late, NEW f, f = Flush(k, due, late)
  PROVE  \E n \in 0 .. Len(k.queue) : Flushing(k, f, n, mine, theirs, H)
<1> DEFINE seg(cmd, sn, data) == [cmd |-> cmd, sn |-> sn, una |-> k.rnxt,
                                  wnd |-> Unused(k), data |-> data]
           J == {i \in DOMAIN k.acks : Diff(k.acks[i], k.rnxt) >= 0}
           B == {i \in DOMAIN k.buf : ~k.buf[i].acked /\ k.buf[i].sn \in due}
           numbers == IF k.acks = <<>> THEN <<>>
                      ELSE Append(Chosen(Front(k.acks), J), Last(k.acks))
           acks == [i \in DOMAIN numbers |-> seg("ACK", numbers[i], <<>>)]
           probes == (IF Asks(k, late) THEN <<seg("WASK", k.una, <<>>)>> ELSE <<>>)
                     \o (IF k.tell THEN <<seg("WINS", k.una, <<>>)>> ELSE <<>>)
           n == IF Room(k) <= 0 THEN 0
                ELSE IF Room(k) < Len(k.queue) THEN Room(k) ELSE Len(k.queue)
           fresh == [i \in 1 .. n |-> [sn |-> Add(k.nxt, i - 1),
                                       data |-> k.queue[i], acked |-> FALSE]]
           again == Chosen(k.buf, B)
           sent == again \o fresh
           pushes == [i \in DOMAIN sent |-> seg("PUSH", sent[i].sn, sent[i].data)]
           small == acks \o probes
           k2 == [k EXCEPT !.acks = <<>>, !.tell = FALSE, !.armed = k.rmt = 0,
                           !.queue = SubSeq(k.queue, n + 1, Len(k.queue)),
                           !.buf = k.buf \o fresh, !.nxt = Add(k.nxt, n)]
           out == (IF small = <<>> THEN <<>> ELSE <<small>>)
                  \o [i \in DOMAIN pushes |-> <<pushes[i]>>]
           d == Numbered(mine, k.queue, n)
           V == Sendable(d, Have(k))
           P == {x \in Sent : At(x, d)}
<1>1. f = [k |-> k2, out |-> out]
  BY Zenon DEF Flush
<1>2. k \in KcpT /\ Receives(k, theirs) /\ Owes(k) /\ Sends(k, mine, H, FALSE)
  BY DEF Sound
<1>3. /\ k.una \in Sns /\ k.nxt \in Sns /\ k.rnxt \in Sns /\ k.queue \in Seq(Seq(Nat))
      /\ k.buf \in Seq(Sent) /\ k.acks \in Seq(Sns)
      /\ Len(k.queue) \in Nat /\ Len(k.buf) \in Nat /\ Len(k.rq) \in Nat /\ Len(k.acks) \in Nat
      /\ k.tell \in BOOLEAN /\ k.rmt \in 0 .. Wnd
  BY <1>2, KcpFields
<1>4. /\ Abs(k.nxt) = Len(mine) /\ Len(k.buf) <= Wnd
      /\ Abs(k.una) + Len(k.buf) = Len(mine)
      /\ \A j \in 0 .. Abs(k.una) - 1 : j \in H
      /\ \A i \in 1 .. Len(k.buf) :
           /\ Abs(k.buf[i].sn) = Abs(k.una) + i - 1
           /\ IF k.buf[i].acked THEN Abs(k.buf[i].sn) \in H ELSE At(k.buf[i], mine)
  BY <1>2 DEF Sends
<1>5. n \in 0 .. Len(k.queue) /\ Len(k.buf) + n <= Wnd /\ n \in Nat /\ n <= Len(k.queue)
  <2> DEFINE x == Room(k)
             l == Len(k.queue)
             b == Len(k.buf)
  <2>1. /\ x \in Int /\ b + x <= Wnd /\ l \in Nat /\ b \in Nat /\ b <= Wnd /\ Wnd \in Nat
        /\ n = IF x <= 0 THEN 0 ELSE IF x < l THEN x ELSE l
    BY <1>2, <1>3, <1>4, RoomIs, Sizes
  <2> HIDE DEF x, l, b, n
  <2>2. n \in 0 .. l /\ b + n <= Wnd
    BY <2>1
  <2>3. n \in Nat /\ n <= l
    BY <2>1, <2>2
  <2>4. QED
    BY <2>2, <2>3 DEF l, b
<1> HIDE DEF n, k2, out
<1>6. /\ Few(d) /\ Len(d) = Len(mine) + n /\ Begins(mine, d)
      /\ \A i \in 1 .. n : d[Len(mine) + i] = k.queue[i]
  BY <1>3, <1>5, NumberedIs
<1> HIDE DEF d
<1>7. Len(mine) \in Nat /\ Len(d) \in Nat /\ 2 * (Len(d) + Wnd) <= SnModulus
  BY <1>6, FewFacts
\* Every segment carries una and the window.
<1>8. Unused(k) \in 0 .. Wnd
  BY <1>3, Sizes DEF Unused
<1>9. ASSUME NEW cmd \in {"ACK", "PUSH", "WASK", "WINS"}, NEW sn \in Sns, NEW data \in Seq(Nat),
             cmd = "ACK" => Abs(sn) \in Have(k),
             cmd = "PUSH" => Abs(sn) < Len(d) /\ data = d[Abs(sn) + 1]
      PROVE  seg(cmd, sn, data) \in V
  <2> DEFINE s == seg(cmd, sn, data)
  <2>1. s \in Seg
    BY <1>3, <1>8 DEF Seg
  <2>2. s.cmd = cmd /\ s.sn = sn /\ s.data = data /\ s.una = k.rnxt
    OBVIOUS
  <2> HIDE DEF s
  <2>3. \A j \in 0 .. Abs(k.rnxt) - 1 : j \in Have(k)
    BY <1>3, AbsType DEF Have
  <2>4. Valid(s, d, Have(k))
    BY <1>9, <2>1, <2>2, <2>3 DEF Valid, At
  <2>5. s \in V
    BY <2>1, <2>4 DEF Sendable
  <2>6. QED
    BY <2>5 DEF s
<1> HIDE DEF V
<1>10. numbers \in Seq({a \in Sns : Abs(a) \in Have(k)})
  <2> DEFINE T == {a \in Sns : Abs(a) \in Have(k)}
             p == Front(k.acks)
  <2>1. \A i \in 1 .. Len(k.acks) : k.acks[i] \in T
    BY <1>2, <1>3 DEF Owes
  <2>2. CASE k.acks = <<>>
    BY <2>2
  <2>3. CASE k.acks # <<>>
    <3>1. Len(k.acks) \in 1 .. Len(k.acks)
      BY <1>3, <2>3
    <3>2. Last(k.acks) \in T
      BY <2>1, <3>1 DEF Last
    <3>3. Len(p) \in Nat /\ \A i \in 1 .. Len(p) : p[i] \in T
      <4>1. Len(p) = Len(k.acks) - 1 /\ \A i \in 1 .. Len(p) : p[i] = k.acks[i]
        BY <1>3, <3>1 DEF Front
      <4> HIDE DEF p, T
      <4>2. Len(p) \in Nat /\ \A i \in 1 .. Len(p) : i \in 1 .. Len(k.acks)
        BY <1>3, <3>1, <4>1
      <4>3. ASSUME NEW i \in 1 .. Len(p)
            PROVE  p[i] \in T
        BY <2>1, <4>1, <4>2
      <4>4. QED
        BY <4>2, <4>3
    <3> HIDE DEF T, p, J
    <3>4. Chosen(p, J) \in Seq(T)
      BY <3>3, ChosenIn
    <3>5. numbers = Append(Chosen(p, J), Last(k.acks))
      BY <2>3 DEF p
    <3> HIDE DEF numbers
    <3>6. numbers \in Seq(T)
      BY <3>2, <3>4, <3>5
    <3>7. QED
      BY <3>6 DEF T
  <2>4. QED
    BY <2>2, <2>3
<1> HIDE DEF numbers
<1>11. acks \in Seq(V)
  <2>1. \A i \in DOMAIN numbers : numbers[i] \in Sns /\ Abs(numbers[i]) \in Have(k)
    BY <1>10
  <2>2. \A i \in DOMAIN numbers : acks[i] \in V
    <3>1. <<>> \in Seq(Nat)
      OBVIOUS
    <3>2. ASSUME NEW i \in DOMAIN numbers
          PROVE  seg("ACK", numbers[i], <<>>) \in V
      BY <1>9, <2>1, <3>1
    <3> HIDE DEF seg
    <3>3. QED
      BY <3>2
  <2>3. DOMAIN numbers = 1 .. Len(numbers) /\ Len(numbers) \in Nat
    BY <1>10
  <2> HIDE DEF seg
  <2>4. QED
    BY <2>2, <2>3
<1>12. probes \in Seq(V)
  <2>1. <<>> \in Seq(Nat)
    OBVIOUS
  <2>2. seg("WASK", k.una, <<>>) \in V /\ seg("WINS", k.una, <<>>) \in V
    BY <1>3, <1>9, <2>1
  <2> HIDE DEF seg
  <2>3. QED
    BY <2>2
<1> HIDE DEF acks, probes
<1>13. small \in Seq(V)
  BY <1>11, <1>12
<1>14. /\ fresh \in Seq(P) /\ Len(fresh) = n
       /\ \A i \in 1 .. n : Abs(fresh[i].sn) = Len(mine) + i - 1 /\ fresh[i].acked = FALSE
       /\ Add(k.nxt, n) \in Sns /\ Abs(Add(k.nxt, n)) = Len(mine) + n
  <2>1. ASSUME NEW i \in 0 .. n
        PROVE  Add(k.nxt, i) \in Sns /\ Abs(Add(k.nxt, i)) = Len(mine) + i
    <3>1. i \in Nat /\ Abs(k.nxt) + i < SnModulus
      BY <1>4, <1>5, <1>6, <1>7, Sizes
    <3>2. QED
      BY <1>3, <1>4, <3>1, AbsAdd
  <2>2. ASSUME NEW i \in 1 .. n
        PROVE  /\ fresh[i] \in P
               /\ Abs(fresh[i].sn) = Len(mine) + i - 1 /\ fresh[i].acked = FALSE
    <3>1. i - 1 \in 0 .. n /\ i \in 1 .. Len(k.queue) /\ (Len(mine) + (i - 1)) + 1 = Len(mine) + i
          /\ Len(mine) + (i - 1) = Len(mine) + i - 1 /\ Len(mine) + (i - 1) < Len(d)
      <4> DEFINE a == Len(mine)
                 b == Len(d)
                 l == Len(k.queue)
      <4>1. a \in Nat /\ b = a + n /\ l \in Nat /\ n \in Nat /\ n <= l
        BY <1>3, <1>5, <1>6, <1>7
      <4> HIDE DEF a, b, l
      <4>2. i - 1 \in 0 .. n /\ i \in 1 .. l /\ (a + (i - 1)) + 1 = a + i
            /\ a + (i - 1) = a + i - 1 /\ a + (i - 1) < b
        BY <4>1
      <4>3. QED
        BY <4>2 DEF a, b, l
    <3>2. fresh[i] = [sn |-> Add(k.nxt, i - 1), data |-> k.queue[i], acked |-> FALSE]
      OBVIOUS
    <3> HIDE DEF fresh
    <3>3. /\ Add(k.nxt, i - 1) \in Sns /\ Abs(Add(k.nxt, i - 1)) = Len(mine) + (i - 1)
          /\ k.queue[i] \in Seq(Nat) /\ d[Len(mine) + i] = k.queue[i]
      <4>1. Add(k.nxt, i - 1) \in Sns /\ Abs(Add(k.nxt, i - 1)) = Len(mine) + (i - 1)
        BY <2>1, <3>1
      <4>2. k.queue[i] \in Seq(Nat)
        BY <1>3, <3>1
      <4>3. d[Len(mine) + i] = k.queue[i]
        BY <1>6
      <4>4. QED
        BY <4>1, <4>2, <4>3
    <3>4. fresh[i] \in Sent
      BY <3>2, <3>3 DEF Sent
    <3>5. At(fresh[i], d)
      BY <3>1, <3>2, <3>3 DEF At
    <3>6. QED
      BY <3>1, <3>2, <3>3, <3>4, <3>5
  <2>3. n \in 0 .. n
    BY <1>5
  <2> HIDE DEF P
  <2>4. fresh \in Seq(P) /\ Len(fresh) = n
    <3>1. n \in Nat /\ (\A i \in 1 .. n : fresh[i] \in P)
      BY <1>5, <2>2
    <3>2. fresh \in [1 .. n -> P]
      BY <3>1
    <3> HIDE DEF fresh
    <3>3. QED
      BY <3>1, <3>2
  <2>5. QED
    BY <2>1, <2>2, <2>3, <2>4
<1>15. again \in Seq(P)
  <2>1. ASSUME NEW i \in 1 .. Len(k.buf), i \in B
        PROVE  k.buf[i] \in P
    <3>1. k.buf[i] \in Sent /\ At(k.buf[i], mine) /\ k.buf[i].sn \in Sns
      BY <1>2, <1>3, <1>4, <2>1, KcpNumbers
    <3>2. At(k.buf[i], d)
      BY <1>6, <3>1, SendableMore
    <3>3. QED
      BY <3>1, <3>2
  <2> HIDE DEF P, B
  <2>2. QED
    BY <1>3, <2>1, ChosenIn
<1> HIDE DEF again, fresh
<1>16. pushes \in Seq(V)
  <2>1. sent \in Seq(P)
    <3> HIDE DEF P
    <3>1. QED
      BY <1>14, <1>15
  <2> HIDE DEF sent
  <2>2. ASSUME NEW i \in DOMAIN sent
        PROVE  seg("PUSH", sent[i].sn, sent[i].data) \in V
    <3>1. sent[i] \in Sent /\ At(sent[i], d)
      BY <2>1
    <3>2. sent[i].sn \in Sns /\ sent[i].data \in Seq(Nat)
      BY <3>1 DEF Sent
    <3>3. QED
      BY <1>9, <3>1, <3>2 DEF At
  <2>3. DOMAIN sent = 1 .. Len(sent) /\ Len(sent) \in Nat
    BY <2>1
  <2> HIDE DEF seg
  <2>4. QED
    BY <2>2, <2>3
<1> HIDE DEF pushes, small
<1>17. f.out \in Seq(Seq(V))
  <2>1. DOMAIN pushes = 1 .. Len(pushes) /\ Len(pushes) \in Nat /\ \A i \in DOMAIN pushes : pushes[i] \in V
    BY <1>16
  <2> DEFINE p == [i \in DOMAIN pushes |-> <<pushes[i]>>]
             q == IF small = <<>> THEN <<>> ELSE <<small>>
  <2>2. p \in Seq(Seq(V))
    BY <2>1
  <2>3. q \in Seq(Seq(V))
    BY <1>13
  <2>4. f.out = q \o p
    BY <1>1 DEF out
  <2> HIDE DEF p, q
  <2>5. QED
    BY <2>2, <2>3, <2>4
<1>18. Rests(k.queue, n, SubSeq(k.queue, n + 1, Len(k.queue)), Seq(Nat))
  BY <1>3, <1>5, Rested, Zenon
<1>19. Joins(k.buf, fresh, k.buf \o fresh, Sent)
  <2>1. fresh \in Seq(Sent)
    BY <1>14
  <2>2. QED
    BY <1>3, <2>1, Joined, Zenon
<1> DEFINE b == k.buf \o fresh
           q == SubSeq(k.queue, n + 1, Len(k.queue))
<1>20. /\ b \in Seq(Sent) /\ Len(b) = Len(k.buf) + n
       /\ \A i \in 1 .. Len(k.buf) : b[i] = k.buf[i]
       /\ \A i \in 1 .. n : b[Len(k.buf) + i] = fresh[i]
       /\ q \in Seq(Seq(Nat))
  BY <1>14, <1>18, <1>19 DEF Joins, Rests
<1>21. /\ f.k \in KcpT /\ SameReceive(k, f.k) /\ f.k.acks = <<>> /\ f.k.queue = q
       /\ f.k.buf = b /\ f.k.nxt = Add(k.nxt, n) /\ f.k.una = k.una
  <2> DEFINE armed == k.rmt = 0
             none == <<>>
  <2>1. armed \in BOOLEAN /\ none \in Seq(Sns)
    OBVIOUS
  <2>2. f.k = [k EXCEPT !.acks = none, !.tell = FALSE, !.armed = armed, !.queue = q,
                        !.buf = b, !.nxt = Add(k.nxt, n)]
    BY <1>1 DEF k2
  <2> HIDE DEF armed, none, b, q
  <2>3. f.k \in KcpT /\ SameReceive(k, f.k) /\ f.k.acks = none /\ f.k.queue = q
        /\ f.k.buf = b /\ f.k.nxt = Add(k.nxt, n) /\ f.k.una = k.una
    BY <1>2, <1>14, <1>20, <2>1, <2>2 DEF KcpT, SameReceive
  <2>4. QED
    BY <2>3 DEF none
<1> HIDE DEF b, q
<1>22. ASSUME NEW i \in 1 .. Len(b)
       PROVE  /\ Abs(b[i].sn) = Abs(k.una) + i - 1
              /\ IF b[i].acked THEN Abs(b[i].sn) \in H ELSE At(b[i], d)
  <2>1. CASE i \in 1 .. Len(k.buf)
    <3>1. b[i] = k.buf[i] /\ Abs(b[i].sn) = Abs(k.una) + i - 1 /\ b[i].sn \in Sns
      BY <1>2, <1>4, <1>20, <2>1, KcpNumbers
    <3>2. IF b[i].acked THEN Abs(b[i].sn) \in H ELSE At(b[i], mine)
      BY <1>4, <2>1, <3>1
    <3>3. At(b[i], mine) => At(b[i], d)
      BY <1>6, <3>1, SendableMore
    <3>4. QED
      BY <3>1, <3>2, <3>3
  <2>2. CASE i \notin 1 .. Len(k.buf)
    <3> DEFINE u == Abs(k.una)
               l == Len(k.buf)
               a == Len(mine)
               j == i - l
    <3>1. j \in 1 .. n /\ l + j = i /\ j \in Int /\ u \in Nat /\ l \in Nat /\ u + l = a
      <4> DEFINE c == Len(b)
      <4>1. u \in Nat /\ l \in Nat /\ u + l = a /\ c = l + n /\ n \in Nat
        BY <1>2, <1>3, <1>4, <1>5, <1>20, KcpNumbers
      <4>2. i \in 1 .. c /\ i \notin 1 .. l
        BY <2>2
      <4> HIDE DEF u, l, a, c
      <4>3. QED
        BY <4>1, <4>2
    <3> HIDE DEF j
    <3>2. b[i] = fresh[j] /\ fresh[j] \in P
      <4>1. \A i1 \in 1 .. Len(fresh) : fresh[i1] \in P
        BY <1>14
      <4> HIDE DEF P
      <4>2. QED
        BY <1>14, <1>20, <3>1, <4>1
    <3>3. Abs(b[i].sn) = a + j - 1 /\ b[i].acked = FALSE /\ At(b[i], d)
      BY <1>14, <3>1, <3>2
    <3> HIDE DEF u, l, a
    <3>4. a + j - 1 = u + i - 1
      BY <3>1
    <3>5. QED
      BY <3>3, <3>4 DEF u
  <2>3. QED
    BY <2>1, <2>2
<1>23. Sends(f.k, d, H, FALSE)
  <2>1. Abs(f.k.nxt) = Len(d) /\ Len(b) <= Wnd
    BY <1>5, <1>6, <1>14, <1>20, <1>21
  <2>2. Abs(f.k.una) + Len(b) = Len(d)
    <3> DEFINE u == Abs(k.una)
               l == Len(k.buf)
               a == Len(mine)
    <3>1. u + l = a /\ u \in Nat /\ l \in Nat /\ a \in Nat /\ n \in Nat
      BY <1>2, <1>3, <1>4, <1>5, <1>7, KcpNumbers
    <3>2. Abs(f.k.una) = u /\ Len(b) = l + n /\ Len(d) = a + n
      BY <1>6, <1>20, <1>21
    <3> HIDE DEF u, l, a
    <3>3. u + (l + n) = a + n
      BY <3>1
    <3>4. QED
      BY <3>2, <3>3
  <2>3. QED
    BY <1>4, <1>21, <1>22, <2>1, <2>2 DEF Sends
<1>24. Receives(f.k, theirs) /\ Owes(f.k)
  <2>1. Receives(f.k, theirs)
    BY <1>2, <1>21, ReceiveSame
  <2>2. \A i \in 1 .. Len(f.k.acks) : FALSE
    BY <1>21
  <2>3. QED
    BY <2>1, <2>2 DEF Owes
<1>25. Flushing(k, f, n, mine, theirs, H)
  BY <1>17, <1>20, <1>21, <1>23, <1>24 DEF Flushing, Sound, d, V, q
<1>26. QED
  BY <1>5, <1>25

-----------------------------------------------------------------------------
(* Queueing what is written.                                               *)

LEMMA Division ==
  ASSUME NEW a \in Nat, NEW m \in Nat, m >= 1
  PROVE  a \div m \in Nat /\ (a \div m) * m <= a /\ a < (a \div m) * m + m
<1>1. a \div m \in Nat
  OBVIOUS
<1>2. (a \div m) * m <= a
  OBVIOUS
<1>3. a < (a \div m) * m + m
  OBVIOUS
<1>4. QED
  BY <1>1, <1>2, <1>3

LEMMA Multiples ==
  ASSUME NEW m \in Nat, NEW n \in Nat, NEW c \in 0 .. n
  PROVE  c * m \in Nat /\ n * m \in Nat /\ c * m <= n * m /\ (c - 1) * m = c * m - m
<1>1. c * m \in Nat /\ n * m \in Nat
  OBVIOUS
<1>2. c * m <= n * m
  OBVIOUS
<1>3. (c - 1) * m = c * m - m
  OBVIOUS
<1>4. QED
  BY <1>1, <1>2, <1>3

\* How many of n bytes the first c chunks hold
Upto(c, n) == IF c * Mss <= n THEN c * Mss ELSE n

\* How many chunks of n bytes there are
Pieces(n) == (n + Mss - 1) \div Mss

\* b holds the n bytes after `from`.
AreChunks(b, from, n) ==
  /\ Len(b) \in Nat /\ Len(b) = Pieces(n)
  /\ Upto(0, n) = 0 /\ Upto(Len(b), n) = n
  /\ \A c \in 0 .. Len(b) : Upto(c, n) \in Nat
  /\ \A c \in 1 .. Len(b) :
       /\ b[c] \in Seq(Nat) /\ Len(b[c]) >= 1 /\ Len(b[c]) <= Mss
       /\ Upto(c, n) = Upto(c - 1, n) + Len(b[c])
       /\ \A i \in 1 .. Len(b[c]) : b[c][i] = from + Upto(c - 1, n) + i

LEMMA ChunksAre ==
  ASSUME NEW from \in Nat, NEW n \in Nat, NEW b, b = Chunks(from, n)
  PROVE  AreChunks(b, from, n)
<1> DEFINE N == (n + Mss - 1) \div Mss
           l(c) == IF c * Mss <= n THEN Mss ELSE n - (c - 1) * Mss
           s(c) == [i \in 1 .. l(c) |-> from + (c - 1) * Mss + i]
<1>1. /\ Mss \in Nat /\ Mss >= 1 /\ N \in Nat
      /\ N * Mss <= n + Mss - 1 /\ n + Mss - 1 < N * Mss + Mss
  <2>1. Mss \in Nat /\ Mss >= 1
    BY Sizes
  <2>2. n + Mss - 1 \in Nat
    BY <2>1
  <2> DEFINE a == n + Mss - 1
  <2>3. a \in Nat
    BY <2>2
  <2> HIDE DEF a
  <2>4. a \div Mss \in Nat /\ (a \div Mss) * Mss <= a /\ a < (a \div Mss) * Mss + Mss
    BY <2>1, <2>3, Division
  <2>5. QED
    BY <2>1, <2>4 DEF a
<1>2. b = [c \in 1 .. N |-> s(c)]
  BY Zenon DEF Chunks
<1> HIDE DEF N, s
<1>3. Len(b) = N /\ \A c \in 1 .. N : b[c] = s(c)
  BY <1>1, <1>2
<1>4. \A c \in 0 .. N : /\ c \in Nat /\ c * Mss \in Nat /\ c * Mss <= N * Mss /\ N * Mss \in Nat
                        /\ (c - 1) * Mss = c * Mss - Mss
  <2>1. \A c \in 0 .. N : c \in Nat
    BY <1>1
  <2>2. QED
    BY <1>1, <2>1, Multiples
<1>5. Upto(0, n) = 0
  <2>1. 0 * Mss = 0
    BY <1>1
  <2>2. QED
    BY <2>1 DEF Upto
<1>6. Upto(N, n) = n
  <2>1. N \in 0 .. N
    BY <1>1
  <2> DEFINE x == N * Mss
  <2>2. x \in Nat /\ x <= n + Mss - 1 /\ n + Mss - 1 < x + Mss
    BY <1>1, <1>4, <2>1
  <2>3. Upto(N, n) = IF x <= n THEN x ELSE n
    BY DEF Upto
  <2> HIDE DEF x
  <2>4. QED
    BY <1>1, <2>2, <2>3
<1>7. \A c \in 0 .. N : Upto(c, n) \in Nat
  BY <1>4 DEF Upto
<1>8. ASSUME NEW c \in 1 .. N
      PROVE  /\ b[c] \in Seq(Nat) /\ Len(b[c]) >= 1 /\ Len(b[c]) <= Mss
             /\ Upto(c, n) = Upto(c - 1, n) + Len(b[c])
             /\ \A i \in 1 .. Len(b[c]) : b[c][i] = from + Upto(c - 1, n) + i
  <2> DEFINE x == c * Mss
             y == (c - 1) * Mss
             z == N * Mss
             e == l(c)
  <2>1. c \in 0 .. N
    BY <1>1
  <2>2. x \in Nat /\ z \in Nat /\ x <= z /\ y = x - Mss /\ z <= n + Mss - 1
    BY <1>1, <1>4, <2>1
  <2>3. /\ Upto(c, n) = IF x <= n THEN x ELSE n
        /\ Upto(c - 1, n) = IF y <= n THEN y ELSE n
        /\ e = IF x <= n THEN Mss ELSE n - y
    BY DEF Upto
  <2>4. y \in Nat
    <3>1. c - 1 \in 0 .. N
      BY <1>1
    <3>2. QED
      BY <1>4, <3>1
  <2>5. b[c] = [i \in 1 .. e |-> from + y + i]
    BY <1>3 DEF s
  <2> HIDE DEF x, y, z, e
  <2>6. y < n /\ e \in Nat /\ e >= 1 /\ e <= Mss
    BY <1>1, <2>2, <2>3, <2>4
  <2>7. Upto(c - 1, n) = y /\ Upto(c, n) = y + e
    BY <1>1, <2>2, <2>3, <2>4, <2>6
  <2>8. b[c] \in Seq(Nat) /\ Len(b[c]) = e /\ \A i \in 1 .. e : b[c][i] = from + y + i
    <3>1. \A i \in 1 .. e : from + y + i \in Nat
      BY <2>4
    <3>2. QED
      BY <2>5, <2>6, <3>1
  <2>9. QED
    BY <2>6, <2>7, <2>8
<1>9. Len(b) = Pieces(n)
  BY <1>3 DEF Pieces, N
<1>10. QED
  BY <1>1, <1>3, <1>5, <1>6, <1>7, <1>8, <1>9 DEF AreChunks
\* All but the last segment of a chain, and the last.
LEMMA ChainFront ==
  ASSUME NEW n \in Nat, NEW b, Chain(b, n), Len(b) >= 1,
         NEW a, a = SubSeq(b, 1, Len(b) - 1), NEW x, x = b[Len(b)]
  PROVE  /\ Chain(a, n) /\ Len(a) = Len(b) - 1 /\ Len(b) \in Nat
         /\ x \in Seq(Nat) /\ Len(x) >= 1 /\ Len(x) <= Mss
         /\ \A j \in 1 .. Len(x) : x[j] = (n + Size(a)) + j
         /\ Size(b) = Size(a) + Len(x) /\ Size(a) \in Nat
<1> DEFINE m == Len(b) - 1
           d == SubSeq(b, m + 1, Len(b))
<1>1. /\ b \in Seq(Seq(Nat)) /\ Len(b) \in Nat /\ m \in 0 .. Len(b) /\ m + 1 = Len(b)
      /\ Len(b) - m = 1 /\ Len(b) \in 1 .. Len(b)
  BY EndsFacts DEF Chain
<1>2. /\ Chain(a, n) /\ Len(a) = m /\ Chain(d, n + Size(a)) /\ Len(d) = 1
      /\ Size(b) = Size(a) + Size(d)
  BY <1>1, ChainSplit
<1>3. d[1] = x
  <2>1. d = SubSeq(b, Len(b), Len(b))
    BY <1>1
  <2> HIDE DEF d
  <2>2. QED
    BY <1>1, <2>1
<1>4. x \in Seq(Nat)
  BY <1>1
<1> HIDE DEF m, d
<1>5. /\ 1 \in 1 .. Len(d) /\ d \in Seq(Seq(Nat)) /\ Len(d[1]) >= 1 /\ Len(d[1]) <= Mss
      /\ \A j \in 1 .. Len(d[1]) : d[1][j] = (n + Size(a)) + Ends(d)[1 - 1] + j
  <2>1. 1 \in 1 .. Len(d)
    BY <1>2
  <2>2. QED
    BY <1>2, <2>1 DEF Chain
<1>6. Ends(d)[0] = 0 /\ Ends(d)[1] = Ends(d)[1 - 1] + Len(d[1])
  BY <1>5, EndsFacts
<1>7. Size(d) = Len(x)
  <2>1. 1 - 1 = 0 /\ Len(x) \in Nat
    BY <1>4
  <2>2. QED
    BY <1>2, <1>3, <1>6, <2>1 DEF Size
<1>8. Size(a) \in Nat
  BY <1>2, EndsFacts DEF Chain
<1>9. ASSUME NEW j \in 1 .. Len(x)
      PROVE  x[j] = (n + Size(a)) + j
  <2>1. x[j] = (n + Size(a)) + Ends(d)[1 - 1] + j
    BY <1>3, <1>5
  <2>2. Ends(d)[1 - 1] = 0
    BY <1>6
  <2>3. QED
    BY <1>8, <2>1, <2>2
<1>10. QED
  BY <1>1, <1>2, <1>3, <1>4, <1>5, <1>7, <1>8, <1>9 DEF m

\* The last segment of a chain is filled up.
LEMMA ChainGrow ==
  ASSUME NEW n \in Nat, NEW b, Chain(b, n), Len(b) >= 1, NEW y \in Seq(Nat),
         Len(b[Len(b)]) + Len(y) <= Mss,
         \A i \in 1 .. Len(y) : y[i] = n + Size(b) + i
  PROVE  LET c == [b EXCEPT ![Len(b)] = @ \o y]
         IN  Chain(c, n) /\ Size(c) = Size(b) + Len(y) /\ Len(c) = Len(b)
<1> DEFINE L == Len(b)
           a == SubSeq(b, 1, L - 1)
           x == b[L]
           z == x \o y
           c == [b EXCEPT ![L] = z]
           e == <<z>>
<1>1. /\ Chain(a, n) /\ Len(a) = L - 1 /\ L \in Nat
      /\ x \in Seq(Nat) /\ Len(x) >= 1 /\ Len(x) <= Mss
      /\ \A j \in 1 .. Len(x) : x[j] = (n + Size(a)) + j
      /\ Size(b) = Size(a) + Len(x) /\ Size(a) \in Nat
  BY ChainFront
<1>2. /\ b \in Seq(Seq(Nat)) /\ Len(y) \in Nat /\ Len(x) \in Nat /\ a \in Seq(Seq(Nat))
      /\ L \in 1 .. L /\ L >= 1
  <2> HIDE DEF a, x
  <2>1. b \in Seq(Seq(Nat)) /\ a \in Seq(Seq(Nat))
    BY <1>1 DEF Chain
  <2>2. L \in Nat /\ L >= 1
    BY <1>1
  <2>3. Len(y) \in Nat
    OBVIOUS
  <2>4. Len(x) \in Nat
    BY <1>1
  <2> HIDE DEF L
  <2>5. L \in 1 .. L
    BY <2>2
  <2>6. QED
    BY <2>1, <2>2, <2>3, <2>4, <2>5
<1>a. \A i \in 1 .. L - 1 : a[i] = b[i]
  BY <1>1, <1>2
<1>3. Joins(x, y, z, Nat)
  BY <1>1, Joined, Zenon
<1> HIDE DEF a, x, z
<1>4. /\ z \in Seq(Nat) /\ Len(z) = Len(x) + Len(y)
      /\ \A i \in 1 .. Len(x) : z[i] = x[i]
      /\ \A i \in 1 .. Len(y) : z[Len(x) + i] = y[i]
  BY <1>3 DEF Joins
<1>5. ASSUME NEW j \in 1 .. Len(z)
      PROVE  z[j] = (n + Size(a)) + j
  <2> DEFINE u == Len(x)
             v == Len(y)
             s == n + Size(a)
             i == j - u
  <2>a. u \in Nat /\ v \in Nat /\ Size(a) \in Nat /\ Size(b) = Size(a) + u
    BY <1>1, <1>2
  <2>b. j \in 1 .. u + v
    BY <1>4
  <2>1. u \in Nat /\ v \in Nat /\ s \in Nat /\ j \in 1 .. u + v /\ n + Size(b) = s + u
    <3> HIDE DEF u, v
    <3>1. QED
      BY <2>a, <2>b
  <2>2. /\ \A k \in 1 .. u : z[k] = x[k] /\ x[k] = s + k
        /\ \A k \in 1 .. v : z[u + k] = y[k]
    BY <1>1, <1>4
  <2>3. \A k \in 1 .. v : y[k] = (s + u) + k
    BY <2>1
  <2> HIDE DEF u, v, s
  <2>4. CASE j <= u
    <3>1. j \in 1 .. u
      BY <2>1, <2>4
    <3>2. QED
      BY <2>2, <3>1 DEF s
  <2>5. CASE ~(j <= u)
    <3>1. i \in 1 .. v /\ u + i = j /\ (s + u) + i = s + j
      BY <2>1, <2>5
    <3> HIDE DEF i
    <3>2. z[u + i] = (s + u) + i
      BY <2>2, <2>3, <3>1
    <3>3. QED
      BY <3>1, <3>2 DEF s
  <2>6. QED
    BY <2>4, <2>5
<1>6. Len(z) >= 1 /\ Len(z) <= Mss /\ n + Size(a) \in Nat
  <2>1. Len(x) + Len(y) <= Mss
    BY DEF x
  <2>2. Len(x) \in Nat /\ Len(y) \in Nat /\ Len(x) >= 1 /\ Len(z) = Len(x) + Len(y)
    BY <1>1, <1>2, <1>4
  <2>3. n + Size(a) \in Nat
    BY <1>1
  <2>4. QED
    BY <2>1, <2>2, <2>3
<1>7. Chain(e, n + Size(a)) /\ Size(e) = Len(z)
  BY <1>4, <1>5, <1>6, ChainOne
<1>8. Chain(a \o e, n) /\ Size(a \o e) = Size(a) + Size(e)
  BY <1>1, <1>7, ChainConcat
<1>9. c = a \o e
  <2>1. c \in Seq(Seq(Nat)) /\ Len(c) = L /\ c[L] = z /\ \A i \in 1 .. L : i # L => c[i] = b[i]
    <3> HIDE DEF L
    <3>1. L = Len(b)
      BY DEF L
    <3>2. QED
      BY <1>2, <1>4, <3>1
  <2>2. e \in Seq(Seq(Nat)) /\ Len(e) = 1 /\ e[1] = z
    BY <1>4
  <2> HIDE DEF c, e
  <2>3. Joins(a, e, a \o e, Seq(Nat))
    BY <1>2, <2>2, Joined, Zenon
  <2> DEFINE d == a \o e
  <2> HIDE DEF d
  <2>4. /\ d \in Seq(Seq(Nat)) /\ Len(d) = Len(a) + Len(e)
        /\ \A i \in 1 .. Len(a) : d[i] = a[i]
        /\ \A i \in 1 .. Len(e) : d[Len(a) + i] = e[i]
    BY <2>3 DEF Joins, d
  <2>5. ASSUME NEW i \in 1 .. L
        PROVE  c[i] = d[i]
    <3>1. CASE i # L
      <4>a. L \in Nat /\ Len(a) = L - 1
        BY <1>1
      <4>1. i \in 1 .. L - 1 /\ i \in 1 .. Len(a)
        <5> HIDE DEF L
        <5>1. QED
          BY <3>1, <4>a
      <4>2. c[i] = b[i] /\ a[i] = b[i] /\ d[i] = a[i]
        BY <1>a, <2>1, <2>4, <3>1, <4>1
      <4>3. QED
        BY <4>2
    <3>2. CASE i = L
      <4>1. Len(a) + 1 = L /\ 1 \in 1 .. Len(e)
        BY <1>1, <2>2
      <4>2. d[Len(a) + 1] = e[1]
        BY <2>4, <4>1
      <4>3. QED
        BY <2>1, <2>2, <3>2, <4>1, <4>2
    <3>3. QED
      BY <3>1, <3>2
  <2>6. Len(d) = L
    BY <1>1, <2>2, <2>4
  <2>7. c = d
    <3> HIDE DEF L
    <3>1. Len(c) = L /\ Len(d) = L /\ c \in Seq(Seq(Nat)) /\ d \in Seq(Seq(Nat))
      BY <2>1, <2>4, <2>6
    <3>2. \A i \in 1 .. L : c[i] = d[i]
      BY <2>5
    <3>3. c = [i \in 1 .. L |-> c[i]] /\ d = [i \in 1 .. L |-> d[i]]
      BY <3>1
    <3>4. QED
      BY <3>2, <3>3
  <2>8. QED
    BY <2>7 DEF d
<1>10. Chain(c, n) /\ Len(c) = L /\ Size(c) = Size(b) + Len(y)
  <2>1. Len(c) = L
    BY <1>2
  <2>2. Size(a) + Size(e) = Size(b) + Len(y)
    <3> DEFINE p == Size(a)
               q == Size(e)
               r == Size(b)
               u == Len(x)
               v == Len(y)
    <3>1. p \in Nat /\ u \in Nat /\ v \in Nat /\ q = u + v /\ r = p + u
      BY <1>1, <1>2, <1>4, <1>7
    <3> HIDE DEF p, q, r, u, v
    <3>2. p + q = r + v
      BY <3>1
    <3>3. QED
      BY <3>2 DEF p, q, r, v
  <2>3. QED
    BY <1>8, <1>9, <2>1, <2>2
<1>11. QED
  BY <1>10 DEF z, x

\* What send makes of the queue b
Filled(b, chunk) ==
  LET l == Len(b)
      room == IF l = 0 THEN 0 ELSE Mss - Len(b[l])
      ext == IF room < Len(chunk) THEN room ELSE Len(chunk)
      grown == IF ext = 0 THEN b ELSE [b EXCEPT ![l] = @ \o SubSeq(chunk, 1, ext)]
      rest == SubSeq(chunk, ext + 1, Len(chunk))
  IN  IF rest = <<>> THEN grown ELSE Append(grown, rest)

\* A chunk of the bytes that come next keeps the queue a chain.
LEMMA FilledChain ==
  ASSUME NEW n \in Nat, NEW b, Chain(b, n), NEW chunk \in Seq(Nat), Len(chunk) <= Mss,
         \A i \in 1 .. Len(chunk) : chunk[i] = n + Size(b) + i,
         NEW c, c = Filled(b, chunk)
  PROVE  Chain(c, n) /\ Size(c) = Size(b) + Len(chunk) /\ Len(c) <= Len(b) + 1
<1> DEFINE l == Len(b)
           s == Size(b)
           C == Len(chunk)
           room == IF l = 0 THEN 0 ELSE Mss - Len(b[l])
           ext == IF room < C THEN room ELSE C
           y == SubSeq(chunk, 1, ext)
           grown == IF ext = 0 THEN b ELSE [b EXCEPT ![l] = @ \o y]
           rest == SubSeq(chunk, ext + 1, C)
           e == <<>>
<1>1. /\ b \in Seq(Seq(Nat)) /\ l \in Nat /\ s \in Nat /\ C \in Nat /\ Mss \in Nat
  BY EndsFacts, Sizes DEF Chain
<1>2. l # 0 => l >= 1 /\ Len(b[l]) \in Nat /\ Len(b[l]) <= Mss
  <2>1. l # 0 => l \in 1 .. l
    BY <1>1
  <2>2. QED
    BY <1>1, <2>1, LensType DEF Chain
<1>3. /\ ext \in Nat /\ ext <= C
      /\ ext # 0 => l >= 1 /\ Len(b[l]) + ext <= Mss
  <2> DEFINE v == Len(b[l])
  <2>1. C \in Nat /\ Mss \in Nat /\ l \in Nat /\ (l # 0 => l >= 1 /\ v \in Nat /\ v <= Mss)
    BY <1>1, <1>2
  <2>2. room = IF l = 0 THEN 0 ELSE Mss - v
    OBVIOUS
  <2>3. ext = IF room < C THEN room ELSE C
    OBVIOUS
  <2> HIDE DEF l, C, room, ext, v
  <2>4. room \in Nat /\ (room # 0 => l >= 1 /\ v + room <= Mss)
    BY <2>1, <2>2
  <2>5. ext \in Nat /\ ext <= C /\ (ext # 0 => l >= 1 /\ v + ext <= Mss)
    BY <2>1, <2>3, <2>4
  <2>6. QED
    BY <2>5 DEF v
<1>4. c = IF rest = e THEN grown ELSE Append(grown, rest)
  BY DEF Filled
<1> HIDE DEF ext
<1>5. y \in Seq(Nat) /\ Len(y) = ext /\ \A i \in 1 .. ext : y[i] = chunk[i]
  <2>1. ext \in 0 .. Len(chunk)
    BY <1>1, <1>3
  <2>2. QED
    BY <2>1, Cut1, Zenon
<1>6. Rests(chunk, ext, rest, Nat)
  <2>1. ext \in 0 .. Len(chunk)
    BY <1>1, <1>3
  <2>2. QED
    BY <2>1, Rested, Zenon
<1> HIDE DEF y, rest
<1>7. /\ rest \in Seq(Nat) /\ Len(rest) = C - ext
      /\ \A i \in 1 .. Len(rest) : ext + i \in 1 .. C /\ rest[i] = chunk[ext + i]
  BY <1>6 DEF Rests
<1>8. Chain(grown, n) /\ Size(grown) = s + ext /\ Len(grown) = l
  <2>1. CASE ext = 0
    <3>1. grown = b /\ s + ext = s
      BY <1>1, <2>1
    <3> HIDE DEF grown
    <3>2. QED
      BY <3>1
  <2>2. CASE ext # 0
    <3>1. Len(b) >= 1 /\ Len(b[Len(b)]) + Len(y) <= Mss
      BY <1>3, <1>5, <2>2
    <3>2. \A i \in 1 .. Len(y) : y[i] = n + Size(b) + i
      <4>1. \A i \in 1 .. ext : i \in 1 .. C
        BY <1>1, <1>3
      <4>2. QED
        BY <1>5, <4>1
    <3> DEFINE h == [b EXCEPT ![Len(b)] = @ \o y]
    <3>3. Chain(h, n) /\ Size(h) = Size(b) + Len(y) /\ Len(h) = Len(b)
      BY <1>5, <3>1, <3>2, ChainGrow
    <3>4. grown = h
      BY <2>2
    <3> HIDE DEF grown, h
    <3>5. QED
      BY <1>5, <3>3, <3>4
  <2>3. QED
    BY <2>1, <2>2
<1> HIDE DEF grown
<1>9. CASE rest = e
  <2>1. C - ext = 0
    BY <1>7, <1>9
  <2>2. ext = C
    <3> HIDE DEF C
    <3>1. QED
      BY <1>1, <1>3, <2>1
  <2>3. c = grown /\ l <= l + 1
    BY <1>1, <1>4, <1>9
  <2>4. QED
    BY <1>8, <2>2, <2>3
<1>10. CASE rest # e
  <2> DEFINE t == <<rest>>
  <2>1. Len(rest) >= 1
    BY <1>7, <1>10
  <2>2. Len(rest) <= Mss
    <3>1. C <= Mss
      OBVIOUS
    <3> HIDE DEF C
    <3>2. QED
      BY <1>1, <1>3, <1>7, <3>1
  <2>3. n + Size(grown) \in Nat
    <3>1. Size(grown) = s + ext /\ s \in Nat /\ ext \in Nat
      BY <1>1, <1>3, <1>8
    <3>2. Size(grown) \in Nat
      <4> HIDE DEF s
      <4>1. QED
        BY <3>1
    <3>3. QED
      BY <3>2
  <2>4. ASSUME NEW i \in 1 .. Len(rest)
        PROVE  rest[i] = (n + Size(grown)) + i
    <3>1. ext + i \in 1 .. C /\ rest[i] = chunk[ext + i]
      BY <1>7
    <3>2. chunk[ext + i] = n + s + (ext + i)
      BY <3>1
    <3>3. n + s + (ext + i) = (n + (s + ext)) + i
      <4> HIDE DEF s
      <4>1. QED
        BY <1>1, <1>3
    <3>4. QED
      BY <1>8, <3>1, <3>2, <3>3
  <2>5. Chain(t, n + Size(grown)) /\ Size(t) = Len(rest)
    BY <1>7, <2>1, <2>2, <2>3, <2>4, ChainOne
  <2>6. c = grown \o t
    <3>1. c = Append(grown, rest)
      BY <1>4, <1>10
    <3>2. grown \in Seq(Seq(Nat))
      BY <1>8 DEF Chain
    <3>3. Append(grown, rest) = grown \o <<rest>>
      BY <1>7, <3>2
    <3>4. QED
      BY <3>1, <3>3
  <2> HIDE DEF t
  <2>7. Chain(c, n) /\ Size(c) = Size(grown) + Size(t)
    BY <1>8, <2>5, <2>6, ChainConcat
  <2>8. Size(grown) + Size(t) = s + C
    <3>1. Size(grown) + Size(t) = (s + ext) + (C - ext)
      BY <1>7, <1>8, <2>5
    <3> HIDE DEF s, C
    <3>2. (s + ext) + (C - ext) = s + C
      BY <1>1, <1>3
    <3>3. QED
      BY <3>1, <3>2
  <2>9. Len(c) <= l + 1
    <3>1. c = Append(grown, rest) /\ grown \in Seq(Seq(Nat))
      BY <1>4, <1>8, <1>10 DEF Chain
    <3>2. Len(c) = Len(grown) + 1
      BY <1>7, <3>1
    <3>3. QED
      BY <1>1, <1>8, <3>2
  <2>10. QED
    BY <2>7, <2>8, <2>9
<1>11. QED
  BY <1>9, <1>10

\* k with n bytes more behind its queue, which follows the byte base, in no
\* more than l further segments
Queued(k, base, n, l) ==
  {m \in KcpT : /\ m = [k EXCEPT !.queue = m.queue]
                /\ Chain(m.queue, base)
                /\ Size(m.queue) = Size(k.queue) + n
                /\ Len(m.queue) <= Len(k.queue) + l}

LEMMA QueueChunkKeeps ==
  ASSUME NEW k \in KcpT, NEW base \in Nat, NEW n \in Nat, NEW l \in Nat,
         NEW x \in Queued(k, base, n, l), NEW chunk \in Seq(Nat), Len(chunk) <= Mss,
         \A i \in 1 .. Len(chunk) : chunk[i] = base + (Size(k.queue) + n) + i
  PROVE  QueueChunk(x, chunk) \in Queued(k, base, n + Len(chunk), l + 1)
<1> DEFINE c == Filled(x.queue, chunk)
           m == [x EXCEPT !.queue = c]
<1>1. /\ x \in KcpT /\ x = [k EXCEPT !.queue = x.queue] /\ Chain(x.queue, base)
      /\ Size(x.queue) = Size(k.queue) + n /\ Len(x.queue) <= Len(k.queue) + l
  BY DEF Queued
<1>2. QueueChunk(x, chunk) = m
  BY Zenon DEF QueueChunk, Filled
<1>3. \A i \in 1 .. Len(chunk) : chunk[i] = base + Size(x.queue) + i
  BY <1>1
<1>4. c = Filled(x.queue, chunk)
  OBVIOUS
<1> HIDE DEF c
<1>5. Chain(c, base) /\ Size(c) = Size(x.queue) + Len(chunk) /\ Len(c) <= Len(x.queue) + 1
  BY <1>1, <1>3, <1>4, FilledChain
<1>6. c \in Seq(Seq(Nat))
  BY <1>5 DEF Chain
<1>7. m \in KcpT /\ m.queue = c /\ m = [k EXCEPT !.queue = c]
  BY <1>1, <1>6 DEF KcpT
<1>8. Size(c) = Size(k.queue) + (n + Len(chunk)) /\ Len(c) <= Len(k.queue) + (l + 1)
  <2>1. /\ Size(k.queue) \in Nat /\ Len(k.queue) \in Nat /\ Len(x.queue) \in Nat /\ Len(c) \in Nat
        /\ Len(chunk) \in Nat
    BY <1>1, <1>6, EndsFacts, KcpFields
  <2> DEFINE a == Size(k.queue)
             b == Size(x.queue)
             y == Size(c)
             p == Len(k.queue)
             q == Len(x.queue)
             r == Len(c)
             s == Len(chunk)
  <2>2. /\ a \in Nat /\ p \in Nat /\ q \in Nat /\ r \in Nat /\ s \in Nat
        /\ b = a + n /\ q <= p + l /\ y = b + s /\ r <= q + 1
    BY <1>1, <1>5, <2>1
  <2> HIDE DEF a, b, y, p, q, r, s
  <2>3. y = a + (n + s) /\ r <= p + (l + 1)
    BY <2>2
  <2>4. QED
    BY <2>3 DEF a, y, p, r, s
<1> HIDE DEF m
<1>9. m \in Queued(k, base, n + Len(chunk), l + 1)
  BY <1>5, <1>7, <1>8 DEF Queued
<1>10. QED
  BY <1>2, <1>9

LEMMA QueueAllKeeps ==
  ASSUME NEW k \in KcpT, NEW base \in Nat, NEW a \in Nat, NEW l \in Nat, NEW n \in Nat,
         NEW x \in Queued(k, base, a, l), NEW from \in Nat, from = base + (Size(k.queue) + a)
  PROVE  /\ QueueAll(x, Chunks(from, n)) \in Queued(k, base, a + n, l + Pieces(n))
         /\ Pieces(n) \in Nat
<1> DEFINE b == Chunks(from, n)
           N == Len(b)
           up(i) == Upto(i, n)
           R == [i \in 0 .. N |-> Queued(k, base, a + up(i), l + i)]
           s == Size(k.queue)
<1>1. /\ N \in Nat /\ N = Pieces(n) /\ up(0) = 0 /\ up(N) = n
      /\ \A i \in 0 .. N : up(i) \in Nat
      /\ \A i \in 1 .. N :
           /\ b[i] \in Seq(Nat) /\ Len(b[i]) >= 1 /\ Len(b[i]) <= Mss
           /\ up(i) = up(i - 1) + Len(b[i])
           /\ \A j \in 1 .. Len(b[i]) : b[i][j] = from + up(i - 1) + j
  <2> HIDE DEF b
  <2>1. b = Chunks(from, n)
    BY DEF b
  <2>2. AreChunks(b, from, n)
    BY <2>1, ChunksAre
  <2>3. QED
    BY <2>2 DEF AreChunks
<1>2. s \in Nat
  BY KcpFields, EndsFacts
<1> HIDE DEF b, N, up, s
<1>3. /\ R[0] = Queued(k, base, a, l) /\ R[N] = Queued(k, base, a + n, l + N)
      /\ R \in [0 .. N -> SUBSET KcpT]
  <2>1. 0 \in 0 .. N /\ N \in 0 .. N /\ a + 0 = a /\ l + 0 = l
    BY <1>1
  <2>2. R[0] = Queued(k, base, a + 0, l + 0) /\ R[N] = Queued(k, base, a + n, l + N)
    BY <1>1, <2>1
  <2>3. \A i \in 0 .. N : Queued(k, base, a + up(i), l + i) \subseteq KcpT
    BY DEF Queued
  <2>4. QED
    BY <2>1, <2>2, <2>3
<1>4. ASSUME NEW i \in 1 .. N, NEW y \in R[i - 1]
      PROVE  QueueChunk(y, b[i]) \in R[i]
  <2>1. /\ i - 1 \in 0 .. N /\ i \in 0 .. N /\ i - 1 \in Nat /\ up(i - 1) \in Nat
    BY <1>1
  <2>2. y \in Queued(k, base, a + up(i - 1), l + (i - 1))
    BY <2>1
  <2> DEFINE p == a + up(i - 1)
             q == l + (i - 1)
             c == b[i]
  <2>3. /\ p \in Nat /\ q \in Nat /\ c \in Seq(Nat) /\ Len(c) <= Mss /\ Len(c) \in Nat
        /\ y \in Queued(k, base, p, q)
    BY <1>1, <2>1, <2>2
  <2>4. \A j \in 1 .. Len(c) : c[j] = base + (s + p) + j
    <3>1. \A j \in 1 .. Len(c) : c[j] = from + up(i - 1) + j
      BY <1>1
    <3>2. from + up(i - 1) = base + (s + p)
      BY <1>2, <2>1 DEF s
    <3>3. QED
      BY <3>1, <3>2
  <2>5. p + Len(c) = a + up(i) /\ q + 1 = l + i
    <3>1. up(i) = up(i - 1) + Len(c)
      BY <1>1
    <3> DEFINE u == up(i - 1)
               v == up(i)
               w == Len(c)
    <3>2. v = u + w /\ u \in Nat /\ w \in Nat /\ i \in Nat
      BY <2>1, <2>3, <3>1
    <3> HIDE DEF u, v, w
    <3>3. (a + u) + w = a + v /\ (l + (i - 1)) + 1 = l + i
      BY <3>2
    <3>4. QED
      BY <3>3 DEF u, v, w
  <2> HIDE DEF p, q, c
  <2>6. QueueChunk(y, c) \in Queued(k, base, p + Len(c), q + 1)
    BY <2>3, <2>4, QueueChunkKeeps DEF s
  <2>7. QueueChunk(y, c) \in Queued(k, base, a + up(i), l + i)
    BY <2>5, <2>6
  <2>8. QED
    BY <2>1, <2>7 DEF c
<1> HIDE DEF R
<1>5. QueueAll(x, b) \in R[N]
  <2>1. x \in R[0] /\ N = Len(b) /\ Len(b) \in Nat
    BY <1>1, <1>3 DEF N
  <2>2. R \in [0 .. Len(b) -> SUBSET KcpT]
    BY <1>3, <2>1
  <2>3. \A i \in 1 .. Len(b) : \A y \in R[i - 1] : QueueChunk(y, b[i]) \in R[i]
    BY <1>4, <2>1
  <2>4. QueueAll(x, b) \in R[Len(b)]
    BY <2>1, <2>2, <2>3, QueueSteps
  <2>5. QED
    BY <2>1, <2>4
<1>6. QED
  BY <1>1, <1>3, <1>5 DEF b

\* The numbers of chunks of a write's buffers
Counts(w) == [i \in DOMAIN w |-> Len(Chunks(0, w[i]))]

LEMMA CountsAre ==
  ASSUME NEW w \in Seq(Nat)
  PROVE  /\ Counts(w) \in Seq(Nat) /\ Len(Counts(w)) = Len(w) /\ Len(w) \in Nat
         /\ \A i \in 1 .. Len(w) : Counts(w)[i] = Pieces(w[i]) /\ w[i] \in Nat
<1>1. Len(w) \in Nat /\ DOMAIN w = 1 .. Len(w) /\ \A i \in 1 .. Len(w) : w[i] \in Nat
  OBVIOUS
<1>2. ASSUME NEW n \in Nat
      PROVE  Len(Chunks(0, n)) = Pieces(n) /\ Pieces(n) \in Nat
  <2> DEFINE b == Chunks(0, n)
  <2>1. b = Chunks(0, n) /\ 0 \in Nat
    OBVIOUS
  <2> HIDE DEF b
  <2>2. AreChunks(b, 0, n)
    BY <2>1, ChunksAre
  <2>3. QED
    BY <2>1, <2>2 DEF AreChunks
<1>3. Counts(w) = [i \in 1 .. Len(w) |-> Pieces(w[i])]
  BY <1>1, <1>2 DEF Counts
<1>4. QED
  BY <1>1, <1>2, <1>3

LEMMA QueueBuffersKeeps ==
  ASSUME NEW k \in KcpT, NEW base \in Nat, Chain(k.queue, base), NEW w \in Seq(Nat),
         NEW from \in Nat, from = base + Size(k.queue)
  PROVE  QueueBuffers(k, from, w) \in Queued(k, base, SumOf(w), SumOf(Counts(w)))
<1> DEFINE N == Len(w)
           p(i) == Sums(w)[i]
           q(i) == Sums(Counts(w))[i]
           R == [i \in 0 .. N |-> Queued(k, base, p(i), q(i))]
           s == Size(k.queue)
<1>1. /\ N \in Nat /\ Counts(w) \in Seq(Nat) /\ Len(Counts(w)) = N
      /\ \A i \in 1 .. N : Counts(w)[i] = Pieces(w[i]) /\ w[i] \in Nat
  BY CountsAre
<1>2. /\ p(0) = 0 /\ q(0) = 0
      /\ \A i \in 0 .. N : p(i) \in Nat /\ q(i) \in Nat
      /\ \A i \in 1 .. N : p(i) = p(i - 1) + w[i] /\ q(i) = q(i - 1) + Pieces(w[i])
  <2>1. /\ p(0) = 0 /\ \A i \in 0 .. N : p(i) \in Nat
        /\ \A i \in 1 .. N : p(i) = p(i - 1) + w[i]
    BY SumsStep
  <2>2. /\ q(0) = 0 /\ \A i \in 0 .. N : q(i) \in Nat
        /\ \A i \in 1 .. N : q(i) = q(i - 1) + Counts(w)[i]
    BY <1>1, SumsStep
  <2> HIDE DEF p, q, N
  <2>3. \A i \in 1 .. N : q(i) = q(i - 1) + Pieces(w[i])
    BY <1>1, <2>2
  <2>4. QED
    BY <2>1, <2>2, <2>3
<1>3. SumOf(w) = p(N) /\ SumOf(Counts(w)) = q(N)
  BY <1>1 DEF SumOf
<1>4. s \in Nat
  BY KcpFields, EndsFacts
<1>5. \A i \in 1 .. N : from + Sums(w)[i - 1] = from + p(i - 1)
  OBVIOUS
<1> HIDE DEF N, p, q, s
<1>6. R[0] = Queued(k, base, 0, 0) /\ R[N] = Queued(k, base, p(N), q(N)) /\ R \in [0 .. N -> SUBSET KcpT]
  <2>1. 0 \in 0 .. N /\ N \in 0 .. N
    BY <1>1
  <2>2. R[0] = Queued(k, base, p(0), q(0)) /\ R[N] = Queued(k, base, p(N), q(N))
    BY <2>1
  <2>3. \A i \in 0 .. N : Queued(k, base, p(i), q(i)) \subseteq KcpT
    BY DEF Queued
  <2>4. QED
    BY <1>2, <2>2, <2>3
<1>7. k \in Queued(k, base, 0, 0)
  <2>1. k = [k EXCEPT !.queue = k.queue]
    BY DEF KcpT
  <2>2. Size(k.queue) + 0 = Size(k.queue) /\ Len(k.queue) <= Len(k.queue) + 0
    <3>1. Len(k.queue) \in Nat
      BY KcpFields
    <3>2. QED
      BY <1>4, <3>1 DEF s
  <2>3. QED
    BY <2>1, <2>2 DEF Queued
<1>8. ASSUME NEW i \in 1 .. N, NEW y \in R[i - 1]
      PROVE  QueueAll(y, Chunks(from + Sums(w)[i - 1], w[i])) \in R[i]
  <2>1. i - 1 \in 0 .. N /\ i \in 0 .. N
    BY <1>1
  <2>2. y \in Queued(k, base, p(i - 1), q(i - 1)) /\ R[i] = Queued(k, base, p(i), q(i))
    BY <2>1
  <2> DEFINE a == p(i - 1)
             l == q(i - 1)
             n == w[i]
             g == from + a
  <2>3. /\ a \in Nat /\ l \in Nat /\ n \in Nat /\ y \in Queued(k, base, a, l)
        /\ p(i) = a + n /\ q(i) = l + Pieces(n) /\ from + Sums(w)[i - 1] = g
    BY <1>1, <1>2, <1>5, <2>1, <2>2
  <2> HIDE DEF a, l, n
  <2>4. g \in Nat /\ g = base + (Size(k.queue) + a)
    <3>1. from = base + s
      BY DEF s
    <3>2. a \in Nat
      BY <2>3
    <3>3. from + a \in Nat
      BY <3>2
    <3>4. from + a = base + (s + a)
      BY <1>4, <3>1, <3>2, SMTT(30)
    <3>5. QED
      BY <3>3, <3>4 DEF s
  <2> HIDE DEF g
  <2>5. QueueAll(y, Chunks(g, n)) \in Queued(k, base, a + n, l + Pieces(n))
    BY <2>3, <2>4, QueueAllKeeps
  <2>6. QueueAll(y, Chunks(g, n)) \in R[i]
    BY <2>2, <2>3, <2>5
  <2>7. QED
    BY <2>3, <2>6 DEF n
<1> HIDE DEF R
<1>9. QueueBuffers(k, from, w) \in R[N]
  <2>1. N = Len(w) /\ Len(w) \in Nat /\ k \in R[0]
    BY <1>1, <1>6, <1>7 DEF N
  <2>2. R \in [0 .. Len(w) -> SUBSET KcpT]
    BY <1>6, <2>1
  <2>3. \A i \in 1 .. Len(w) : \A y \in R[i - 1] : QueueAll(y, Chunks(from + Sums(w)[i - 1], w[i])) \in R[i]
    BY <1>8, <2>1
  <2>4. QueueBuffers(k, from, w) \in R[Len(w)]
    BY <2>1, <2>2, <2>3, BufferSteps
  <2>5. QED
    BY <2>1, <2>4
<1>10. QED
  BY <1>3, <1>6, <1>9

-----------------------------------------------------------------------------
(* One end.                                                                *)

LEMMA TwoEnds ==
  ASSUME NEW e \in Side
  PROVE  /\ Peer(e) \in Side /\ Peer(e) # e /\ Peer(Peer(e)) = e
         /\ \A t \in Side : t = e \/ t = Peer(e)
<1>1. IsFiniteSet(Side) /\ Cardinality(Side) = 2
  BY KcpAssumption
<1>2. IsFiniteSet(Side \ {e}) /\ Cardinality(Side \ {e}) = 1
  BY <1>1, FS_RemoveElement
<1>3. PICK t : Side \ {e} = {t}
  BY <1>2, FS_Singleton
<1>4. Side = {e, t} /\ e # t
  BY <1>3
<1>5. Peer(e) = t /\ Peer(t) = e
  BY <1>4 DEF Peer
<1>6. QED
  BY <1>4, <1>5

SessT ==
  [pending : Seq(Nat), readEvent : BOOLEAN, writeEvent : BOOLEAN, die : BOOLEAN,
   failed : BOOLEAN, reader : {"run", "wait", "failed"}, writer : {"idle", "wait"},
   todo : Seq(Nat), input : BOOLEAN]

\* g was read of d, and what is pending comes next: the segments taken so far.
Reader(k, s, g, d) ==
  /\ Len(g) + Len(s.pending) = Ends(d)[Taken(k)]
  /\ \A i \in 1 .. Len(g) : g[i] = i
  /\ \A i \in 1 .. Len(s.pending) : s.pending[i] = Len(g) + i

\* What was written is numbered or queued, unless a close forgot the queue.
Writer(k, s, w, d, M) ==
  /\ Chain(d, 0) /\ Chain(k.queue, Size(d))
  /\ Size(d) + Size(k.queue) <= w /\ w <= M
  /\ ~s.die => Size(d) + Size(k.queue) = w
  /\ s.writer = "wait" => s.todo \in Writes /\ w + SumOf(s.todo) <= M
  /\ \E v \in Writes : WaitSnd(k) < Wnd + SumOf(Counts(v))

EndOk(k, s, w, g, mine, theirs, H, M) ==
  /\ k \in KcpT /\ s \in SessT /\ w \in Nat /\ g \in Seq(Nat)
  /\ Sound(k, mine, theirs, H, s.die)
  /\ Reader(k, s, g, theirs)
  /\ Writer(k, s, w, mine, M)

\* So few bytes make few segments.
Narrow(M) == M \in Nat /\ 2 * (M + Wnd) <= SnModulus

LEMMA Narrows == \A e \in Side : Narrow(MaxBytes[e])
BY KcpAssumption, SessionAssumption DEF Narrow

LEMMA ChainFew ==
  ASSUME NEW M, Narrow(M), NEW d, Chain(d, 0), NEW q, Chain(q, Size(d)), Size(d) + Size(q) <= M
  PROVE  /\ Few(d) /\ 2 * (Len(d) + Len(q) + Wnd) <= SnModulus
         /\ Size(d) \in Nat /\ Size(q) \in Nat
<1>1. Len(d) \in Nat /\ Size(d) \in Nat /\ Len(d) <= Size(d)
  <2>1. 0 \in Nat
    OBVIOUS
  <2>2. QED
    BY <2>1, ChainCount
<1>2. Len(q) \in Nat /\ Size(q) \in Nat /\ Len(q) <= Size(q)
  BY <1>1, ChainCount
<1>3. M \in Nat /\ 2 * (M + Wnd) <= SnModulus /\ Wnd \in Nat /\ SnModulus \in Nat
  BY Sizes DEF Narrow
<1>4. d \in Seq(Seq(Nat))
  BY DEF Chain
<1> DEFINE a == Len(d)
           b == Len(q)
           x == Size(d)
           y == Size(q)
<1>5. a \in Nat /\ x \in Nat /\ a <= x /\ b \in Nat /\ y \in Nat /\ b <= y /\ x + y <= M
  BY <1>1, <1>2
<1> HIDE DEF a, b, x, y
<1>6. 2 * (a + Wnd) <= SnModulus /\ 2 * (a + b + Wnd) <= SnModulus
  BY <1>3, <1>5
<1>7. QED
  BY <1>1, <1>2, <1>4, <1>6 DEF Few, a, b

LEMMA WriterFew ==
  ASSUME NEW M, Narrow(M), NEW k, NEW s, NEW w \in Nat, NEW d, Writer(k, s, w, d, M)
  PROVE  /\ Few(d) /\ 2 * (Len(d) + Len(k.queue) + Wnd) <= SnModulus
         /\ Chain(d, 0) /\ Chain(k.queue, Size(d))
         /\ Size(d) \in Nat /\ Size(k.queue) \in Nat
<1>1. Chain(d, 0) /\ Chain(k.queue, Size(d)) /\ Size(d) + Size(k.queue) <= w /\ w <= M
  BY DEF Writer
<1>2. Size(d) \in Nat /\ Size(k.queue) \in Nat /\ M \in Nat
  BY <1>1, EndsFacts DEF Chain, Narrow
<1>3. Size(d) + Size(k.queue) <= M
  BY <1>1, <1>2
<1>4. QED
  BY <1>1, <1>3, ChainFew

\* What the other end numbers and receives since does not disturb an end.
LEMMA PeerKeeps ==
  ASSUME NEW k, NEW s, NEW w, NEW g, NEW mine, NEW theirs, NEW H, NEW M,
         EndOk(k, s, w, g, mine, theirs, H, M), Few(theirs),
         NEW d, Few(d), Begins(theirs, d), NEW G, H \subseteq G
  PROVE  EndOk(k, s, w, g, mine, d, G, M)
<1>1. /\ k \in KcpT /\ s \in SessT /\ w \in Nat /\ g \in Seq(Nat)
      /\ Sound(k, mine, theirs, H, s.die) /\ Reader(k, s, g, theirs)
      /\ Writer(k, s, w, mine, M)
  BY DEF EndOk
<1>2. Receives(k, theirs) /\ Owes(k) /\ Sends(k, mine, H, s.die)
  BY <1>1 DEF Sound
<1>3. /\ Len(k.rq) \in Nat /\ Abs(k.rnxt) \in Nat /\ Len(theirs) \in Nat /\ Len(d) \in Nat
      /\ theirs \in Seq(Seq(Nat)) /\ d \in Seq(Seq(Nat))
  BY <1>1, KcpFields, KcpNumbers, FewFacts
<1>4. /\ Abs(k.rnxt) <= Len(theirs) /\ Len(k.rq) <= Wnd /\ Len(k.rq) <= Abs(k.rnxt)
      /\ \A i \in 1 .. Len(k.rq) : k.rq[i] = theirs[Taken(k) + i]
      /\ \A i \in 1 .. Len(k.rbuf) :
           /\ Abs(k.rnxt) <= Abs(k.rbuf[i].sn) /\ Abs(k.rbuf[i].sn) < Abs(k.rnxt) + Wnd
           /\ At(k.rbuf[i], theirs)
      /\ \A i, j \in 1 .. Len(k.rbuf) : i < j => Abs(k.rbuf[i].sn) < Abs(k.rbuf[j].sn)
  BY <1>2 DEF Receives
<1>5. Len(theirs) <= Len(d) /\ \A i \in 1 .. Len(theirs) : d[i] = theirs[i]
  BY DEF Begins
<1>6. Taken(k) \in Nat /\ Taken(k) + Len(k.rq) = Abs(k.rnxt) /\ Taken(k) <= Len(theirs)
  BY <1>3, <1>4 DEF Taken
<1>7. Receives(k, d)
  <2>1. Abs(k.rnxt) <= Len(d)
    BY <1>3, <1>4, <1>5
  <2>2. ASSUME NEW i \in 1 .. Len(k.rq)
        PROVE  k.rq[i] = d[Taken(k) + i]
    <3>1. Taken(k) + i \in 1 .. Len(theirs)
      <4> DEFINE t == Taken(k)
                 l == Len(k.rq)
                 r == Abs(k.rnxt)
                 z == Len(theirs)
      <4>1. t \in Nat /\ l \in Nat /\ r \in Nat /\ z \in Nat /\ t + l = r /\ r <= z
        BY <1>3, <1>4, <1>6
      <4> HIDE DEF t, l, r, z
      <4>2. \A j \in 1 .. l : t + j \in 1 .. z
        BY <4>1
      <4>3. QED
        BY <4>2 DEF t, l, z
    <3>2. QED
      BY <1>4, <1>5, <3>1
  <2>3. ASSUME NEW i \in 1 .. Len(k.rbuf)
        PROVE  At(k.rbuf[i], d)
    <3>1. k.rbuf[i].sn \in Sns
      BY <1>1, KcpNumbers
    <3>2. At(k.rbuf[i], theirs)
      BY <1>4
    <3>3. QED
      BY <3>1, <3>2, SendableMore
  <2>4. QED
    BY <1>4, <2>1, <2>2, <2>3 DEF Receives
<1>8. Sends(k, mine, G, s.die)
  BY <1>2 DEF Sends
<1>9. Ends(d)[Taken(k)] = Ends(theirs)[Taken(k)]
  <2> DEFINE t == Taken(k)
  <2>1. t \in Nat /\ t <= Len(theirs) /\ t <= Len(d) /\ t \in 0 .. t
    BY <1>3, <1>5, <1>6
  <2> HIDE DEF t
  <2>2. \A i \in 1 .. t : Len(d[i]) = Len(theirs[i])
    <3>1. \A i \in 1 .. t : i \in 1 .. Len(theirs)
      BY <1>3, <2>1
    <3>2. QED
      BY <1>5, <3>1
  <2>3. \A i \in 0 .. t : Ends(d)[i] = Ends(theirs)[i]
    BY <1>3, <2>1, <2>2, EndsPrefix, Zenon
  <2>4. QED
    BY <2>1, <2>3 DEF t
<1>10. Reader(k, s, g, d)
  BY <1>1, <1>9 DEF Reader
<1>11. QED
  BY <1>1, <1>2, <1>7, <1>8, <1>10 DEF EndOk, Sound

\* What k becomes and sends, as f, when it takes a packet, flushes, or both: it
\* has numbered d, more than before.
Advances(k, f, d, mine, theirs, H, die) ==
  /\ Sound(f.k, d, theirs, H, die) /\ Few(d) /\ Begins(mine, d)
  /\ Taken(f.k) = Taken(k) /\ Have(k) \subseteq Have(f.k)
  /\ Chain(d, 0) /\ Chain(f.k.queue, Size(d))
  /\ Size(d) + Size(f.k.queue) = Size(mine) + Size(k.queue)
  /\ WaitSnd(f.k) <= WaitSnd(k)
  /\ f.out \in Seq(Seq(Sendable(d, Have(f.k))))

\* What an engine with few segments has numbered and queued
Ready(k, mine) ==
  /\ Few(mine) /\ 2 * (Len(mine) + Len(k.queue) + Wnd) <= SnModulus
  /\ Chain(mine, 0) /\ Chain(k.queue, Size(mine))

LEMMA WaitNat ==
  ASSUME NEW k \in KcpT
  PROVE  WaitSnd(k) \in Nat
<1> DEFINE a == Len(k.buf)
           b == Len(k.queue)
<1>1. a \in Nat /\ b \in Nat
  BY KcpFields
<1>2. WaitSnd(k) = a + b
  BY DEF WaitSnd
<1> HIDE DEF a, b
<1>3. QED
  BY <1>1, <1>2

LEMMA FlushAdvances ==
  ASSUME NEW mine, NEW theirs, Few(theirs),
         NEW H, \A j \in H : j \in Nat /\ j < Len(mine),
         NEW k, Sound(k, mine, theirs, H, FALSE), Ready(k, mine), NEW f \in Flushes(k)
  PROVE  \E d : Advances(k, f, d, mine, theirs, H, FALSE)
<1>1. /\ Few(mine) /\ 2 * (Len(mine) + Len(k.queue) + Wnd) <= SnModulus
      /\ Chain(mine, 0) /\ Chain(k.queue, Size(mine))
  BY DEF Ready
<1>2. PICK due, late : f = Flush(k, due, late)
  BY DEF Flushes
<1>3. PICK n \in 0 .. Len(k.queue) : Flushing(k, f, n, mine, theirs, H)
  BY <1>1, <1>2, FlushKeeps
<1> DEFINE q == k.queue
           a == SubSeq(q, 1, n)
           b == SubSeq(q, n + 1, Len(q))
           d == Numbered(mine, q, n)
<1>4. /\ Sound(f.k, d, theirs, H, FALSE) /\ SameReceive(k, f.k) /\ f.k.queue = b
      /\ Len(f.k.buf) = Len(k.buf) + n /\ f.out \in Seq(Seq(Sendable(d, Have(k))))
  BY <1>3 DEF Flushing
<1>5. Taken(f.k) = Taken(k) /\ Have(f.k) = Have(k)
  BY <1>4, ReceiveSame
<1>6. k \in KcpT /\ f.k \in KcpT
  BY <1>4 DEF Sound
<1>7. /\ q \in Seq(Seq(Nat)) /\ Len(q) \in Nat /\ Len(k.buf) \in Nat /\ n \in Nat /\ n <= Len(q)
      /\ n \in 0 .. Len(q)
  BY <1>6, KcpFields
<1>8. Size(mine) \in Nat
  BY <1>1, EndsFacts DEF Chain
<1> HIDE DEF q
<1>9. Few(d) /\ Begins(mine, d)
  <2>1. 2 * (Len(mine) + Len(q) + Wnd) <= SnModulus
    BY <1>1 DEF q
  <2>2. QED
    BY <1>1, <1>7, <2>1, NumberedIs
<1>10. /\ Chain(a, Size(mine)) /\ Chain(b, Size(mine) + Size(a)) /\ Len(b) = Len(q) - n
       /\ Size(q) = Size(a) + Size(b)
  <2>1. Chain(q, Size(mine))
    BY <1>1 DEF q
  <2>2. QED
    BY <1>7, <1>8, <2>1, ChainSplit
<1>11. Chain(d, 0) /\ Size(d) = Size(mine) + Size(a)
  <2> HIDE DEF a
  <2>1. d = mine \o a
    BY DEF Numbered, a
  <2>2. 0 \in Nat /\ 0 + Size(mine) = Size(mine)
    BY <1>8
  <2> HIDE DEF d
  <2>3. QED
    BY <1>1, <1>10, <2>1, <2>2, ChainConcat
<1>12. Size(a) \in Nat /\ Size(b) \in Nat
  BY <1>10, EndsFacts DEF Chain
<1> HIDE DEF a, b, d
<1>13. Size(d) + Size(f.k.queue) = Size(mine) + Size(k.queue)
  <2> DEFINE s == Size(mine)
             t == Size(a)
             u == Size(b)
             v == Size(q)
             x == Size(d)
  <2>1. s \in Nat /\ t \in Nat /\ u \in Nat /\ v = t + u /\ x = s + t
    BY <1>8, <1>10, <1>11, <1>12
  <2> HIDE DEF s, t, u, v, x
  <2>2. x + u = s + v
    BY <2>1
  <2>3. QED
    BY <1>4, <2>2 DEF s, u, v, x, q
<1>14. WaitSnd(f.k) = WaitSnd(k)
  <2> DEFINE l == Len(k.buf)
             m == Len(q)
  <2>1. Len(f.k.buf) = l + n /\ Len(f.k.queue) = m - n
    BY <1>4, <1>10
  <2>2. l \in Nat /\ m \in Nat /\ n \in Nat
    BY <1>7
  <2>3. WaitSnd(f.k) = (l + n) + (m - n) /\ WaitSnd(k) = l + m
    BY <2>1 DEF WaitSnd, q
  <2> HIDE DEF l, m
  <2>4. QED
    BY <2>2, <2>3
<1>15. WaitSnd(k) \in Nat
  BY <1>6, WaitNat
<1>16. Chain(f.k.queue, Size(d)) /\ f.out \in Seq(Seq(Sendable(d, Have(f.k))))
  BY <1>4, <1>5, <1>10, <1>11
<1>17. Advances(k, f, d, mine, theirs, H, FALSE)
  <2>1. WaitSnd(f.k) <= WaitSnd(k) /\ Have(k) \subseteq Have(f.k)
    BY <1>5, <1>14, <1>15
  <2>2. QED
    BY <1>4, <1>5, <1>9, <1>11, <1>13, <1>16, <2>1 DEF Advances
<1>18. QED
  BY <1>17

LEMMA InputAdvances ==
  ASSUME NEW mine, NEW theirs, Few(theirs),
         NEW H, \A j \in H : j \in Nat /\ j < Len(mine), NEW die,
         NEW k, Sound(k, mine, theirs, H, die), Ready(k, mine),
         NEW packet \in Seq(Sendable(theirs, H)), NEW f \in Inputs(k, packet)
  PROVE  \E d : Advances(k, f, d, mine, theirs, H, die)
<1> DEFINE m == ParseAll(k, packet)
<1>1. /\ Few(mine) /\ 2 * (Len(mine) + Len(k.queue) + Wnd) <= SnModulus
      /\ Chain(mine, 0) /\ Chain(k.queue, Size(mine))
  BY DEF Ready
<1>2. f \in IF Len(m.buf) < Len(k.buf) THEN Flushes(m) ELSE {[k |-> m, out |-> <<>>]}
  <2>1. f \in UNION {IF Len(x.buf) < Len(k.buf) THEN Flushes(x) ELSE {[k |-> x, out |-> <<>>]} : x \in {m}}
    BY Zenon DEF Inputs
  <2> HIDE DEF m
  <2>2. QED
    BY <2>1
<1>3. m = ParseAll(k, packet)
  OBVIOUS
<1> HIDE DEF m
<1>4. Sound(m, mine, theirs, H, die) /\ Hears(k, m)
  BY <1>1, <1>3, ParseAllKeeps
<1>5. /\ m.queue = k.queue /\ Len(m.buf) <= Len(k.buf) /\ Taken(m) = Taken(k)
      /\ Have(k) \subseteq Have(m) /\ m \in KcpT /\ k \in KcpT
  BY <1>4 DEF Hears, Sound
<1>6. /\ Len(m.buf) \in Nat /\ Len(k.buf) \in Nat /\ Len(k.queue) \in Nat
  BY <1>5, KcpFields
<1>7. WaitSnd(m) <= WaitSnd(k) /\ WaitSnd(m) \in Nat /\ WaitSnd(k) \in Nat
  <2> DEFINE a == Len(m.buf)
             b == Len(k.buf)
             c == Len(k.queue)
  <2>1. a \in Nat /\ b \in Nat /\ c \in Nat /\ a <= b
    BY <1>5, <1>6
  <2>2. WaitSnd(m) = a + c /\ WaitSnd(k) = b + c
    BY <1>5 DEF WaitSnd
  <2> HIDE DEF a, b, c
  <2>3. QED
    BY <2>1, <2>2
<1>8. CASE ~(Len(m.buf) < Len(k.buf))
  <2>1. f = [k |-> m, out |-> <<>>]
    BY <1>2, <1>8
  <2>2. f.k = m /\ f.out \in Seq(Seq(Sendable(mine, Have(m))))
    BY <2>1
  <2>3. Begins(mine, mine)
    BY <1>1, FewFacts DEF Begins
  <2>4. Advances(k, f, mine, mine, theirs, H, die)
    BY <1>1, <1>4, <1>5, <1>7, <2>2, <2>3 DEF Advances
  <2>5. QED
    BY <2>4
<1>9. CASE Len(m.buf) < Len(k.buf)
  <2>1. f \in Flushes(m)
    BY <1>2, <1>9
  <2>2. CASE die
    <3>1. k.buf = <<>>
      BY <2>2 DEF Sound, Sends
    <3>2. Len(k.buf) = 0
      BY <3>1
    <3>3. QED
      BY <1>6, <1>9, <3>2
  <2>3. CASE ~die
    <3>1. Sound(m, mine, theirs, H, FALSE)
      BY <1>4, <2>3 DEF Sound, Sends
    <3>2. Ready(m, mine)
      BY <1>1, <1>5 DEF Ready
    <3>3. PICK d : Advances(m, f, d, mine, theirs, H, FALSE)
      BY <2>1, <3>1, <3>2, FlushAdvances
    <3>4. /\ Sound(f.k, d, theirs, H, FALSE) /\ Few(d) /\ Begins(mine, d)
          /\ Taken(f.k) = Taken(m) /\ Have(m) \subseteq Have(f.k)
          /\ Chain(d, 0) /\ Chain(f.k.queue, Size(d))
          /\ Size(d) + Size(f.k.queue) = Size(mine) + Size(m.queue)
          /\ WaitSnd(f.k) <= WaitSnd(m)
          /\ f.out \in Seq(Seq(Sendable(d, Have(f.k))))
      BY <3>3 DEF Advances
    <3>5. Sound(f.k, d, theirs, H, die)
      BY <2>3, <3>4 DEF Sound, Sends
    <3>6. WaitSnd(f.k) <= WaitSnd(k)
      <4>1. f.k \in KcpT
        BY <3>4 DEF Sound
      <4>2. WaitSnd(f.k) \in Nat
        BY <4>1, WaitNat
      <4>3. QED
        BY <1>7, <3>4, <4>2
    <3>7. Advances(k, f, d, mine, theirs, H, die)
      <4>1. /\ Taken(f.k) = Taken(k) /\ Have(k) \subseteq Have(f.k)
            /\ Size(d) + Size(f.k.queue) = Size(mine) + Size(k.queue)
        BY <1>5, <3>4
      <4>2. QED
        BY <3>4, <3>5, <3>6, <4>1 DEF Advances
    <3>8. QED
      BY <3>7
  <2>4. QED
    BY <2>2, <2>3
<1>10. QED
  BY <1>8, <1>9

\* Reading, waiting and waking up change nothing else.
LEMMA SessOk ==
  ASSUME NEW k, NEW s, NEW w, NEW g, NEW mine, NEW theirs, NEW H, NEW M,
         EndOk(k, s, w, g, mine, theirs, H, M),
         NEW s2 \in SessT, s2.pending = s.pending, s2.die = s.die,
         s2.writer = "wait" => s2.todo \in Writes /\ w + SumOf(s2.todo) <= M
  PROVE  EndOk(k, s2, w, g, mine, theirs, H, M)
BY DEF EndOk, Reader, Writer

LEMMA CountsNat ==
  ASSUME NEW v \in Writes
  PROVE  v \in Seq(Nat) /\ SumOf(v) \in Nat /\ SumOf(Counts(v)) \in Nat
<1>1. v \in Seq(Nat \ {0})
  BY KcpAssumption
<1>2. v \in Seq(Nat)
  BY <1>1
<1>3. Counts(v) \in Seq(Nat)
  BY <1>2, CountsAre
<1>4. QED
  BY <1>2, <1>3, SumNat

LEMMA EndAdvances ==
  ASSUME NEW k, NEW s, NEW w, NEW g, NEW mine, NEW theirs, NEW H, NEW M,
         EndOk(k, s, w, g, mine, theirs, H, M), NEW f, NEW d,
         Advances(k, f, d, mine, theirs, H, s.die)
  PROVE  EndOk(f.k, s, w, g, d, theirs, H, M)
<1>1. /\ k \in KcpT /\ s \in SessT /\ w \in Nat /\ g \in Seq(Nat)
      /\ Reader(k, s, g, theirs) /\ Writer(k, s, w, mine, M)
  BY DEF EndOk
<1>2. /\ Sound(f.k, d, theirs, H, s.die)
      /\ Taken(f.k) = Taken(k)
      /\ Chain(d, 0) /\ Chain(f.k.queue, Size(d))
      /\ Size(d) + Size(f.k.queue) = Size(mine) + Size(k.queue)
      /\ WaitSnd(f.k) <= WaitSnd(k)
  BY DEF Advances
<1>3. f.k \in KcpT
  BY <1>2 DEF Sound
<1>4. Reader(f.k, s, g, theirs)
  BY <1>1, <1>2 DEF Reader
<1>5. Writer(f.k, s, w, d, M)
  <2>1. PICK v \in Writes : WaitSnd(k) < Wnd + SumOf(Counts(v))
    BY <1>1 DEF Writer
  <2>2. WaitSnd(k) \in Nat /\ WaitSnd(f.k) \in Nat /\ SumOf(Counts(v)) \in Nat /\ Wnd \in Nat
    BY <1>1, <1>3, WaitNat, CountsNat, Sizes
  <2>3. WaitSnd(f.k) < Wnd + SumOf(Counts(v))
    BY <1>2, <2>1, <2>2
  <2>4. /\ Size(d) + Size(f.k.queue) <= w /\ w <= M
        /\ ~s.die => Size(d) + Size(f.k.queue) = w
        /\ s.writer = "wait" => s.todo \in Writes /\ w + SumOf(s.todo) <= M
    BY <1>1, <1>2 DEF Writer
  <2>5. QED
    BY <1>2, <2>3, <2>4 DEF Writer
<1>6. QED
  BY <1>1, <1>2, <1>3, <1>4, <1>5 DEF EndOk

\* What one queues, one has not sent.
LEMMA QueueOk ==
  ASSUME NEW k, NEW s, NEW w, NEW g, NEW mine, NEW theirs, NEW H, NEW M, Narrow(M),
         EndOk(k, s, w, g, mine, theirs, H, M), ~s.die,
         NEW v \in Writes, w + SumOf(v) <= M, WaitSnd(k) < Wnd,
         NEW m, m = QueueBuffers(k, w, v),
         NEW s2 \in SessT, s2.pending = s.pending, s2.die = s.die, s2.writer = "idle"
  PROVE  EndOk(m, s2, w + SumOf(v), g, mine, theirs, H, M) /\ Have(m) = Have(k)
<1>1. /\ k \in KcpT /\ s \in SessT /\ w \in Nat /\ g \in Seq(Nat)
      /\ Sound(k, mine, theirs, H, FALSE)
      /\ Reader(k, s, g, theirs) /\ Writer(k, s, w, mine, M)
  BY DEF EndOk, Sound, Sends
<1>2. /\ Chain(mine, 0) /\ Chain(k.queue, Size(mine))
      /\ Size(mine) + Size(k.queue) = w
      /\ Size(mine) \in Nat /\ Size(k.queue) \in Nat
  BY <1>1, WriterFew DEF Writer
<1>3. v \in Seq(Nat) /\ SumOf(v) \in Nat /\ SumOf(Counts(v)) \in Nat
  BY CountsNat
<1>4. m \in Queued(k, Size(mine), SumOf(v), SumOf(Counts(v)))
  <2>1. w = Size(mine) + Size(k.queue)
    BY <1>2
  <2>2. QED
    BY <1>1, <1>2, <1>3, <2>1, QueueBuffersKeeps
<1>5. /\ m \in KcpT /\ m = [k EXCEPT !.queue = m.queue] /\ Chain(m.queue, Size(mine))
      /\ Size(m.queue) = Size(k.queue) + SumOf(v)
      /\ Len(m.queue) <= Len(k.queue) + SumOf(Counts(v))
  BY <1>4 DEF Queued
<1>6. /\ m.una = k.una /\ m.nxt = k.nxt /\ m.buf = k.buf /\ SameReceive(k, m) /\ m.acks = k.acks
  <2> DEFINE q == m.queue
  <2>1. m = [k EXCEPT !.queue = q]
    BY <1>5
  <2> HIDE DEF q
  <2>2. QED
    BY <1>1, <2>1 DEF KcpT, SameReceive
<1>7. Have(m) = Have(k) /\ Taken(m) = Taken(k) /\ (Receives(k, theirs) => Receives(m, theirs))
  BY <1>6, ReceiveSame
<1>8. Sound(m, mine, theirs, H, FALSE)
  BY <1>1, <1>5, <1>6, <1>7 DEF Sound, Owes, Sends
<1>9. Reader(m, s2, g, theirs)
  BY <1>1, <1>7 DEF Reader
<1>10. WaitSnd(m) < Wnd + SumOf(Counts(v))
  <2> DEFINE a == Len(k.buf)
             b == Len(k.queue)
             c == Len(m.queue)
             x == SumOf(Counts(v))
  <2>1. a \in Nat /\ b \in Nat /\ c \in Nat /\ x \in Nat /\ Wnd \in Nat /\ c <= b + x
    BY <1>1, <1>3, <1>5, KcpFields, Sizes
  <2>2. WaitSnd(k) = a + b /\ WaitSnd(m) = a + c
    BY <1>6 DEF WaitSnd
  <2> HIDE DEF a, b, c, x
  <2>3. a + b < Wnd
    BY <2>2
  <2>4. a + c < Wnd + x
    BY <2>1, <2>3
  <2>5. QED
    BY <2>2, <2>4 DEF x
<1>11. Size(mine) + Size(m.queue) = w + SumOf(v) /\ w + SumOf(v) \in Nat
  <2> DEFINE a == Size(mine)
             b == Size(k.queue)
             c == Size(m.queue)
             x == SumOf(v)
  <2>1. a \in Nat /\ b \in Nat /\ x \in Nat /\ c = b + x /\ a + b = w /\ w \in Nat
    BY <1>1, <1>2, <1>3, <1>5
  <2> HIDE DEF a, b, c, x
  <2>2. a + c = w + x /\ w + x \in Nat
    BY <2>1
  <2>3. QED
    BY <2>2 DEF a, c, x
<1>12. Writer(m, s2, w + SumOf(v), mine, M)
  <2>1. Size(mine) + Size(m.queue) <= w + SumOf(v)
    BY <1>11
  <2>2. QED
    BY <1>2, <1>5, <1>10, <1>11, <2>1 DEF Writer
<1>13. Sound(m, mine, theirs, H, s2.die)
  BY <1>8 DEF Sound, Sends
<1>14. QED
  BY <1>1, <1>5, <1>7, <1>9, <1>11, <1>12, <1>13 DEF EndOk

Closes(s, s2) ==
  /\ s2 \in SessT /\ s2.pending = s.pending /\ s2.die = TRUE
  /\ s2.writer = s.writer /\ s2.todo = s.todo

\* A close forgets what was queued and what is under way.
LEMMA CloseOk ==
  ASSUME NEW k, NEW s, NEW w, NEW g, NEW mine, NEW theirs, NEW H, NEW M,
         EndOk(k, s, w, g, mine, theirs, H, M),
         NEW s2, Closes(s, s2)
  PROVE  EndOk(ReleaseTx(k), s2, w, g, mine, theirs, H, M) /\ Have(ReleaseTx(k)) = Have(k)
<1> DEFINE nil == <<>>
           m == ReleaseTx(k)
<1>0. /\ s2 \in SessT /\ s2.pending = s.pending /\ s2.die = TRUE
      /\ s2.writer = s.writer /\ s2.todo = s.todo
  BY DEF Closes
<1>1. /\ k \in KcpT /\ s \in SessT /\ w \in Nat /\ g \in Seq(Nat)
      /\ Sound(k, mine, theirs, H, s.die)
      /\ Reader(k, s, g, theirs) /\ Writer(k, s, w, mine, M)
  BY DEF EndOk
<1>2. nil \in Seq(Seq(Nat)) /\ nil \in Seq(Sent) /\ Len(nil) = 0 /\ nil = <<>>
  OBVIOUS
<1>a. m = [k EXCEPT !.queue = nil, !.buf = nil]
  BY DEF ReleaseTx
<1> HIDE DEF nil, m
<1>3. /\ m \in KcpT /\ m.una = k.una /\ m.nxt = k.nxt /\ m.buf = nil /\ m.queue = nil
      /\ SameReceive(k, m) /\ m.acks = k.acks
  BY <1>1, <1>2, <1>a DEF KcpT, SameReceive
<1>4. Have(m) = Have(k) /\ Taken(m) = Taken(k) /\ (Receives(k, theirs) => Receives(m, theirs))
  BY <1>3, ReceiveSame
<1>5. Sends(m, mine, H, TRUE)
  <2>1. \A i \in 1 .. Len(m.buf) : FALSE
    BY <1>2, <1>3
  <2>2. Len(m.buf) <= Wnd
    BY <1>2, <1>3, Sizes
  <2>3. Abs(m.nxt) = Len(mine)
    BY <1>1, <1>3 DEF Sound, Sends
  <2>4. QED
    BY <1>2, <1>3, <2>1, <2>2, <2>3 DEF Sends
<1>6. Sound(m, mine, theirs, H, TRUE)
  BY <1>1, <1>3, <1>4, <1>5 DEF Sound, Owes
<1>7. Reader(m, s2, g, theirs)
  BY <1>0, <1>1, <1>4 DEF Reader
<1>8. Writer(m, s2, w, mine, M)
  <2>1. /\ Chain(mine, 0) /\ Chain(k.queue, Size(mine))
        /\ Size(mine) + Size(k.queue) <= w /\ w <= M
        /\ s.writer = "wait" => s.todo \in Writes /\ w + SumOf(s.todo) <= M
    BY <1>1 DEF Writer
  <2>2. PICK v \in Writes : WaitSnd(k) < Wnd + SumOf(Counts(v))
    BY <1>1 DEF Writer
  <2>3. Size(mine) \in Nat /\ Size(k.queue) \in Nat
    BY <2>1, EndsFacts DEF Chain
  <2>4. Chain(m.queue, Size(mine)) /\ Size(m.queue) = 0
    BY <1>2, <1>3, <2>3, ChainEmpty
  <2>5. Size(mine) + Size(m.queue) <= w
    BY <1>1, <2>1, <2>3, <2>4
  <2>6. WaitSnd(m) = 0
    BY <1>2, <1>3 DEF WaitSnd
  <2>7. WaitSnd(m) < Wnd + SumOf(Counts(v))
    BY <2>6, CountsNat, Sizes
  <2>8. QED
    BY <1>0, <2>1, <2>4, <2>5, <2>7 DEF Writer
<1>9. QED
  BY <1>0, <1>1, <1>3, <1>4, <1>6, <1>7, <1>8 DEF EndOk, m

\* m, h and s2: what the engine, the bytes read and the session become when
\* n bytes of the message msg are handed on and the rest is kept
Reads(k, s, g, b, msg, n, m, h, s2) ==
  /\ s.pending # <<>> \/ k.rq # <<>>
  /\ msg = IF s.pending # <<>> THEN s.pending ELSE Head(k.rq)
  /\ n = IF b < Len(msg) THEN b ELSE Len(msg)
  /\ m = IF s.pending # <<>> THEN k ELSE Recv(k)
  /\ h = g \o SubSeq(msg, 1, n)
  /\ s2 \in SessT /\ s2.pending = SubSeq(msg, n + 1, Len(msg)) /\ s2.die = s.die
  /\ s2.writer = s.writer /\ s2.todo = s.todo

LEMMA ReadOk ==
  ASSUME NEW k, NEW s, NEW w, NEW g, NEW mine, NEW theirs, NEW H, NEW M,
         EndOk(k, s, w, g, mine, theirs, H, M), Few(theirs), Chain(theirs, 0),
         NEW b \in Nat, NEW msg, NEW n, NEW m, NEW h, NEW s2,
         Reads(k, s, g, b, msg, n, m, h, s2)
  PROVE  EndOk(m, s2, w, h, mine, theirs, H, M) /\ Have(k) \subseteq Have(m)
<1> DEFINE G == Len(g)
           L == Len(msg)
           p == SubSeq(msg, 1, n)
           r == SubSeq(msg, n + 1, L)
<1>0. /\ s.pending # <<>> \/ k.rq # <<>>
      /\ msg = IF s.pending # <<>> THEN s.pending ELSE Head(k.rq)
      /\ n = IF b < Len(msg) THEN b ELSE Len(msg)
      /\ m = IF s.pending # <<>> THEN k ELSE Recv(k)
      /\ h = g \o p
      /\ s2 \in SessT /\ s2.pending = r /\ s2.die = s.die
      /\ s2.writer = s.writer /\ s2.todo = s.todo
  BY DEF Reads
<1>1. /\ k \in KcpT /\ s \in SessT /\ w \in Nat /\ g \in Seq(Nat) /\ G \in Nat
      /\ Sound(k, mine, theirs, H, s.die)
      /\ Reader(k, s, g, theirs) /\ Writer(k, s, w, mine, M)
  BY DEF EndOk
<1>2. Receives(k, theirs) /\ Owes(k) /\ Sends(k, mine, H, s.die)
  BY <1>1 DEF Sound
<1>3. /\ G + Len(s.pending) = Ends(theirs)[Taken(k)]
      /\ \A i \in 1 .. G : g[i] = i
      /\ \A i \in 1 .. Len(s.pending) : s.pending[i] = G + i
  BY <1>1 DEF Reader
<1>4. s.pending \in Seq(Nat)
  BY <1>1 DEF SessT
<1> HIDE DEF G
<1>5. /\ msg \in Seq(Nat) /\ G + L = Ends(theirs)[Taken(m)]
      /\ \A i \in 1 .. L : msg[i] = G + i
      /\ m \in KcpT /\ Receives(m, theirs) /\ Have(k) \subseteq Have(m)
      /\ SameSend(k, m) /\ m.acks = k.acks
  <2>1. CASE s.pending # <<>>
    <3>1. msg = s.pending /\ m = k
      BY <1>0, <2>1
    <3>2. QED
      BY <1>1, <1>2, <1>3, <1>4, <3>1 DEF SameSend
  <2>2. CASE s.pending = <<>>
    <3> DEFINE t == Taken(k)
               x == theirs[t + 1]
    <3>1. k.rq # <<>> /\ m = Recv(k) /\ msg = Head(k.rq)
      BY <1>0, <2>2
    <3>2. /\ m \in KcpT /\ Receives(m, theirs) /\ Have(k) \subseteq Have(m)
          /\ SameSend(k, m) /\ m.acks = k.acks
          /\ Taken(m) = t + 1 /\ t \in Nat /\ t + 1 <= Len(theirs)
          /\ Head(k.rq) = x
      BY <1>1, <1>2, <3>1, RecvKeeps
    <3>3. t + 1 \in 1 .. Len(theirs) /\ (t + 1) - 1 = t
      <4> HIDE DEF t
      <4>1. Len(theirs) \in Nat
        BY FewFacts
      <4>2. QED
        BY <3>2, <4>1
    <3>4. /\ theirs \in Seq(Seq(Nat)) /\ x \in Seq(Nat)
          /\ Ends(theirs)[t + 1] = Ends(theirs)[t] + Len(x) /\ Ends(theirs)[t] \in Nat
      <4> HIDE DEF t
      <4>1. theirs \in Seq(Seq(Nat))
        BY FewFacts
      <4>2. Ends(theirs)[t + 1] = Ends(theirs)[(t + 1) - 1] + Len(theirs[t + 1])
        BY <3>3, <4>1, EndsFacts
      <4>3. t \in 0 .. Len(theirs)
        BY <3>2, <3>3
      <4>4. QED
        BY <3>3, <4>1, <4>2, <4>3, EndsFacts
    <3>5. \A i \in 1 .. Len(x) : x[i] = 0 + Ends(theirs)[t] + i
      <4> HIDE DEF t
      <4>1. \A i \in 1 .. Len(x) : x[i] = 0 + Ends(theirs)[(t + 1) - 1] + i
        BY <3>3 DEF Chain
      <4>2. QED
        BY <3>3, <4>1
    <3>6. G = Ends(theirs)[t]
      <4>1. Len(s.pending) = 0
        BY <2>2
      <4>2. QED
        BY <1>1, <1>3, <4>1
    <3> HIDE DEF x
    <3>7. msg = x /\ L = Len(x)
      BY <3>1, <3>2
    <3>8. \A i \in 1 .. L : msg[i] = G + i
      <4>1. \A i \in 1 .. Len(x) : x[i] = G + i
        BY <1>1, <3>5, <3>6
      <4>2. QED
        BY <3>7, <4>1
    <3>9. G + L = Ends(theirs)[Taken(m)]
      BY <3>2, <3>4, <3>6, <3>7
    <3>10. QED
      BY <3>2, <3>4, <3>7, <3>8, <3>9
  <2>3. QED
    BY <2>1, <2>2
<1>6. n \in 0 .. L /\ L \in Nat /\ n \in Nat
  <2>1. L \in Nat
    BY <1>5
  <2> HIDE DEF L
  <2>2. n = IF b < L THEN b ELSE L
    BY <1>0 DEF L
  <2>3. QED
    BY <2>1, <2>2
<1>7. p \in Seq(Nat) /\ Len(p) = n /\ \A i \in 1 .. n : p[i] = msg[i]
  BY <1>5, <1>6, Cut1, Zenon
<1>8. Rests(msg, n, r, Nat)
  BY <1>5, <1>6, Rested, Zenon
<1>9. h = g \o p /\ s2.pending = r
  BY <1>0
<1> HIDE DEF p, r
<1>10. Joins(g, p, h, Nat)
  BY <1>1, <1>7, <1>9, Joined, Zenon
<1>11. /\ h \in Seq(Nat) /\ Len(h) = G + n
       /\ \A i \in 1 .. G : h[i] = g[i]
       /\ \A i \in 1 .. n : h[G + i] = p[i]
  BY <1>7, <1>10 DEF Joins, G
<1>12. /\ r \in Seq(Nat) /\ Len(r) = L - n
       /\ \A i \in 1 .. Len(r) : n + i \in 1 .. L /\ r[i] = msg[n + i]
  BY <1>8 DEF Rests
<1> HIDE DEF L
<1>13. Reader(m, s2, h, theirs)
  <2>1. Len(h) + Len(r) = Ends(theirs)[Taken(m)]
    <3>a. G \in Nat /\ n \in Nat /\ L \in Nat
      BY <1>1, <1>6
    <3>1. (G + n) + (L - n) = G + L
      BY <3>a
    <3>2. QED
      BY <1>5, <1>11, <1>12, <3>1
  <2>2. ASSUME NEW i \in 1 .. Len(h)
        PROVE  h[i] = i
    <3>1. CASE i <= G
      <4>1. i \in 1 .. G
        BY <1>1, <3>1
      <4>2. QED
        BY <1>3, <1>11, <4>1
    <3>2. CASE ~(i <= G)
      <4> DEFINE j == i - G
      <4>1. j \in 1 .. n /\ G + j = i /\ j \in 1 .. L
        BY <1>1, <1>6, <1>11, <3>2
      <4> HIDE DEF j
      <4>2. h[G + j] = p[j] /\ p[j] = msg[j] /\ msg[j] = G + j
        BY <1>5, <1>7, <1>11, <4>1
      <4>3. QED
        BY <4>1, <4>2
    <3>3. QED
      BY <3>1, <3>2
  <2>3. ASSUME NEW i \in 1 .. Len(r)
        PROVE  r[i] = Len(h) + i
    <3>1. r[i] = msg[n + i] /\ msg[n + i] = G + (n + i)
      BY <1>5, <1>12
    <3>2. i \in Nat
      BY <1>12
    <3>3. G + (n + i) = (G + n) + i
      BY <1>1, <1>6, <3>2
    <3>4. QED
      BY <1>11, <3>1, <3>3
  <2>4. QED
    BY <1>9, <2>1, <2>2, <2>3 DEF Reader
<1>14. Sound(m, mine, theirs, H, s2.die)
  <2>1. Sends(m, mine, H, s2.die)
    BY <1>0, <1>2, <1>5, SendSame
  <2>2. Owes(m)
    BY <1>2, <1>5 DEF Owes
  <2>3. QED
    BY <1>5, <2>1, <2>2 DEF Sound
<1>15. Writer(m, s2, w, mine, M)
  <2>1. m.queue = k.queue /\ WaitSnd(m) = WaitSnd(k)
    BY <1>5 DEF SameSend, WaitSnd
  <2>2. QED
    BY <1>0, <1>1, <2>1 DEF Writer
<1>16. QED
  BY <1>0, <1>1, <1>5, <1>11, <1>13, <1>14, <1>15 DEF EndOk

-----------------------------------------------------------------------------
(* Both ends and the packets between them.                                 *)

LEMMA TransmitIn ==
  ASSUME NEW V, NEW packets \in Seq(V), NEW out \in Seq(V), NEW size \in Nat
  PROVE  Transmit(size, packets, out) \in Seq(V)
<1> DEFINE room == IF Len(packets) < size THEN size - Len(packets) ELSE 0
           n == IF Len(out) < room THEN Len(out) ELSE room
           p == SubSeq(out, 1, n)
<1>1. Len(packets) \in Nat /\ Len(out) \in Nat
  OBVIOUS
<1>2. n \in 0 .. Len(out)
  BY <1>1
<1>3. Transmit(size, packets, out) = packets \o p
  BY Zenon DEF Transmit
<1> HIDE DEF n
<1>4. p \in Seq(V)
  BY <1>2, Cut1, Zenon
<1> HIDE DEF p
<1>5. QED
  BY <1>3, <1>4

LEMMA RemoveAtIn ==
  ASSUME NEW V, NEW packets \in Seq(V), NEW i \in 1 .. Len(packets)
  PROVE  RemoveAt(packets, i) \in Seq(V)
<1> DEFINE a == SubSeq(packets, 1, i - 1)
           b == SubSeq(packets, i + 1, Len(packets))
<1>1. i - 1 \in 0 .. Len(packets) /\ i \in 0 .. Len(packets)
  OBVIOUS
<1>2. a \in Seq(V)
  BY <1>1, Cut1, Zenon
<1>3. Rests(packets, i, b, V)
  BY <1>1, Rested, Zenon
<1>4. b \in Seq(V)
  BY <1>3 DEF Rests
<1>5. RemoveAt(packets, i) = a \o b
  BY Zenon DEF RemoveAt
<1> HIDE DEF a, b
<1>6. QED
  BY <1>2, <1>4, <1>5

\* The packets under way to an end
Packets(d, H) == Seq(Seq(Sendable(d, H)))

LEMMA PacketsMore ==
  ASSUME NEW d, Few(d), NEW e, Few(e), Begins(d, e), NEW H, NEW G, H \subseteq G
  PROVE  Packets(d, H) \subseteq Packets(e, G)
<1>1. Sendable(d, H) \subseteq Sendable(e, G)
  BY SendableMore
<1> DEFINE A == Sendable(d, H)
           B == Sendable(e, G)
<1> HIDE DEF A, B
<1>2. A \subseteq B
  BY <1>1 DEF A, B
<1>3. ASSUME NEW x \in Seq(A)
      PROVE  x \in Seq(B)
  BY <1>2
<1>4. ASSUME NEW y \in Seq(Seq(A))
      PROVE  y \in Seq(Seq(B))
  BY <1>3
<1>5. QED
  BY <1>4 DEF Packets, A, B

\* D: per end, the segments it has numbered.
Whole(k, n, s, w, g, D) ==
  /\ k \in [Side -> KcpT] /\ n \in [Side -> Seq(Seq(Seg))] /\ s \in [Side -> SessT]
  /\ w \in [Side -> Nat] /\ g \in [Side -> Seq(Nat)]
  /\ \A e \in Side :
       /\ EndOk(k[e], s[e], w[e], g[e], D[e], D[Peer(e)], Have(k[Peer(e)]), MaxBytes[e])
       /\ n[e] \in Packets(D[Peer(e)], Have(k[Peer(e)]))

Holds(k, n, s, w, g) == \E D \in [Side -> Seq(Seq(Nat))] : Whole(k, n, s, w, g, D)

LEMMA PacketsType ==
  ASSUME NEW d, NEW H
  PROVE  Packets(d, H) \subseteq Seq(Seq(Seg))
<1> DEFINE A == Sendable(d, H)
<1>1. A \subseteq Seg
  BY DEF Sendable
<1> HIDE DEF A
<1>2. ASSUME NEW x \in Seq(A)
      PROVE  x \in Seq(Seg)
  BY <1>1
<1>3. ASSUME NEW y \in Seq(Seq(A))
      PROVE  y \in Seq(Seq(Seg))
  BY <1>2
<1>4. QED
  BY <1>3 DEF Packets, A

\* What one end can rely on
Faces(k, s, mine, theirs, H) ==
  /\ Few(mine) /\ Few(theirs) /\ Chain(theirs, 0) /\ Chain(mine, 0)
  /\ \A j \in H : j \in Nat /\ j < Len(mine)
  /\ Sound(k, mine, theirs, H, s.die) /\ Ready(k, mine)

LEMMA EndFaces ==
  ASSUME NEW k, NEW n, NEW s, NEW w, NEW g, NEW D, Whole(k, n, s, w, g, D), NEW e \in Side
  PROVE  Faces(k[e], s[e], D[e], D[Peer(e)], Have(k[Peer(e)]))
<1> DEFINE p == Peer(e)
           H == Have(k[p])
           F == Have(k[e])
<1>1. p \in Side /\ Peer(p) = e
  BY TwoEnds
<1>2. /\ EndOk(k[e], s[e], w[e], g[e], D[e], D[p], H, MaxBytes[e])
      /\ EndOk(k[p], s[p], w[p], g[p], D[p], D[e], F, MaxBytes[p])
  BY <1>1 DEF Whole
<1> HIDE DEF p
<1>3. Narrow(MaxBytes[e]) /\ Narrow(MaxBytes[p])
  BY <1>1, Narrows
<1>4. /\ k[e] \in KcpT /\ k[p] \in KcpT /\ w[e] \in Nat /\ w[p] \in Nat
      /\ Writer(k[e], s[e], w[e], D[e], MaxBytes[e]) /\ Writer(k[p], s[p], w[p], D[p], MaxBytes[p])
      /\ Sound(k[e], D[e], D[p], H, s[e].die) /\ Sound(k[p], D[p], D[e], F, s[p].die)
  BY <1>2 DEF EndOk
<1>5. /\ Few(D[e]) /\ 2 * (Len(D[e]) + Len(k[e].queue) + Wnd) <= SnModulus
      /\ Chain(D[e], 0) /\ Chain(k[e].queue, Size(D[e]))
  BY <1>3, <1>4, WriterFew
<1>6. Few(D[p]) /\ Chain(D[p], 0)
  BY <1>3, <1>4, WriterFew
<1>7. Receives(k[p], D[e])
  BY <1>4 DEF Sound
<1>8. \A j \in H : j \in Nat /\ j < Len(D[e])
  BY <1>4, <1>5, <1>7, HaveSent
<1>9. Faces(k[e], s[e], D[e], D[p], H)
  BY <1>4, <1>5, <1>6, <1>8 DEF Faces, Ready
<1>10. QED
  BY <1>9 DEF p

\* A step of one end, which has numbered d then and may hand packets on
Moved(D, d, e, k, n, s, w, g, k2, n2, s2, w2, g2) ==
  /\ EndOk(k2[e], s2[e], w2[e], g2[e], d, D[Peer(e)], Have(k[Peer(e)]), MaxBytes[e])
  /\ Begins(D[e], d) /\ Have(k[e]) \subseteq Have(k2[e])
  /\ n2[e] \in Packets(D[Peer(e)], Have(k[Peer(e)]))
  /\ n2[Peer(e)] \in Packets(d, Have(k2[e]))
  /\ k2 = [k EXCEPT ![e] = k2[e]] /\ s2 = [s EXCEPT ![e] = s2[e]]
  /\ n2 = [n EXCEPT ![e] = n2[e], ![Peer(e)] = n2[Peer(e)]]
  /\ w2 = [w EXCEPT ![e] = w2[e]] /\ g2 = [g EXCEPT ![e] = g2[e]]

LEMMA EndMoves ==
  ASSUME NEW D \in [Side -> Seq(Seq(Nat))],
         NEW k, NEW n, NEW s, NEW w, NEW g, Whole(k, n, s, w, g, D), NEW e \in Side,
         NEW d, NEW k2, NEW n2, NEW s2, NEW w2, NEW g2,
         Moved(D, d, e, k, n, s, w, g, k2, n2, s2, w2, g2)
  PROVE  Holds(k2, n2, s2, w2, g2)
<1> DEFINE p == Peer(e)
           H == Have(k[p])
           F == Have(k[e])
           k1 == k2[e]
           s1 == s2[e]
           w1 == w2[e]
           g1 == g2[e]
           in == n2[e]
           out == n2[p]
           D2 == [D EXCEPT ![e] = d]
<1>1. p \in Side /\ Peer(p) = e /\ p # e /\ \A t \in Side : t = e \/ t = p
  BY TwoEnds
<1>2. /\ k \in [Side -> KcpT] /\ n \in [Side -> Seq(Seq(Seg))] /\ s \in [Side -> SessT]
      /\ w \in [Side -> Nat] /\ g \in [Side -> Seq(Nat)]
      /\ EndOk(k[p], s[p], w[p], g[p], D[p], D[e], F, MaxBytes[p])
  BY <1>1 DEF Whole
<1>3. /\ EndOk(k1, s1, w1, g1, d, D[p], H, MaxBytes[e])
      /\ Begins(D[e], d) /\ Have(k[e]) \subseteq Have(k1)
      /\ in \in Packets(D[p], H) /\ out \in Packets(d, Have(k1))
      /\ n2 = [n EXCEPT ![e] = in, ![p] = out] /\ k2 = [k EXCEPT ![e] = k1]
      /\ s2 = [s EXCEPT ![e] = s1] /\ w2 = [w EXCEPT ![e] = w1] /\ g2 = [g EXCEPT ![e] = g1]
  BY DEF Moved
<1>4. /\ k1 \in KcpT /\ s1 \in SessT /\ w1 \in Nat /\ g1 \in Seq(Nat)
      /\ Writer(k1, s1, w1, d, MaxBytes[e])
  BY <1>3 DEF EndOk
<1>5. Few(d) /\ d \in Seq(Seq(Nat))
  BY <1>4, Narrows, WriterFew, FewFacts
<1>6. Few(D[e])
  BY EndFaces DEF Faces
<1>7. EndOk(k[p], s[p], w[p], g[p], D[p], d, Have(k1), MaxBytes[p])
  <2> HIDE DEF k1, p
  <2>1. QED
    BY <1>2, <1>3, <1>5, <1>6, PeerKeeps
<1>8. in \in Seq(Seq(Seg)) /\ out \in Seq(Seq(Seg))
  BY <1>3, PacketsType
<1> HIDE DEF p, k1, s1, w1, g1, in, out
<1>9. /\ k2 \in [Side -> KcpT] /\ n2 \in [Side -> Seq(Seq(Seg))] /\ s2 \in [Side -> SessT]
      /\ w2 \in [Side -> Nat] /\ g2 \in [Side -> Seq(Nat)] /\ D2 \in [Side -> Seq(Seq(Nat))]
  <2>1. k2 \in [Side -> KcpT]
    BY <1>2, <1>3, <1>4
  <2>2. n2 \in [Side -> Seq(Seq(Seg))]
    BY <1>2, <1>3, <1>8
  <2>3. s2 \in [Side -> SessT]
    BY <1>2, <1>3, <1>4
  <2>4. w2 \in [Side -> Nat]
    BY <1>2, <1>3, <1>4
  <2>5. g2 \in [Side -> Seq(Nat)]
    BY <1>2, <1>3, <1>4
  <2>6. D2 \in [Side -> Seq(Seq(Nat))]
    BY <1>5
  <2>7. QED
    BY <2>1, <2>2, <2>3, <2>4, <2>5, <2>6
<1>10. /\ k2[e] = k1 /\ n2[e] = in /\ s2[e] = s1 /\ w2[e] = w1 /\ g2[e] = g1 /\ D2[e] = d
       /\ k2[p] = k[p] /\ n2[p] = out /\ s2[p] = s[p] /\ w2[p] = w[p] /\ g2[p] = g[p] /\ D2[p] = D[p]
  BY <1>1, <1>2, <1>3
<1>11. Peer(e) = p
  BY DEF p
<1> HIDE DEF D2
<1>12. /\ EndOk(k2[e], s2[e], w2[e], g2[e], D2[e], D2[Peer(e)], Have(k2[Peer(e)]), MaxBytes[e])
       /\ n2[e] \in Packets(D2[Peer(e)], Have(k2[Peer(e)]))
  BY <1>3, <1>10, <1>11
<1>13. /\ EndOk(k2[p], s2[p], w2[p], g2[p], D2[p], D2[Peer(p)], Have(k2[Peer(p)]), MaxBytes[p])
       /\ n2[p] \in Packets(D2[Peer(p)], Have(k2[Peer(p)]))
  BY <1>1, <1>3, <1>7, <1>10
<1>14. \A t \in Side :
         /\ EndOk(k2[t], s2[t], w2[t], g2[t], D2[t], D2[Peer(t)], Have(k2[Peer(t)]), MaxBytes[t])
         /\ n2[t] \in Packets(D2[Peer(t)], Have(k2[Peer(t)]))
  BY <1>1, <1>12, <1>13
<1>15. Whole(k2, n2, s2, w2, g2, D2)
  BY <1>9, <1>14 DEF Whole
<1>16. QED
  BY <1>9, <1>15 DEF Holds

\* The packets f sends join those under way, as far as they fit.
LEMMA OutOk ==
  ASSUME NEW k, NEW f, NEW d, NEW mine, Few(mine), NEW theirs, NEW H, NEW die,
         Advances(k, f, d, mine, theirs, H, die),
         NEW F, F \subseteq Have(k), NEW packets \in Packets(mine, F), NEW size \in Nat
  PROVE  Transmit(size, packets, f.out) \in Packets(d, Have(f.k))
<1>1. /\ Few(d) /\ Begins(mine, d) /\ Have(k) \subseteq Have(f.k)
      /\ f.out \in Packets(d, Have(f.k))
  BY DEF Advances, Packets
<1>2. packets \in Packets(d, Have(f.k))
  <2>1. F \subseteq Have(f.k)
    BY <1>1
  <2>2. QED
    BY <1>1, <2>1, PacketsMore
<1>3. QED
  BY <1>1, <1>2, TransmitIn DEF Packets

-----------------------------------------------------------------------------
(* The steps.                                                              *)

\* The inductive invariant
IInv == Holds(kcp, net, sess, written, got)

LEMMA WholeTypes ==
  ASSUME NEW k, NEW n, NEW s, NEW w, NEW g, NEW D, Whole(k, n, s, w, g, D), NEW e \in Side
  PROVE  /\ k[e] \in KcpT /\ s[e] \in SessT /\ w[e] \in Nat /\ g[e] \in Seq(Nat)
         /\ EndOk(k[e], s[e], w[e], g[e], D[e], D[Peer(e)], Have(k[Peer(e)]), MaxBytes[e])
         /\ n[e] \in Packets(D[Peer(e)], Have(k[Peer(e)]))
         /\ n[Peer(e)] \in Packets(D[e], Have(k[e]))
         /\ k \in [Side -> KcpT] /\ n \in [Side -> Seq(Seq(Seg))] /\ s \in [Side -> SessT]
         /\ w \in [Side -> Nat] /\ g \in [Side -> Seq(Nat)]
<1>1. Peer(e) \in Side /\ Peer(Peer(e)) = e
  BY TwoEnds
<1>2. /\ EndOk(k[e], s[e], w[e], g[e], D[e], D[Peer(e)], Have(k[Peer(e)]), MaxBytes[e])
      /\ n[e] \in Packets(D[Peer(e)], Have(k[Peer(e)]))
      /\ n[Peer(e)] \in Packets(D[e], Have(k[e]))
      /\ k \in [Side -> KcpT] /\ n \in [Side -> Seq(Seq(Seg))] /\ s \in [Side -> SessT]
      /\ w \in [Side -> Nat] /\ g \in [Side -> Seq(Nat)]
  BY <1>1 DEF Whole
<1>3. QED
  BY <1>2

\* What the record of a session becomes
Wakes(s, s2) ==
  /\ s2 \in SessT /\ s2.pending = s.pending /\ s2.die = s.die
  /\ s2.writer = s.writer /\ s2.todo = s.todo

LEMMA WakesOk ==
  ASSUME NEW k, NEW s, NEW w, NEW g, NEW mine, NEW theirs, NEW H, NEW M,
         EndOk(k, s, w, g, mine, theirs, H, M), NEW s2, Wakes(s, s2)
  PROVE  EndOk(k, s2, w, g, mine, theirs, H, M)
<1>1. s.writer = "wait" => s.todo \in Writes /\ w + SumOf(s.todo) <= M
  BY DEF EndOk, Writer
<1>2. QED
  BY <1>1, SessOk DEF Wakes

LEMMA NetSizes == \A e \in Side : NetSize[e] \in Nat
BY KcpAssumption

LEMMA SessionMoves ==
  ASSUME NEW D \in [Side -> Seq(Seq(Nat))], Whole(kcp, net, sess, written, got, D),
         NEW e \in Side, NEW s1, sess' = [sess EXCEPT ![e] = s1],
         EndOk(kcp[e], s1, written[e], got[e], D[e], D[Peer(e)], Have(kcp[Peer(e)]), MaxBytes[e]),
         UNCHANGED <<kcp, net, written, got>>
  PROVE  IInv'
<1> DEFINE p == Peer(e)
<1>1. /\ kcp \in [Side -> KcpT] /\ net \in [Side -> Seq(Seq(Seg))]
      /\ written \in [Side -> Nat] /\ got \in [Side -> Seq(Nat)]
      /\ net[e] \in Packets(D[p], Have(kcp[p])) /\ net[p] \in Packets(D[e], Have(kcp[e]))
  BY WholeTypes
<1>2. p \in Side
  BY TwoEnds
<1> HIDE DEF p
<1>3. /\ kcp' = [kcp EXCEPT ![e] = kcp[e]] /\ written' = [written EXCEPT ![e] = written[e]]
      /\ got' = [got EXCEPT ![e] = got[e]]
  BY <1>1
<1>4. net' = [net EXCEPT ![e] = net[e], ![p] = net[p]]
  BY <1>1, <1>2
<1>5. Begins(D[e], D[e])
  <2>1. Few(D[e])
    BY EndFaces DEF Faces
  <2>2. QED
    BY <2>1, FewFacts DEF Begins
<1>6. sess'[e] = s1
  BY <1>1, WholeTypes
<1>7. Moved(D, D[e], e, kcp, net, sess, written, got, kcp', net', sess', written', got')
  BY <1>1, <1>3, <1>4, <1>5, <1>6 DEF Moved, p
<1>8. Holds(kcp', net', sess', written', got')
  BY <1>7, EndMoves
<1>9. QED
  BY <1>8 DEF IInv

LEMMA TickKeeps ==
  ASSUME IInv, NEW e \in Side, Tick(e)
  PROVE  IInv'
<1> DEFINE p == Peer(e)
           k == kcp[e]
           s == sess[e]
<1>1. PICK D \in [Side -> Seq(Seq(Nat))] : Whole(kcp, net, sess, written, got, D)
  BY DEF IInv, Holds
<1>2. PICK f \in Flushes(k) : Flushed(e, f)
  BY DEF Tick
<1>3. /\ ~s.die
      /\ kcp' = [kcp EXCEPT ![e] = f.k]
      /\ net' = [net EXCEPT ![p] = Transmit(NetSize[p], @, f.out)]
      /\ sess' = [sess EXCEPT ![e].writeEvent = @ \/ MayWrite(f.k)]
      /\ written' = written /\ got' = got
  BY <1>2 DEF Flushed, Engine
<1>4. /\ k \in KcpT /\ s \in SessT
      /\ EndOk(k, s, written[e], got[e], D[e], D[p], Have(kcp[p]), MaxBytes[e])
      /\ net[e] \in Packets(D[p], Have(kcp[p])) /\ net[p] \in Packets(D[e], Have(k))
      /\ kcp \in [Side -> KcpT] /\ net \in [Side -> Seq(Seq(Seg))] /\ sess \in [Side -> SessT]
      /\ written \in [Side -> Nat] /\ got \in [Side -> Seq(Nat)]
  BY <1>1, WholeTypes
<1>5. /\ Few(D[e]) /\ Few(D[p]) /\ \A j \in Have(kcp[p]) : j \in Nat /\ j < Len(D[e])
      /\ Sound(k, D[e], D[p], Have(kcp[p]), s.die) /\ Ready(k, D[e])
  BY <1>1, EndFaces DEF Faces
<1>6. p \in Side /\ p # e
  BY TwoEnds
<1> DEFINE s1 == [s EXCEPT !.writeEvent = @ \/ MayWrite(f.k)]
           t == Transmit(NetSize[p], net[p], f.out)
<1>7. Sound(k, D[e], D[p], Have(kcp[p]), FALSE)
  BY <1>3, <1>5 DEF Sound, Sends
<1> HIDE DEF k, s, p
<1>8. PICK d : Advances(k, f, d, D[e], D[p], Have(kcp[p]), FALSE)
  BY <1>2, <1>5, <1>7, FlushAdvances
<1>9. Advances(k, f, d, D[e], D[p], Have(kcp[p]), s.die)
  BY <1>3, <1>8 DEF Advances, Sound, Sends
<1>10. EndOk(f.k, s, written[e], got[e], d, D[p], Have(kcp[p]), MaxBytes[e])
  BY <1>4, <1>9, EndAdvances
<1>11. Wakes(s, s1)
  BY <1>4 DEF Wakes, SessT, MayWrite
<1>12. EndOk(f.k, s1, written[e], got[e], d, D[p], Have(kcp[p]), MaxBytes[e])
  BY <1>10, <1>11, WakesOk
<1>13. t \in Packets(d, Have(f.k))
  BY <1>4, <1>5, <1>6, <1>8, NetSizes, OutOk
<1>14. Begins(D[e], d) /\ Have(k) \subseteq Have(f.k)
  BY <1>8 DEF Advances
<1>15. /\ sess' = [sess EXCEPT ![e] = s1] /\ net' = [net EXCEPT ![e] = net[e], ![p] = t]
       /\ written' = [written EXCEPT ![e] = written[e]] /\ got' = [got EXCEPT ![e] = got[e]]
  BY <1>3, <1>4, <1>6 DEF s
<1> HIDE DEF t, s1
<1>16. kcp'[e] = f.k /\ sess'[e] = s1 /\ net'[e] = net[e] /\ net'[p] = t
  BY <1>3, <1>4, <1>6, <1>15
<1>17. Moved(D, d, e, kcp, net, sess, written, got, kcp', net', sess', written', got')
  BY <1>3, <1>4, <1>12, <1>13, <1>14, <1>15, <1>16 DEF Moved, p, k
<1>18. Holds(kcp', net', sess', written', got')
  BY <1>1, <1>17, EndMoves
<1>19. QED
  BY <1>18 DEF IInv

LEMMA DeliverKeeps ==
  ASSUME IInv, NEW e \in Side, NEW i \in DOMAIN net[e], Deliver(e, i)
  PROVE  IInv'
<1> DEFINE p == Peer(e)
           k == kcp[e]
           s == sess[e]
           H == Have(kcp[p])
<1>1. PICK D \in [Side -> Seq(Seq(Nat))] : Whole(kcp, net, sess, written, got, D)
  BY DEF IInv, Holds
<1>2. PICK f \in Inputs(k, net[e][i]) :
        /\ kcp' = [kcp EXCEPT ![e] = f.k]
        /\ net' = [net EXCEPT ![e] = RemoveAt(@, i),
                              ![p] = Transmit(NetSize[p], @, f.out)]
        /\ sess' = [sess EXCEPT ![e].readEvent = @ \/ f.k.rq # <<>>,
                                ![e].writeEvent = @ \/ MayWrite(f.k)]
  BY DEF Deliver
<1>3. written' = written /\ got' = got
  BY DEF Deliver
<1>4. /\ k \in KcpT /\ s \in SessT
      /\ EndOk(k, s, written[e], got[e], D[e], D[p], H, MaxBytes[e])
      /\ net[e] \in Packets(D[p], H) /\ net[p] \in Packets(D[e], Have(k))
      /\ kcp \in [Side -> KcpT] /\ net \in [Side -> Seq(Seq(Seg))] /\ sess \in [Side -> SessT]
      /\ written \in [Side -> Nat] /\ got \in [Side -> Seq(Nat)]
  BY <1>1, WholeTypes
<1>5. /\ Few(D[e]) /\ Few(D[p]) /\ \A j \in H : j \in Nat /\ j < Len(D[e])
      /\ Sound(k, D[e], D[p], H, s.die) /\ Ready(k, D[e])
  BY <1>1, EndFaces DEF Faces
<1>6. p \in Side /\ p # e
  BY TwoEnds
<1> DEFINE s1 == [s EXCEPT !.readEvent = @ \/ f.k.rq # <<>>, !.writeEvent = @ \/ MayWrite(f.k)]
           t == Transmit(NetSize[p], net[p], f.out)
           r == RemoveAt(net[e], i)
           packet == net[e][i]
<1>7. i \in 1 .. Len(net[e])
  BY <1>4
<1>8. packet \in Seq(Sendable(D[p], H)) /\ r \in Packets(D[p], H)
  <2>1. net[e] \in Seq(Seq(Sendable(D[p], H)))
    BY <1>4 DEF Packets
  <2>2. r \in Seq(Seq(Sendable(D[p], H)))
    BY <1>7, <2>1, RemoveAtIn
  <2> DEFINE V == Seq(Sendable(D[p], H))
             q == net[e]
  <2>3. q \in Seq(V) /\ i \in 1 .. Len(q)
    BY <1>7, <2>1
  <2> HIDE DEF V, q
  <2>4. q[i] \in V
    BY <2>3
  <2>5. QED
    BY <2>2, <2>4 DEF V, q, Packets
<1>a. f \in Inputs(k, packet)
  OBVIOUS
<1>9. Wakes(s, s1)
  BY <1>4 DEF Wakes, SessT, MayWrite
<1>c. sess' = [sess EXCEPT ![e] = s1]
  BY <1>2, <1>4
<1> HIDE DEF k, s, p, H, packet
<1>10. PICK d : Advances(k, f, d, D[e], D[p], H, s.die)
  BY <1>a, <1>5, <1>8, InputAdvances
<1>11. EndOk(f.k, s, written[e], got[e], d, D[p], H, MaxBytes[e])
  BY <1>4, <1>10, EndAdvances
<1>12. EndOk(f.k, s1, written[e], got[e], d, D[p], H, MaxBytes[e])
  BY <1>9, <1>11, WakesOk
<1>13. t \in Packets(d, Have(f.k))
  BY <1>4, <1>5, <1>6, <1>10, NetSizes, OutOk
<1>14. Begins(D[e], d) /\ Have(k) \subseteq Have(f.k)
  BY <1>10 DEF Advances
<1>15. /\ net' = [net EXCEPT ![e] = r, ![p] = t] /\ kcp' = [kcp EXCEPT ![e] = f.k]
       /\ written' = [written EXCEPT ![e] = written[e]] /\ got' = [got EXCEPT ![e] = got[e]]
  BY <1>2, <1>3, <1>4, <1>6 DEF p
<1> HIDE DEF t, s1, r
<1>16. kcp'[e] = f.k /\ sess'[e] = s1 /\ net'[e] = r /\ net'[p] = t
  BY <1>c, <1>4, <1>6, <1>15
<1>17. Moved(D, d, e, kcp, net, sess, written, got, kcp', net', sess', written', got')
  BY <1>c, <1>3, <1>4, <1>8, <1>12, <1>13, <1>14, <1>15, <1>16 DEF Moved, p, k, H
<1>18. Holds(kcp', net', sess', written', got')
  BY <1>1, <1>17, EndMoves
<1>19. QED
  BY <1>18 DEF IInv

LEMMA ReadKeeps ==
  ASSUME IInv, NEW e \in Side, NEW b \in ReadSizes, Read(e, b)
  PROVE  IInv'
<1> DEFINE p == Peer(e)
           k == kcp[e]
           s == sess[e]
           H == Have(kcp[p])
           msg == IF s.pending # <<>> THEN s.pending ELSE Head(k.rq)
           n == IF b < Len(msg) THEN b ELSE Len(msg)
           h == got[e] \o SubSeq(msg, 1, n)
           m == IF s.pending # <<>> THEN k ELSE Recv(k)
           r == SubSeq(msg, n + 1, Len(msg))
           s1 == [s EXCEPT !.pending = r, !.reader = "run",
                           !.readEvent = Permit(s.reader = "wait", s.readEvent)]
<1>1. PICK D \in [Side -> Seq(Seq(Nat))] : Whole(kcp, net, sess, written, got, D)
  BY DEF IInv, Holds
<1>4. /\ k \in KcpT /\ s \in SessT
      /\ EndOk(k, s, written[e], got[e], D[e], D[p], H, MaxBytes[e])
      /\ net[e] \in Packets(D[p], H) /\ net[p] \in Packets(D[e], Have(k))
      /\ kcp \in [Side -> KcpT] /\ net \in [Side -> Seq(Seq(Seg))] /\ sess \in [Side -> SessT]
      /\ written \in [Side -> Nat] /\ got \in [Side -> Seq(Nat)]
  BY <1>1, WholeTypes
<1>5. Few(D[e]) /\ Few(D[p]) /\ Chain(D[p], 0) /\ Sound(k, D[e], D[p], H, s.die)
  BY <1>1, EndFaces DEF Faces
<1>6. p \in Side /\ p # e
  BY TwoEnds
<1>7. /\ s.pending # <<>> \/ k.rq # <<>>
      /\ got' = [got EXCEPT ![e] = h]
      /\ sess' = [sess EXCEPT ![e] = s1]
      /\ kcp' = IF s.pending # <<>> THEN kcp ELSE [kcp EXCEPT ![e] = Recv(@)]
      /\ net' = net /\ written' = written
  BY DEF Read
<1>8. kcp' = [kcp EXCEPT ![e] = m]
  BY <1>4, <1>7
<1>9. b \in Nat
  BY KcpAssumption
<1>10. s1 \in SessT /\ s1.pending = r /\ s1.die = s.die /\ s1.writer = s.writer /\ s1.todo = s.todo
  <2>1. msg \in Seq(Nat)
    <3>1. s.pending \in Seq(Nat) /\ k.rq \in Seq(Seq(Nat))
      BY <1>4, KcpFields DEF SessT
    <3>2. k.rq # <<>> => Head(k.rq) \in Seq(Nat)
      BY <3>1
    <3>3. QED
      BY <1>7, <3>1, <3>2
  <2> HIDE DEF msg
  <2>2. r \in Seq(Nat)
    <3>1. n \in 0 .. Len(msg)
      BY <1>9, <2>1
    <3> HIDE DEF n
    <3>2. Rests(msg, n, r, Nat)
      BY <2>1, <3>1, Rested, Zenon
    <3>3. QED
      BY <3>2 DEF Rests
  <2> HIDE DEF r
  <2>3. Permit(s.reader = "wait", s.readEvent) \in BOOLEAN
    BY <1>4 DEF Permit, SessT
  <2> DEFINE z == Permit(s.reader = "wait", s.readEvent)
  <2> HIDE DEF z
  <2>4. [s EXCEPT !.pending = r, !.reader = "run", !.readEvent = z] \in SessT
    BY <1>4, <2>2, <2>3 DEF SessT, z
  <2>5. QED
    BY <1>4, <2>4 DEF SessT, z
<1> DEFINE w == written[e]
           g == got[e]
<1>11. EndOk(m, s1, w, h, D[e], D[p], H, MaxBytes[e]) /\ Have(k) \subseteq Have(m)
  <2>1. /\ h = g \o SubSeq(msg, 1, n) /\ r = SubSeq(msg, n + 1, Len(msg))
        /\ msg = IF s.pending # <<>> THEN s.pending ELSE Head(k.rq)
        /\ m = IF s.pending # <<>> THEN k ELSE Recv(k)
        /\ n = IF b < Len(msg) THEN b ELSE Len(msg)
    OBVIOUS
  <2>2. EndOk(k, s, w, g, D[e], D[p], H, MaxBytes[e])
    BY <1>4
  <2>3. s.pending # <<>> \/ k.rq # <<>>
    BY <1>7
  <2> HIDE DEF k, s, p, H, msg, n, h, m, r, s1, w, g
  <2>4. s1.pending = SubSeq(msg, n + 1, Len(msg))
    BY <1>10, <2>1
  <2>5. Reads(k, s, g, b, msg, n, m, h, s1)
    BY <1>10, <2>1, <2>3, <2>4 DEF Reads
  <2>6. QED
    BY <1>5, <1>9, <2>2, <2>5, ReadOk
<1>12. Begins(D[e], D[e])
  BY <1>5, FewFacts DEF Begins
<1> HIDE DEF k, s, p, H, msg, n, h, m, r, s1
<1>13. /\ net' = [net EXCEPT ![e] = net[e], ![p] = net[p]]
       /\ written' = [written EXCEPT ![e] = written[e]]
  BY <1>4, <1>6, <1>7
<1>14. /\ kcp'[e] = m /\ sess'[e] = s1 /\ net'[e] = net[e] /\ net'[p] = net[p] /\ got'[e] = h
       /\ written'[e] = written[e]
  BY <1>4, <1>6, <1>7, <1>8
<1>15. net[p] \in Packets(D[e], Have(m))
  BY <1>4, <1>5, <1>11, <1>12, PacketsMore
<1>16. Moved(D, D[e], e, kcp, net, sess, written, got, kcp', net', sess', written', got')
  BY <1>4, <1>7, <1>8, <1>11, <1>12, <1>13, <1>14, <1>15 DEF Moved, p, k, H
<1>17. Holds(kcp', net', sess', written', got')
  BY <1>1, <1>16, EndMoves
<1>18. QED
  BY <1>17 DEF IInv

\* A call of write_buffers fits the bound.
LEMMA CallFits ==
  ASSUME NEW k, NEW g, NEW mine, NEW theirs, NEW H, NEW e \in Side, NEW w, Calls(e, w),
         EndOk(k, sess[e], written[e], g, mine, theirs, H, MaxBytes[e])
  PROVE  written[e] + SumOf(w) <= MaxBytes[e]
BY DEF Calls, EndOk, Writer

LEMMA WriteKeeps ==
  ASSUME IInv, NEW e \in Side, NEW w \in Writes, Write(e, w)
  PROVE  IInv'
<1> DEFINE p == Peer(e)
           k == kcp[e]
           s == sess[e]
           H == Have(kcp[p])
           m == QueueBuffers(k, written[e], w)
           x == written[e] + SumOf(w)
           s1 == [s EXCEPT !.writer = "idle", !.todo = <<>>,
                           !.writeEvent = Permit(s.writer = "wait", s.writeEvent)]
           M == MaxBytes[e]
<1>1. PICK D \in [Side -> Seq(Seq(Nat))] : Whole(kcp, net, sess, written, got, D)
  BY DEF IInv, Holds
<1>2. PICK f \in Flushes(m) : Engine(e, f)
  <2>1. \E y \in {m} : \E f \in Flushes(y) : Engine(e, f)
    BY DEF Write
  <2> HIDE DEF m
  <2>2. QED
    BY <2>1
<1>3. /\ ~s.die /\ MayWrite(k) /\ Calls(e, w)
      /\ written' = [written EXCEPT ![e] = x]
      /\ sess' = [sess EXCEPT ![e] = s1]
      /\ got' = got
  BY DEF Write
<1>4. /\ k \in KcpT /\ s \in SessT
      /\ EndOk(k, s, written[e], got[e], D[e], D[p], H, M)
      /\ net[e] \in Packets(D[p], H) /\ net[p] \in Packets(D[e], Have(k))
      /\ kcp \in [Side -> KcpT] /\ net \in [Side -> Seq(Seq(Seg))] /\ sess \in [Side -> SessT]
      /\ written \in [Side -> Nat] /\ got \in [Side -> Seq(Nat)]
  BY <1>1, WholeTypes
<1>5. /\ Few(D[e]) /\ Few(D[p]) /\ \A j \in H : j \in Nat /\ j < Len(D[e])
  BY <1>1, EndFaces DEF Faces
<1>6. p \in Side /\ p # e
  BY TwoEnds
<1>7. x <= M
  BY <1>3, <1>4, CallFits
<1>8. WaitSnd(k) < Wnd
  BY <1>3 DEF MayWrite
<1>9. s1 \in SessT /\ s1.pending = s.pending /\ s1.die = s.die /\ s1.writer = "idle"
  <2>1. Permit(s.writer = "wait", s.writeEvent) \in BOOLEAN /\ <<>> \in Seq(Nat)
    BY <1>4 DEF Permit, SessT
  <2> DEFINE z == Permit(s.writer = "wait", s.writeEvent)
  <2> HIDE DEF z
  <2>2. z \in BOOLEAN
    BY <2>1 DEF z
  <2>3. s1 = [s EXCEPT !.writer = "idle", !.todo = <<>>, !.writeEvent = z]
    BY DEF z
  <2> HIDE DEF s1
  <2>4. QED
    BY <1>4, <2>1, <2>2, <2>3 DEF SessT
<1>10. kcp' = [kcp EXCEPT ![e] = f.k] /\ net' = [net EXCEPT ![p] = Transmit(NetSize[p], @, f.out)]
  BY <1>2 DEF Engine
<1>11. Narrow(M)
  BY Narrows
<1>12. m = QueueBuffers(k, written[e], w)
  OBVIOUS
<1> DEFINE y == written[e]
           g == got[e]
<1>13. EndOk(m, s1, x, g, D[e], D[p], H, M) /\ Have(m) = Have(k)
  <2>1. EndOk(k, s, y, g, D[e], D[p], H, M) /\ m = QueueBuffers(k, y, w)
    BY <1>4
  <2>2. x = y + SumOf(w) /\ y + SumOf(w) <= M
    BY <1>7
  <2> HIDE DEF k, s, p, H, m, s1, M, y, x, g
  <2>3. EndOk(m, s1, y + SumOf(w), g, D[e], D[p], H, M) /\ Have(m) = Have(k)
    BY <1>3, <1>8, <1>9, <1>11, <2>1, <2>2, QueueOk
  <2>4. QED
    BY <2>2, <2>3
<1> HIDE DEF k, s, p, H, m, s1, M, x, y, g
<1>14. /\ Sound(m, D[e], D[p], H, s1.die) /\ Writer(m, s1, x, D[e], M) /\ x \in Nat
  BY <1>13 DEF EndOk
<1>15. Ready(m, D[e])
  BY <1>11, <1>14, WriterFew DEF Ready
<1>16. Sound(m, D[e], D[p], H, FALSE)
  BY <1>3, <1>9, <1>14 DEF Sound, Sends
<1>17. PICK d : Advances(m, f, d, D[e], D[p], H, FALSE)
  BY <1>2, <1>5, <1>15, <1>16, FlushAdvances
<1>18. Advances(m, f, d, D[e], D[p], H, s1.die)
  BY <1>3, <1>9, <1>17 DEF Advances, Sound, Sends
<1>19. EndOk(f.k, s1, x, g, d, D[p], H, M)
  BY <1>13, <1>18, EndAdvances
<1> DEFINE t == Transmit(NetSize[p], net[p], f.out)
<1>20. t \in Packets(d, Have(f.k))
  <2>1. Have(k) \subseteq Have(m)
    BY <1>13
  <2>2. QED
    BY <1>4, <1>5, <1>6, <1>17, <2>1, NetSizes, OutOk
<1>21. Begins(D[e], d) /\ Have(k) \subseteq Have(f.k)
  BY <1>13, <1>17 DEF Advances
<1>22. net' = [net EXCEPT ![e] = net[e], ![p] = t] /\ got' = [got EXCEPT ![e] = got[e]]
  BY <1>3, <1>4, <1>6, <1>10
<1> HIDE DEF t
<1>23. /\ kcp'[e] = f.k /\ sess'[e] = s1 /\ net'[e] = net[e] /\ net'[p] = t
       /\ written'[e] = x /\ got'[e] = g
  BY <1>3, <1>4, <1>6, <1>10, <1>22 DEF g
<1>24. Moved(D, d, e, kcp, net, sess, written, got, kcp', net', sess', written', got')
  BY <1>3, <1>4, <1>10, <1>19, <1>20, <1>21, <1>22, <1>23 DEF Moved, p, k, H, M, g
<1>25. Holds(kcp', net', sess', written', got')
  BY <1>1, <1>24, EndMoves
<1>26. QED
  BY <1>25 DEF IInv

LEMMA CloseKeeps ==
  ASSUME IInv, NEW e \in Side, Close(e)
  PROVE  IInv'
<1> DEFINE p == Peer(e)
           k == kcp[e]
           s == sess[e]
           H == Have(kcp[p])
           s1 == [s EXCEPT !.die = TRUE]
<1>1. PICK D \in [Side -> Seq(Seq(Nat))] : Whole(kcp, net, sess, written, got, D)
  BY DEF IInv, Holds
<1>2. PICK f \in Flushes(k) : Engine(e, [k |-> ReleaseTx(f.k), out |-> f.out])
  BY DEF Close
<1> DEFINE m == ReleaseTx(f.k)
<1>3. /\ ~s.die /\ sess' = [sess EXCEPT ![e].die = TRUE]
      /\ written' = written /\ got' = got
  BY DEF Close
<1>4. /\ k \in KcpT /\ s \in SessT
      /\ EndOk(k, s, written[e], got[e], D[e], D[p], H, MaxBytes[e])
      /\ net[e] \in Packets(D[p], H) /\ net[p] \in Packets(D[e], Have(k))
      /\ kcp \in [Side -> KcpT] /\ net \in [Side -> Seq(Seq(Seg))] /\ sess \in [Side -> SessT]
      /\ written \in [Side -> Nat] /\ got \in [Side -> Seq(Nat)]
  BY <1>1, WholeTypes
<1>5. /\ Few(D[e]) /\ Few(D[p]) /\ \A j \in H : j \in Nat /\ j < Len(D[e])
      /\ Sound(k, D[e], D[p], H, s.die) /\ Ready(k, D[e])
  BY <1>1, EndFaces DEF Faces
<1>6. p \in Side /\ p # e
  BY TwoEnds
<1>7. Sound(k, D[e], D[p], H, FALSE)
  BY <1>3, <1>5 DEF Sound, Sends
<1>8. Closes(s, s1)
  <2>1. s \in SessT
    BY <1>4
  <2> HIDE DEF s
  <2>2. QED
    BY <2>1 DEF Closes, SessT
<1>a. sess' = [sess EXCEPT ![e] = s1]
  BY <1>3, <1>4
<1>9. kcp' = [kcp EXCEPT ![e] = m] /\ net' = [net EXCEPT ![p] = Transmit(NetSize[p], @, f.out)]
  <2> DEFINE h == [k |-> m, out |-> f.out]
  <2>1. kcp' = [kcp EXCEPT ![e] = h.k] /\ net' = [net EXCEPT ![p] = Transmit(NetSize[p], @, h.out)]
    BY <1>2 DEF Engine
  <2>2. h.k = m /\ h.out = f.out
    OBVIOUS
  <2> HIDE DEF h, m
  <2>3. QED
    BY <2>1, <2>2
<1> DEFINE w == written[e]
           g == got[e]
<1> HIDE DEF k, s, p, H
<1>10. PICK d : Advances(k, f, d, D[e], D[p], H, FALSE)
  BY <1>2, <1>5, <1>7, FlushAdvances
<1>11. Advances(k, f, d, D[e], D[p], H, s.die)
  BY <1>3, <1>10 DEF Advances, Sound, Sends
<1>12. EndOk(f.k, s, w, g, d, D[p], H, MaxBytes[e])
  BY <1>4, <1>11, EndAdvances
<1>13. EndOk(m, s1, w, g, d, D[p], H, MaxBytes[e]) /\ Have(m) = Have(f.k)
  <2>1. EndOk(ReleaseTx(f.k), s1, w, g, d, D[p], H, MaxBytes[e]) /\ Have(ReleaseTx(f.k)) = Have(f.k)
    <3> HIDE DEF s1, w, g
    <3>1. QED
      BY <1>8, <1>12, CloseOk
  <2>2. QED
    BY <2>1
<1> DEFINE t == Transmit(NetSize[p], net[p], f.out)
<1>14. t \in Packets(d, Have(f.k))
  BY <1>4, <1>5, <1>6, <1>10, NetSizes, OutOk
<1>15. Begins(D[e], d) /\ Have(k) \subseteq Have(m)
  BY <1>10, <1>13 DEF Advances
<1>16. /\ net' = [net EXCEPT ![e] = net[e], ![p] = t]
       /\ written' = [written EXCEPT ![e] = w] /\ got' = [got EXCEPT ![e] = g]
  BY <1>3, <1>4, <1>6, <1>9
<1> HIDE DEF t, s1, m, w, g
<1>17. /\ kcp'[e] = m /\ sess'[e] = s1 /\ net'[e] = net[e] /\ net'[p] = t
       /\ written'[e] = w /\ got'[e] = g
  BY <1>a, <1>4, <1>6, <1>9, <1>16
<1>18. Moved(D, d, e, kcp, net, sess, written, got, kcp', net', sess', written', got')
  BY <1>a, <1>4, <1>9, <1>13, <1>14, <1>15, <1>16, <1>17 DEF Moved, p, k, H
<1>19. Holds(kcp', net', sess', written', got')
  BY <1>1, <1>18, EndMoves
<1>20. QED
  BY <1>19 DEF IInv

\* What the record of a session promises of its calls
LEMMA SessionHas ==
  ASSUME IInv, NEW e \in Side
  PROVE  /\ sess \in [Side -> SessT] /\ sess[e] \in SessT
         /\ sess[e].writer = "wait" =>
              sess[e].todo \in Writes /\ written[e] + SumOf(sess[e].todo) <= MaxBytes[e]
<1>1. PICK D \in [Side -> Seq(Seq(Nat))] : Whole(kcp, net, sess, written, got, D)
  BY DEF IInv, Holds
<1>2. /\ sess \in [Side -> SessT] /\ sess[e] \in SessT
      /\ EndOk(kcp[e], sess[e], written[e], got[e], D[e], D[Peer(e)], Have(kcp[Peer(e)]), MaxBytes[e])
  BY <1>1, WholeTypes
<1>3. QED
  BY <1>2 DEF EndOk, Writer

\* The session of e may become s1 in a step that leaves its bytes alone.
Stays(e, s1) ==
  /\ s1 \in SessT /\ s1.pending = sess[e].pending /\ s1.die = sess[e].die
  /\ s1.writer = "wait" => s1.todo \in Writes /\ written[e] + SumOf(s1.todo) <= MaxBytes[e]

LEMMA StaysKeeps ==
  ASSUME IInv, NEW e \in Side, NEW s1, Stays(e, s1), sess' = [sess EXCEPT ![e] = s1],
         UNCHANGED <<kcp, net, written, got>>
  PROVE  IInv'
<1>1. PICK D \in [Side -> Seq(Seq(Nat))] : Whole(kcp, net, sess, written, got, D)
  BY DEF IInv, Holds
<1>2. EndOk(kcp[e], sess[e], written[e], got[e], D[e], D[Peer(e)], Have(kcp[Peer(e)]), MaxBytes[e])
  BY <1>1, WholeTypes
<1>3. EndOk(kcp[e], s1, written[e], got[e], D[e], D[Peer(e)], Have(kcp[Peer(e)]), MaxBytes[e])
  BY <1>2, SessOk DEF Stays
<1>4. QED
  BY <1>1, <1>3, SessionMoves

LEMMA RecvEndsKeeps ==
  ASSUME IInv, NEW e \in Side, RecvFails(e) \/ RecvStops(e)
  PROVE  IInv'
<1>1. /\ sess \in [Side -> SessT] /\ sess[e] \in SessT
      /\ sess[e].writer = "wait" =>
           sess[e].todo \in Writes /\ written[e] + SumOf(sess[e].todo) <= MaxBytes[e]
  BY SessionHas
<1>2. CASE RecvFails(e)
  <2> DEFINE s1 == [sess[e] EXCEPT !.input = FALSE, !.failed = TRUE]
  <2>1. Stays(e, s1)
    BY <1>1 DEF Stays, SessT
  <2>2. sess' = [sess EXCEPT ![e] = s1] /\ UNCHANGED <<kcp, net, written, got>>
    BY <1>1, <1>2 DEF RecvFails
  <2> HIDE DEF s1
  <2>3. QED
    BY <2>1, <2>2, StaysKeeps
<1>3. CASE RecvStops(e)
  <2> DEFINE s1 == [sess[e] EXCEPT !.input = FALSE]
  <2>1. Stays(e, s1)
    BY <1>1 DEF Stays, SessT
  <2>2. sess' = [sess EXCEPT ![e] = s1] /\ UNCHANGED <<kcp, net, written, got>>
    BY <1>1, <1>3 DEF RecvStops
  <2> HIDE DEF s1
  <2>3. QED
    BY <2>1, <2>2, StaysKeeps
<1>4. QED
  BY <1>2, <1>3

LEMMA ReadEndsKeeps ==
  ASSUME IInv, NEW e \in Side, ReadWaits(e) \/ ReadFails(e)
  PROVE  IInv'
<1>1. /\ sess \in [Side -> SessT] /\ sess[e] \in SessT
      /\ sess[e].writer = "wait" =>
           sess[e].todo \in Writes /\ written[e] + SumOf(sess[e].todo) <= MaxBytes[e]
  BY SessionHas
<1>2. CASE ReadWaits(e)
  <2> DEFINE s1 == [sess[e] EXCEPT !.reader = "wait",
                !.readEvent = Permit(sess[e].reader = "wait", sess[e].readEvent)]
  <2>1. Stays(e, s1)
    BY <1>1 DEF Stays, SessT, Permit
  <2>2. sess' = [sess EXCEPT ![e] = s1] /\ UNCHANGED <<kcp, net, written, got>>
    BY <1>1, <1>2 DEF ReadWaits
  <2> HIDE DEF s1
  <2>3. QED
    BY <2>1, <2>2, StaysKeeps
<1>3. CASE ReadFails(e)
  <2> DEFINE s1 == [sess[e] EXCEPT !.reader = "failed"]
  <2>1. Stays(e, s1)
    BY <1>1 DEF Stays, SessT
  <2>2. sess' = [sess EXCEPT ![e] = s1] /\ UNCHANGED <<kcp, net, written, got>>
    BY <1>1, <1>3 DEF ReadFails
  <2> HIDE DEF s1
  <2>3. QED
    BY <2>1, <2>2, StaysKeeps
<1>4. QED
  BY <1>2, <1>3

LEMMA WriteFailsKeeps ==
  ASSUME IInv, NEW e \in Side, WriteFails(e)
  PROVE  IInv'
<1> DEFINE nil == <<>>
           s1 == [sess[e] EXCEPT !.writer = "idle", !.todo = nil]
<1>1. sess \in [Side -> SessT] /\ sess[e] \in SessT
  BY SessionHas
<1>2. Stays(e, s1)
  <2>1. nil \in Seq(Nat)
    OBVIOUS
  <2> HIDE DEF nil
  <2>2. QED
    BY <1>1, <2>1 DEF Stays, SessT
<1>3. sess' = [sess EXCEPT ![e] = s1] /\ UNCHANGED <<kcp, net, written, got>>
  BY <1>1 DEF WriteFails
<1> HIDE DEF s1
<1>4. QED
  BY <1>2, <1>3, StaysKeeps

LEMMA WriteWaitsKeeps ==
  ASSUME IInv, NEW e \in Side, NEW w \in Writes, WriteWaits(e, w)
  PROVE  IInv'
<1> DEFINE s1 == [sess[e] EXCEPT !.writer = "wait", !.todo = w,
                    !.writeEvent = Permit(sess[e].writer = "wait", sess[e].writeEvent)]
<1>1. /\ sess \in [Side -> SessT] /\ sess[e] \in SessT
      /\ sess[e].writer = "wait" =>
           sess[e].todo \in Writes /\ written[e] + SumOf(sess[e].todo) <= MaxBytes[e]
  BY SessionHas
<1>2. written[e] + SumOf(w) <= MaxBytes[e]
  BY <1>1 DEF WriteWaits, Calls
<1>3. w \in Seq(Nat)
  BY CountsNat
<1>4. Stays(e, s1)
  BY <1>1, <1>2, <1>3 DEF Stays, SessT, Permit
<1>5. sess' = [sess EXCEPT ![e] = s1] /\ UNCHANGED <<kcp, net, written, got>>
  BY <1>1 DEF WriteWaits
<1> HIDE DEF s1
<1>6. QED
  BY <1>4, <1>5, StaysKeeps

LEMMA StepKeeps ==
  ASSUME IInv, NEW e \in Side, Session(e)
  PROVE  IInv'
<1>1. ASSUME NEW i \in DOMAIN net[e], Deliver(e, i) PROVE IInv'
  BY <1>1, DeliverKeeps
<1>2. CASE RecvFails(e) \/ RecvStops(e)
  BY <1>2, RecvEndsKeeps
<1>3. CASE Tick(e)
  BY <1>3, TickKeeps
<1>4. ASSUME NEW b \in ReadSizes, Read(e, b) PROVE IInv'
  BY <1>4, ReadKeeps
<1>5. CASE ReadWaits(e) \/ ReadFails(e)
  BY <1>5, ReadEndsKeeps
<1>6. ASSUME NEW w \in Writes, Write(e, w) PROVE IInv'
  BY <1>6, WriteKeeps
<1>7. ASSUME NEW w \in Writes, WriteWaits(e, w) PROVE IInv'
  BY <1>7, WriteWaitsKeeps
<1>8. CASE WriteFails(e)
  BY <1>8, WriteFailsKeeps
<1>9. CASE Close(e)
  BY <1>9, CloseKeeps
<1>10. QED
  BY <1>1, <1>2, <1>3, <1>4, <1>5, <1>6, <1>7, <1>8, <1>9, Zenon DEF Session

LEMMA InitHolds ==
  ASSUME Init
  PROVE  IInv
<1> DEFINE nil == <<>>
           k0 == [una |-> FirstSn, nxt |-> FirstSn, rnxt |-> FirstSn, rmt |-> FirstRmt,
                  queue |-> nil, buf |-> nil, rq |-> nil, rbuf |-> nil,
                  acks |-> nil, tell |-> FALSE, armed |-> FALSE]
           s0 == [pending |-> nil, readEvent |-> FALSE, writeEvent |-> FALSE,
                  die |-> FALSE, failed |-> FALSE, reader |-> "run", writer |-> "idle",
                  todo |-> nil, input |-> TRUE]
           D == [e \in Side |-> nil]
           H == Have(k0)
<1>1. /\ nil \in Seq(Nat) /\ nil \in Seq(Seq(Nat)) /\ nil \in Seq(Sent) /\ nil \in Seq(Kept)
      /\ nil \in Seq(Sns) /\ nil \in Seq(Seq(Seg)) /\ Len(nil) = 0 /\ nil = <<>>
  OBVIOUS
<1>2. /\ kcp = [e \in Side |-> k0] /\ net = [e \in Side |-> nil] /\ sess = [e \in Side |-> s0]
      /\ written = [e \in Side |-> 0] /\ got = [e \in Side |-> nil]
  BY DEF Init
<1>b. \A t : nil \in Packets(nil, t)
  <2>1. \A V : nil \in Seq(V)
    OBVIOUS
  <2> HIDE DEF nil
  <2>2. QED
    BY <2>1 DEF Packets
<1>3. FirstSn \in Sns /\ FirstRmt \in 0 .. Wnd /\ Wnd \in Nat \ {0} /\ Abs(FirstSn) = 0
  BY KcpAssumption, AbsFirst DEF Sns
<1> HIDE DEF nil
<1>4. /\ k0 \in KcpT /\ k0.rnxt = FirstSn /\ k0.una = FirstSn /\ k0.nxt = FirstSn
      /\ k0.queue = nil /\ k0.buf = nil /\ k0.rq = nil /\ k0.rbuf = nil /\ k0.acks = nil
  BY <1>1, <1>3 DEF KcpT
<1>5. /\ s0 \in SessT /\ s0.pending = nil /\ s0.die = FALSE /\ s0.writer = "idle"
  BY <1>1 DEF SessT
<1> HIDE DEF k0, s0, H
<1>6. Receives(k0, nil)
  <2>1. \A i \in 1 .. Len(nil) : FALSE
    BY <1>1
  <2>2. QED
    BY <1>1, <1>3, <1>4, <2>1 DEF Receives
<1>7. Owes(k0)
  <2>1. \A i \in 1 .. Len(nil) : FALSE
    BY <1>1
  <2>2. QED
    BY <1>4, <2>1 DEF Owes
<1>8. Sends(k0, nil, H, FALSE)
  <2>1. \A i \in 1 .. Len(nil) : FALSE
    BY <1>1
  <2>2. \A j \in 0 .. Abs(k0.una) - 1 : FALSE
    BY <1>3, <1>4
  <2>3. QED
    BY <1>1, <1>3, <1>4, <2>1, <2>2 DEF Sends
<1>9. Sound(k0, nil, nil, H, s0.die)
  BY <1>1, <1>4, <1>5, <1>6, <1>7, <1>8 DEF Sound
<1>10. Ends(nil)[0] = 0 /\ Chain(nil, 0) /\ Size(nil) = 0
  BY <1>1, EndsFacts, ChainEmpty
<1>11. Reader(k0, s0, nil, nil)
  <2>1. \A i \in 1 .. Len(nil) : FALSE
    BY <1>1
  <2>2. Taken(k0) = 0
    BY <1>1, <1>3, <1>4 DEF Taken
  <2>3. QED
    BY <1>1, <1>5, <1>10, <2>1, <2>2 DEF Reader
<1>12. ASSUME NEW M \in Nat PROVE Writer(k0, s0, 0, nil, M)
  <2>1. PICK v \in Writes : TRUE
    BY KcpAssumption
  <2>2. SumOf(Counts(v)) \in Nat
    BY CountsNat
  <2>3. WaitSnd(k0) = 0
    BY <1>1, <1>4 DEF WaitSnd
  <2>4. WaitSnd(k0) < Wnd + SumOf(Counts(v))
    BY <1>3, <2>2, <2>3
  <2>5. s0.writer # "wait"
    BY <1>5
  <2>6. QED
    BY <1>4, <1>10, <2>4, <2>5 DEF Writer
<1>13. ASSUME NEW M \in Nat PROVE EndOk(k0, s0, 0, nil, nil, nil, H, M)
  BY <1>1, <1>4, <1>5, <1>9, <1>11, <1>12, <1>13 DEF EndOk
<1>14. D \in [Side -> Seq(Seq(Nat))] /\ \A e \in Side : D[e] = nil
  BY <1>1
<1>15. /\ kcp \in [Side -> KcpT] /\ net \in [Side -> Seq(Seq(Seg))] /\ sess \in [Side -> SessT]
       /\ written \in [Side -> Nat] /\ got \in [Side -> Seq(Nat)]
  BY <1>1, <1>2, <1>4, <1>5
<1>16. ASSUME NEW e \in Side
       PROVE  /\ EndOk(kcp[e], sess[e], written[e], got[e], D[e], D[Peer(e)],
                       Have(kcp[Peer(e)]), MaxBytes[e])
              /\ net[e] \in Packets(D[Peer(e)], Have(kcp[Peer(e)]))
  <2>1. Peer(e) \in Side /\ MaxBytes[e] \in Nat
    BY TwoEnds, KcpAssumption
  <2>2. /\ kcp[e] = k0 /\ sess[e] = s0 /\ written[e] = 0 /\ got[e] = nil /\ net[e] = nil
        /\ D[e] = nil /\ D[Peer(e)] = nil /\ Have(kcp[Peer(e)]) = H
    BY <1>2, <1>14, <2>1 DEF H
  <2> HIDE DEF D
  <2>3. EndOk(k0, s0, 0, nil, nil, nil, H, MaxBytes[e])
    BY <1>13, <2>1
  <2>4. nil \in Packets(nil, H)
    BY <1>b
  <2>5. QED
    BY <2>2, <2>3, <2>4
<1> HIDE DEF D
<1>17. Whole(kcp, net, sess, written, got, D)
  BY <1>15, <1>16 DEF Whole
<1>18. QED
  BY <1>14, <1>17 DEF IInv, Holds

\* Both ends and the packets between them stay consistent with one numbering
\* of the segments of each direction: the inductive invariant.
THEOREM KcpInvariant == Spec => []IInv
<1>1. Init => IInv
  BY InitHolds
<1>2. IInv /\ [Next]_vars => IInv'
  <2>1. CASE Next
    BY <2>1, StepKeeps DEF Next
  <2>2. CASE UNCHANGED vars
    BY <2>2, Zenon DEF vars, IInv
  <2>3. QED
    BY <2>1, <2>2
<1>3. QED
  BY <1>1, <1>2, PTL DEF Spec

-----------------------------------------------------------------------------
(* What follows from the invariant.                                        *)

\* Segments in flight, queued and received are bounded by the windows, and the
\* received ones are sorted, as the signed differences of their numbers tell.
LEMMA EndBounds ==
  ASSUME NEW k, NEW s, NEW w, NEW g, NEW mine, NEW theirs, NEW H, NEW M,
         EndOk(k, s, w, g, mine, theirs, H, M), Few(theirs)
  PROVE  /\ Len(k.buf) <= Wnd
         /\ \E v \in Writes : WaitSnd(k) < Wnd + SumOf(Counts(v))
         /\ Len(k.rq) <= Wnd
         /\ Len(k.rbuf) <= Wnd
         /\ \A i, j \in DOMAIN k.rbuf : i < j => Diff(k.rbuf[i].sn, k.rbuf[j].sn) < 0
<1>1. /\ k \in KcpT /\ Len(k.buf) <= Wnd /\ Len(k.rq) <= Wnd /\ Receives(k, theirs)
      /\ \E v \in Writes : WaitSnd(k) < Wnd + SumOf(Counts(v))
  BY DEF EndOk, Sound, Sends, Receives, Writer
<1> DEFINE L == Len(k.rbuf)
           r == Abs(k.rnxt)
           f == [i \in 1 .. L |-> Abs(k.rbuf[i].sn)]
<1>2. /\ L \in Nat /\ DOMAIN k.rbuf = 1 .. L /\ r \in Nat /\ Wnd \in Nat
      /\ \A i \in 1 .. L : f[i] \in Nat /\ r <= f[i] /\ f[i] < r + Wnd
      /\ \A i, j \in 1 .. L : i < j => f[i] < f[j]
      /\ \A i \in 1 .. L : k.rbuf[i].sn \in Sns /\ f[i] < Len(theirs)
  <2>1. L \in Nat /\ DOMAIN k.rbuf = 1 .. L
    BY <1>1, KcpFields
  <2>2. r \in Nat /\ \A i \in 1 .. L : k.rbuf[i].sn \in Sns /\ Abs(k.rbuf[i].sn) \in Nat
    BY <1>1, KcpNumbers
  <2>3. /\ \A i \in 1 .. L : /\ r <= Abs(k.rbuf[i].sn) /\ Abs(k.rbuf[i].sn) < r + Wnd
                             /\ Abs(k.rbuf[i].sn) < Len(theirs)
        /\ \A i, j \in 1 .. L : i < j => Abs(k.rbuf[i].sn) < Abs(k.rbuf[j].sn)
    BY <1>1 DEF Receives, At
  <2>4. \A i \in 1 .. L : f[i] = Abs(k.rbuf[i].sn)
    OBVIOUS
  <2> HIDE DEF L, r, f
  <2>5. QED
    BY <2>1, <2>2, <2>3, <2>4, Sizes
<1>3. f \in [1 .. L -> Nat]
  BY <1>2
<1>4. L <= Wnd
  <2> HIDE DEF L, r, f
  <2>1. \A i \in 1 .. L : r + i - 1 <= f[i]
    BY <1>2, <1>3, Rising
  <2>2. CASE L = 0
    BY <1>2, <2>2
  <2>3. CASE L # 0
    <3>1. L \in 1 .. L
      BY <1>2, <2>3
    <3>2. r + L - 1 <= f[L] /\ f[L] < r + Wnd /\ f[L] \in Nat
      BY <1>2, <2>1, <3>1
    <3>3. QED
      BY <1>2, <3>2
  <2>4. QED
    BY <2>2, <2>3
<1>5. ASSUME NEW i \in 1 .. L, NEW j \in 1 .. L, i < j
      PROVE  Diff(k.rbuf[i].sn, k.rbuf[j].sn) < 0
  <2> DEFINE a == k.rbuf[i].sn
             b == k.rbuf[j].sn
  <2>1. a \in Sns /\ b \in Sns
    BY <1>2
  <2>2. /\ Abs(a) \in Nat /\ Abs(b) \in Nat /\ Abs(a) < Abs(b)
        /\ Abs(a) < Len(theirs) /\ Abs(b) < Len(theirs)
    <3>1. /\ f[i] = Abs(a) /\ f[j] = Abs(b)
      OBVIOUS
    <3> HIDE DEF f, a, b, L, r
    <3>2. QED
      BY <1>2, <1>5, <3>1
  <2>3. Len(theirs) \in Nat /\ Wnd \in Nat
    BY FewFacts, Sizes
  <2> HIDE DEF a, b, L, r, f
  <2>4. Diff(a, b) = Abs(a) - Abs(b)
    <3>1. Abs(a) <= Len(theirs) /\ Abs(b) <= Len(theirs) + Wnd
      BY <2>2, <2>3
    <3>2. QED
      BY <2>1, <3>1, DiffFew
  <2>5. QED
    BY <2>2, <2>4 DEF a, b
<1>6. QED
  BY <1>1, <1>2, <1>4, <1>5

\* Memory is bounded by the windows.
THEOREM WindowsBoundMemory == Spec => []Bounded
<1>1. ASSUME IInv, NEW e \in Side
      PROVE  /\ Len(kcp[e].buf) <= Wnd
             /\ \E v \in Writes : WaitSnd(kcp[e]) < Wnd + SumOf(Counts(v))
             /\ Len(kcp[e].rq) <= Wnd
             /\ Len(kcp[e].rbuf) <= Wnd
             /\ \A i, j \in DOMAIN kcp[e].rbuf :
                  i < j => Diff(kcp[e].rbuf[i].sn, kcp[e].rbuf[j].sn) < 0
  <2>1. PICK D \in [Side -> Seq(Seq(Nat))] : Whole(kcp, net, sess, written, got, D)
    BY <1>1 DEF IInv, Holds
  <2>2. EndOk(kcp[e], sess[e], written[e], got[e], D[e], D[Peer(e)], Have(kcp[Peer(e)]), MaxBytes[e])
    BY <2>1, WholeTypes
  <2>3. Few(D[Peer(e)])
    BY <2>1, EndFaces DEF Faces
  <2>4. QED
    BY <2>2, <2>3, EndBounds
<1>2. IInv => Bounded
  BY <1>1 DEF Bounded, Counts
<1>3. QED
  BY <1>2, KcpInvariant, PTL

\* What left the buffers of an open sender the receiver has.
LEMMA SendsLeft ==
  ASSUME NEW k \in KcpT, NEW mine, Few(mine), NEW H, Sends(k, mine, H, FALSE),
         NEW q \in Nat, q < Len(mine), q \notin H
  PROVE  \E i \in 1 .. Len(k.buf) : k.buf[i].data = mine[q + 1]
<1>1. /\ Abs(k.una) \in Nat /\ Len(k.buf) \in Nat /\ Abs(k.una) + Len(k.buf) = Len(mine)
      /\ \A j \in 0 .. Abs(k.una) - 1 : j \in H
      /\ \A i \in 1 .. Len(k.buf) :
           /\ Abs(k.buf[i].sn) = Abs(k.una) + i - 1
           /\ k.buf[i].acked => Abs(k.buf[i].sn) \in H
           /\ ~k.buf[i].acked => At(k.buf[i], mine)
  BY KcpNumbers, KcpFields DEF Sends
<1> DEFINE u == Abs(k.una)
           L == Len(k.buf)
           i == q - u + 1
<1>2. u <= q
  <2> HIDE DEF u
  <2>1. CASE q < u
    BY <1>1, <2>1 DEF u
  <2>2. QED
    BY <1>1, <2>1 DEF u
<1>3. i \in 1 .. L /\ u + i - 1 = q
  <2>1. u \in Nat /\ L \in Nat /\ u + L = Len(mine)
    BY <1>1
  <2> HIDE DEF u, L
  <2>2. QED
    BY <1>2, <2>1
<1> HIDE DEF i
<1>4. Abs(k.buf[i].sn) = q
  BY <1>1, <1>3
<1>5. At(k.buf[i], mine)
  BY <1>1, <1>3, <1>4
<1>6. k.buf[i].data = mine[q + 1]
  BY <1>4, <1>5 DEF At
<1>7. QED
  BY <1>3, <1>6

\* What an end has it keeps or has handed on.
LEMMA HaveKept ==
  ASSUME NEW d, Few(d), NEW k \in KcpT, Receives(k, d), NEW s \in SessT, NEW g \in Seq(Nat),
         Reader(k, s, g, d), NEW q \in Have(k), q < Len(d),
         NEW x \in Nat, x >= 1, x <= Ends(d)[q + 1]
  PROVE  \/ x \in 1 .. Len(g) /\ g[x] = x
         \/ x - Len(g) \in 1 .. Len(s.pending) /\ s.pending[x - Len(g)] = x
         \/ \E i \in 1 .. Len(k.rq) : k.rq[i] = d[q + 1]
         \/ \E i \in 1 .. Len(k.rbuf) : k.rbuf[i].data = d[q + 1]
<1> DEFINE r == Abs(k.rnxt)
           L == Len(k.rq)
           t == Taken(k)
<1>1. /\ r \in Nat /\ L \in Nat /\ L <= r /\ t = r - L /\ r <= Len(d) /\ Len(d) \in Nat
      /\ q \in Nat
  BY KcpNumbers, KcpFields, FewFacts DEF Receives, Taken, Have
<1>2. CASE r <= q
  <2>0. q < r \/ \E i \in 1 .. Len(k.rbuf) : Abs(k.rbuf[i].sn) = q
    BY DEF Have
  <2>1. PICK i \in 1 .. Len(k.rbuf) : Abs(k.rbuf[i].sn) = q
    <3> HIDE DEF r
    <3>1. QED
      BY <1>1, <1>2, <2>0
  <2>2. At(k.rbuf[i], d)
    BY DEF Receives
  <2>3. QED
    BY <2>1, <2>2 DEF At
<1>3. CASE t <= q /\ q < r
  <2> DEFINE i == q - t + 1
  <2>1. i \in 1 .. L /\ t + i = q + 1
    <3> HIDE DEF r, L, t
    <3>1. QED
      BY <1>1, <1>3
  <2> HIDE DEF i
  <2>2. k.rq[i] = d[Taken(k) + i]
    BY <2>1 DEF Receives
  <2>3. k.rq[i] = d[q + 1]
    BY <2>1, <2>2
  <2>4. QED
    BY <2>1, <2>3
<1>4. CASE q < t
  <2>1. q + 1 \in 0 .. Len(d) /\ t \in (q + 1) .. Len(d)
    <3> HIDE DEF r, L, t
    <3>1. QED
      BY <1>1, <1>4
  <2>2. d \in Seq(Seq(Nat))
    BY FewFacts
  <2>3. Ends(d)[q + 1] <= Ends(d)[t]
    <3> HIDE DEF t
    <3>1. QED
      BY <2>1, <2>2, EndsRise
  <2>4. Ends(d)[q + 1] \in Nat /\ Ends(d)[t] \in Nat
    <3>1. t \in 0 .. Len(d)
      <4> HIDE DEF t
      <4>1. QED
        BY <1>1, <2>1
    <3> HIDE DEF t
    <3>2. QED
      BY <2>1, <2>2, <3>1, EndsFacts
  <2>5. /\ Len(g) + Len(s.pending) = Ends(d)[t]
        /\ \A i \in 1 .. Len(g) : g[i] = i
        /\ \A i \in 1 .. Len(s.pending) : s.pending[i] = Len(g) + i
    BY DEF Reader
  <2> DEFINE G == Len(g)
             P == Len(s.pending)
             E == Ends(d)[t]
             F == Ends(d)[q + 1]
  <2>6. G \in Nat /\ P \in Nat /\ E \in Nat /\ F \in Nat /\ G + P = E /\ F <= E /\ x <= F
    BY <2>3, <2>4, <2>5 DEF SessT
  <2> HIDE DEF G, P, E, F
  <2>7. x \in 1 .. G \/ (x - G \in 1 .. P /\ G + (x - G) = x)
    BY <2>6
  <2>8. QED
    BY <2>5, <2>7 DEF G, P
<1>5. QED
  <2> HIDE DEF r, t, L
  <2>1. t \in Int
    BY <1>1
  <2>2. QED
    BY <1>1, <1>2, <1>3, <1>4, <2>1

LEMMA FreedIs ==
  ASSUME NEW e, NEW x \in Freed(e)
  PROVE  /\ x \in 1 .. written[e]
         /\ \A i \in DOMAIN kcp[e].queue : x \notin Range(kcp[e].queue[i])
         /\ \A i \in DOMAIN kcp[e].buf : x \notin Range(kcp[e].buf[i].data)
<1>1. x \in 1 .. written[e] /\ x \notin Buffered(e)
  BY DEF Freed
<1>2. /\ \A i \in DOMAIN kcp[e].queue : x \notin Range(kcp[e].queue[i])
      /\ \A i \in DOMAIN kcp[e].buf : x \notin Range(kcp[e].buf[i].data)
  <2>1. x \notin UNION {Range(kcp[e].queue[i]) : i \in DOMAIN kcp[e].queue}
    BY <1>1 DEF Buffered
  <2>2. x \notin UNION {Range(kcp[e].buf[i].data) : i \in DOMAIN kcp[e].buf}
    BY <1>1 DEF Buffered
  <2>3. QED
    BY <2>1, <2>2
<1>3. QED
  BY <1>1, <1>2

LEMMA ArrivedIs ==
  ASSUME NEW p, NEW x
  PROVE  /\ x \in Range(got[p]) => x \in Arrived(p)
         /\ x \in Range(sess[p].pending) => x \in Arrived(p)
         /\ \A i \in DOMAIN kcp[p].rq : x \in Range(kcp[p].rq[i]) => x \in Arrived(p)
         /\ \A i \in DOMAIN kcp[p].rbuf : x \in Range(kcp[p].rbuf[i].data) => x \in Arrived(p)
<1>1. ASSUME NEW i \in DOMAIN kcp[p].rq, x \in Range(kcp[p].rq[i])
      PROVE  x \in UNION {Range(kcp[p].rq[j]) : j \in DOMAIN kcp[p].rq}
  BY <1>1
<1>2. ASSUME NEW i \in DOMAIN kcp[p].rbuf, x \in Range(kcp[p].rbuf[i].data)
      PROVE  x \in UNION {Range(kcp[p].rbuf[j].data) : j \in DOMAIN kcp[p].rbuf}
  BY <1>2
<1>3. QED
  <2> DEFINE A == Range(got[p])
             B == Range(sess[p].pending)
             C == UNION {Range(kcp[p].rq[j]) : j \in DOMAIN kcp[p].rq}
             E == UNION {Range(kcp[p].rbuf[j].data) : j \in DOMAIN kcp[p].rbuf}
  <2>1. Arrived(p) = A \cup B \cup C \cup E
    BY Zenon DEF Arrived
  <2>2. /\ \A i \in DOMAIN kcp[p].rq : x \in Range(kcp[p].rq[i]) => x \in C
        /\ \A i \in DOMAIN kcp[p].rbuf : x \in Range(kcp[p].rbuf[i].data) => x \in E
    BY <1>1, <1>2, Zenon
  <2>3. (x \in A => x \in Arrived(p)) /\ (x \in B => x \in Arrived(p))
    BY <2>1, Zenon
  <2>4. (x \in C => x \in Arrived(p)) /\ (x \in E => x \in Arrived(p))
    BY <2>1, Zenon
  <2>5. QED
    BY <2>2, <2>3, <2>4, Zenon

LEMMA RangeHas ==
  ASSUME NEW v \in Seq(Nat), NEW j \in 1 .. Len(v)
  PROVE  v[j] \in Range(v)
BY DEF Range

\* What an end that is not closed has freed is in what the other end has got.
LEMMA FreedArrives ==
  ASSUME IInv, NEW e \in Side, ~sess[e].die, NEW x \in Freed(e)
  PROVE  x \in Arrived(Peer(e))
<1> DEFINE p == Peer(e)
           k == kcp[e]
           m == kcp[p]
           s == sess[p]
           g == got[p]
           w == written[e]
<1>1. PICK D \in [Side -> Seq(Seq(Nat))] : Whole(kcp, net, sess, written, got, D)
  BY DEF IInv, Holds
<1> DEFINE d == D[e]
           H == Have(m)
<1>2. p \in Side /\ Peer(p) = e
  BY TwoEnds
<1>3. EndOk(k, sess[e], w, got[e], d, D[p], H, MaxBytes[e]) /\ Few(d)
  BY <1>1, WholeTypes, EndFaces DEF Faces
<1>4. EndOk(m, s, written[p], g, D[p], d, Have(k), MaxBytes[p])
  BY <1>1, <1>2, WholeTypes
<1>5. /\ x \in 1 .. w
      /\ \A i \in DOMAIN k.queue : x \notin Range(k.queue[i])
      /\ \A i \in DOMAIN k.buf : x \notin Range(k.buf[i].data)
  BY FreedIs, Zenon
<1>6. /\ x \in Range(g) => x \in Arrived(p)
      /\ x \in Range(s.pending) => x \in Arrived(p)
      /\ \A i \in DOMAIN m.rq : x \in Range(m.rq[i]) => x \in Arrived(p)
      /\ \A i \in DOMAIN m.rbuf : x \in Range(m.rbuf[i].data) => x \in Arrived(p)
  BY ArrivedIs, Zenon
<1>7. ~sess[e].die
  OBVIOUS
<1> HIDE DEF p, k, m, s, g, w, d, H
<1>8. /\ k \in KcpT /\ m \in KcpT /\ s \in SessT /\ w \in Nat /\ g \in Seq(Nat)
      /\ Sends(k, d, H, FALSE) /\ Receives(m, d) /\ Reader(m, s, g, d)
      /\ Chain(d, 0) /\ Chain(k.queue, Size(d)) /\ Size(d) + Size(k.queue) = w
  BY <1>3, <1>4, <1>7 DEF EndOk, Sound, Writer, Sends
<1>9. /\ \A v : v \in Seq(Nat) => \A j \in 1 .. Len(v) : v[j] \in Range(v)
      /\ DOMAIN k.queue = 1 .. Len(k.queue) /\ DOMAIN k.buf = 1 .. Len(k.buf)
      /\ DOMAIN m.rq = 1 .. Len(m.rq) /\ DOMAIN m.rbuf = 1 .. Len(m.rbuf)
      /\ d \in Seq(Seq(Nat)) /\ k.queue \in Seq(Seq(Nat)) /\ s.pending \in Seq(Nat)
      /\ Size(d) \in Nat /\ Size(k.queue) \in Nat
  <2>1. ASSUME NEW v \in Seq(Nat), NEW j \in 1 .. Len(v) PROVE v[j] \in Range(v)
    BY RangeHas
  <2>2. d \in Seq(Seq(Nat)) /\ k.queue \in Seq(Seq(Nat))
    BY <1>8 DEF Chain
  <2>3. s.pending \in Seq(Nat)
    BY <1>8 DEF SessT
  <2>4. /\ DOMAIN k.queue = 1 .. Len(k.queue) /\ DOMAIN k.buf = 1 .. Len(k.buf)
        /\ DOMAIN m.rq = 1 .. Len(m.rq) /\ DOMAIN m.rbuf = 1 .. Len(m.rbuf)
    BY <1>8, KcpFields
  <2>5. Size(d) \in Nat /\ Size(k.queue) \in Nat
    BY <2>2, EndsFacts
  <2>6. QED
    BY <2>1, <2>2, <2>3, <2>4, <2>5
<1>10. x \in Nat /\ x >= 1 /\ x <= Size(d)
  <2>1. x \in Nat /\ x >= 1 /\ x <= w
    BY <1>5, <1>8
  <2>2. CASE x > Size(d)
    <3>1. Size(d) < x /\ x <= Size(d) + Size(k.queue)
      BY <1>8, <2>1, <2>2
    <3> DEFINE c == k.queue
               n == Size(d)
    <3>2. Chain(c, n) /\ n \in Nat /\ n < x /\ x <= n + Size(c) /\ c \in Seq(Seq(Nat))
      BY <1>8, <1>9, <3>1
    <3>3. \A i \in 1 .. Len(c) : x \notin Range(c[i])
      BY <1>5, <1>9
    <3> HIDE DEF c, n
    <3>4. PICK i \in 1 .. Len(c) :
            /\ n + Ends(c)[i - 1] < x /\ x <= n + Ends(c)[i]
            /\ \E j \in 1 .. Len(c[i]) : c[i][j] = x
      <4>1. x \in Nat
        BY <2>1
      <4> HIDE DEF p, k, m, s, g, w, d, H
      <4>2. n \in Nat /\ Chain(c, n) /\ n < x /\ x <= n + Size(c)
        BY <3>2
      <4>3. QED
        BY <4>1, <4>2, ChainHolds
    <3>5. c[i] \in Seq(Nat)
      BY <3>2
    <3>6. x \in Range(c[i])
      BY <1>9, <3>4, <3>5
    <3>7. QED
      BY <3>3, <3>6
  <2>3. QED
    BY <1>9, <2>1, <2>2
<1>11. PICK i \in 1 .. Len(d) : x <= Ends(d)[i] /\ \E j \in 1 .. Len(d[i]) : d[i][j] = x
  <2>1. PICK i \in 1 .. Len(d) :
          /\ 0 + Ends(d)[i - 1] < x /\ x <= 0 + Ends(d)[i]
          /\ \E j \in 1 .. Len(d[i]) : d[i][j] = x
    <3> DEFINE n == 0
    <3>1. n \in Nat /\ n < x /\ x <= n + Size(d) /\ Chain(d, n)
      BY <1>8, <1>9, <1>10
    <3> HIDE DEF n
    <3>2. \E i \in 1 .. Len(d) :
            /\ n + Ends(d)[i - 1] < x /\ x <= n + Ends(d)[i]
            /\ \E j \in 1 .. Len(d[i]) : d[i][j] = x
      BY <1>10, <3>1, ChainHolds
    <3>3. QED
      BY <3>2 DEF n
  <2>2. i \in 0 .. Len(d)
    OBVIOUS
  <2>3. Ends(d)[i] \in Nat
    BY <1>9, <2>2, EndsFacts
  <2>4. x <= Ends(d)[i]
    BY <2>1, <2>3
  <2>5. QED
    BY <2>1, <2>4
<1>12. x \in Range(d[i])
  <2>1. d[i] \in Seq(Nat)
    BY <1>9
  <2>2. QED
    BY <1>9, <1>11, <2>1
<1> DEFINE q == i - 1
<1>13. q \in Nat /\ q < Len(d) /\ q + 1 = i
  BY <1>9
<1> HIDE DEF q
<1>14. q \in H
  <2>1. SUFFICES ASSUME q \notin H PROVE FALSE
    OBVIOUS
  <2>2. PICK b \in 1 .. Len(k.buf) : k.buf[b].data = d[q + 1]
    BY <1>3, <1>8, <1>13, <2>1, SendsLeft
  <2>3. QED
    BY <1>5, <1>9, <1>12, <1>13, <2>2
<1>15. \/ x \in 1 .. Len(g) /\ g[x] = x
       \/ x - Len(g) \in 1 .. Len(s.pending) /\ s.pending[x - Len(g)] = x
       \/ \E j \in 1 .. Len(m.rq) : m.rq[j] = d[q + 1]
       \/ \E j \in 1 .. Len(m.rbuf) : m.rbuf[j].data = d[q + 1]
  <2>1. q \in Have(m)
    BY <1>14 DEF H
  <2>2. x <= Ends(d)[q + 1]
    BY <1>11, <1>13
  <2>3. QED
    BY <1>3, <1>8, <1>10, <1>13, <2>1, <2>2, HaveKept
<1>16. ASSUME x \in 1 .. Len(g) /\ g[x] = x
       PROVE  x \in Arrived(p)
  BY <1>6, <1>8, <1>9, <1>16
<1>17. ASSUME x - Len(g) \in 1 .. Len(s.pending) /\ s.pending[x - Len(g)] = x
       PROVE  x \in Arrived(p)
  BY <1>6, <1>9, <1>17
<1>18. ASSUME \E j \in 1 .. Len(m.rq) : m.rq[j] = d[q + 1]
       PROVE  x \in Arrived(p)
  BY <1>6, <1>9, <1>12, <1>13, <1>18
<1>19. ASSUME \E j \in 1 .. Len(m.rbuf) : m.rbuf[j].data = d[q + 1]
       PROVE  x \in Arrived(p)
  BY <1>6, <1>9, <1>12, <1>13, <1>19
<1>20. x \in Arrived(p)
  BY <1>15, <1>16, <1>17, <1>18, <1>19
<1>21. QED
  BY <1>20 DEF p

\* No byte is forgotten by its sender before it has reached the other end.
THEOREM NothingFreedEarly == Spec => []FreedHasArrived
<1>1. ASSUME IInv, NEW e \in Side, ~sess[e].die
      PROVE  Freed(e) \subseteq Arrived(Peer(e))
  BY <1>1, FreedArrives
<1>2. IInv => FreedHasArrived
  BY <1>1 DEF FreedHasArrived
<1>3. QED
  BY <1>2, KcpInvariant, PTL

\* What was read is a prefix of what was written.
Reached(w, g, M) ==
  /\ w \in Nat /\ g \in Seq(Nat) /\ Len(g) <= w /\ w <= M /\ M \in Nat
  /\ \A i \in 1 .. Len(g) : g[i] = i

LEMMA SeqsEqual ==
  ASSUME NEW a \in Seq(Nat), NEW b \in Seq(Nat), Len(a) = Len(b), \A i \in 1 .. Len(a) : a[i] = b[i]
  PROVE  a = b
<1> DEFINE n == Len(a)
<1>1. n \in Nat /\ a = [i \in 1 .. n |-> a[i]]
  OBVIOUS
<1>2. b = [i \in 1 .. n |-> b[i]]
  OBVIOUS
<1> HIDE DEF n
<1>3. \A i \in 1 .. n : a[i] = b[i]
  BY DEF n
<1>4. [i \in 1 .. n |-> a[i]] = [i \in 1 .. n |-> b[i]]
  BY <1>3
<1>5. QED
  BY <1>1, <1>2, <1>4, Zenon

LEMMA ReachedOnly ==
  ASSUME NEW w, NEW g, NEW M, NEW v, NEW h, NEW N, Reached(w, g, M), Reached(v, h, N),
         Len(g) <= Len(h)
  PROVE  h = g \o [i \in 1 .. Len(h) - Len(g) |-> Len(g) + i]
<1> DEFINE n == Len(h) - Len(g)
           r == [i \in 1 .. n |-> Len(g) + i]
           c == g \o r
<1>1. n \in Nat /\ Len(g) \in Nat /\ Len(h) \in Nat /\ Len(g) + n = Len(h)
  BY DEF Reached
<1>2. r \in Seq(Nat) /\ Len(r) = n /\ \A i \in 1 .. n : r[i] = Len(g) + i
  BY <1>1
<1> HIDE DEF n, r
<1>3. /\ Len(c) = Len(h) /\ c \in Seq(Nat)
      /\ \A i \in 1 .. Len(g) : c[i] = g[i]
      /\ \A i \in 1 .. n : c[Len(g) + i] = r[i]
  <2>1. Joins(g, r, c, Nat)
    <3>1. g \in Seq(Nat) /\ r \in Seq(Nat)
      BY <1>2 DEF Reached
    <3>2. QED
      BY <3>1, Joined, Zenon
  <2> HIDE DEF c
  <2>2. QED
    BY <1>1, <1>2, <2>1 DEF Joins
<1> HIDE DEF c
<1>4. ASSUME NEW i \in 1 .. Len(h)
      PROVE  c[i] = h[i]
  <2>1. h[i] = i
    BY DEF Reached
  <2>2. CASE i <= Len(g)
    <3>1. i \in 1 .. Len(g)
      BY <1>1, <2>2
    <3>2. c[i] = g[i] /\ g[i] = i
      BY <1>3, <3>1 DEF Reached
    <3>3. QED
      BY <2>1, <3>2
  <2>3. CASE i > Len(g)
    <3> DEFINE j == i - Len(g)
    <3>1. j \in 1 .. n /\ Len(g) + j = i
      BY <1>1, <2>3
    <3> HIDE DEF j
    <3>2. QED
      BY <1>2, <1>3, <2>1, <3>1
  <2>4. QED
    BY <1>1, <2>2, <2>3
<1>5. h \in Seq(Nat)
  BY DEF Reached
<1>6. c = h
  <2>1. \A i \in 1 .. Len(c) : c[i] = h[i]
    BY <1>3, <1>4
  <2>2. QED
    BY <1>3, <1>5, <2>1, SeqsEqual
<1>7. QED
  BY <1>6 DEF c, r, n

LEMMA StreamNow ==
  ASSUME NEW K, NEW N, NEW S, NEW W, NEW G, Holds(K, N, S, W, G), NEW e \in Side
  PROVE  Reached(W[e], G[Peer(e)], MaxBytes[e])
<1> DEFINE p == Peer(e)
           k == K[e]
           m == K[p]
           g == G[p]
           w == W[e]
<1>1. PICK D \in [Side -> Seq(Seq(Nat))] : Whole(K, N, S, W, G, D)
  BY DEF Holds
<1> DEFINE d == D[e]
<1>2. p \in Side /\ Peer(p) = e
  BY TwoEnds
<1>3. EndOk(k, S[e], w, G[e], d, D[p], Have(m), MaxBytes[e])
  BY <1>1, WholeTypes
<1>4. EndOk(m, S[p], W[p], g, D[p], d, Have(k), MaxBytes[p])
  BY <1>1, <1>2, WholeTypes
<1>5. Few(d)
  BY <1>1, EndFaces DEF Faces
<1> DEFINE s == S[p]
<1> HIDE DEF p, k, m, g, w, d, s
<1>6. /\ w \in Nat /\ g \in Seq(Nat) /\ s \in SessT /\ k \in KcpT /\ m \in KcpT
      /\ Receives(m, d) /\ Reader(m, s, g, d)
      /\ k.queue \in Seq(Seq(Nat)) /\ d \in Seq(Seq(Nat))
      /\ Size(d) + Size(k.queue) <= w /\ w <= MaxBytes[e]
  BY <1>3, <1>4 DEF EndOk, Sound, Writer, Chain, s
<1> DEFINE t == Taken(m)
<1>7. t \in 0 .. Len(d) /\ Len(d) \in Nat
  <2> DEFINE r == Abs(m.rnxt)
             l == Len(m.rq)
  <2>1. r \in Nat /\ l \in Nat /\ t = r - l /\ l <= r /\ r <= Len(d) /\ Len(d) \in Nat
    BY <1>5, <1>6, KcpNumbers, KcpFields, FewFacts DEF Taken, Receives
  <2> HIDE DEF r, l, t
  <2>2. QED
    BY <2>1
<1> HIDE DEF t
<1>8. Ends(d)[t] \in Nat /\ Size(d) \in Nat /\ Size(k.queue) \in Nat
  BY <1>6, <1>7, EndsFacts
<1>9. Ends(d)[t] <= Size(d)
  <2>1. Len(d) \in t .. Len(d)
    BY <1>7
  <2>2. Ends(d)[t] <= Ends(d)[Len(d)]
    BY <1>6, <1>7, <2>1, EndsRise
  <2>3. QED
    BY <2>2 DEF Size
<1>10. /\ Len(g) + Len(s.pending) = Ends(d)[t]
       /\ \A i \in 1 .. Len(g) : g[i] = i
  BY <1>6 DEF Reader, t
<1>11. Len(g) \in Nat /\ Len(s.pending) \in Nat
  BY <1>6 DEF SessT
<1>12. Len(g) <= w
  <2> DEFINE a == Len(g)
             b == Len(s.pending)
             x == Ends(d)[t]
             y == Size(d)
             z == Size(k.queue)
  <2>1. /\ a \in Nat /\ b \in Nat /\ x \in Nat /\ y \in Nat /\ z \in Nat /\ w \in Nat
        /\ a + b = x /\ x <= y /\ y + z <= w
    BY <1>6, <1>8, <1>9, <1>10, <1>11
  <2> HIDE DEF a, b, x, y, z
  <2>2. a <= w
    BY <2>1
  <2>3. QED
    BY <2>2 DEF a
<1>13. MaxBytes[e] \in Nat
  BY KcpAssumption
<1>14. QED
  BY <1>6, <1>10, <1>12, <1>13 DEF Reached, p, g, w

\* Which of written and got an action changes, and how
LEMMA ReadGrows ==
  ASSUME IInv, NEW e \in Side, NEW b \in ReadSizes, Read(e, b)
  PROVE  written' = written /\ \A t \in Side : Len(got[t]) <= Len(got'[t]) /\ (t # e => got'[t] = got[t])
<1> DEFINE s == sess[e]
           k == kcp[e]
           msg == IF s.pending # <<>> THEN s.pending ELSE Head(k.rq)
           n == IF b < Len(msg) THEN b ELSE Len(msg)
           c == SubSeq(msg, 1, n)
           h == got[e] \o c
<1>1. PICK D \in [Side -> Seq(Seq(Nat))] : Whole(kcp, net, sess, written, got, D)
  BY DEF IInv, Holds
<1>2. k \in KcpT /\ s \in SessT /\ got \in [Side -> Seq(Nat)]
  BY <1>1, WholeTypes
<1>3. /\ s.pending # <<>> \/ k.rq # <<>>
      /\ got' = [got EXCEPT ![e] = h] /\ written' = written
  BY DEF Read
<1>4. msg \in Seq(Nat)
  <2>1. s.pending \in Seq(Nat) /\ k.rq \in Seq(Seq(Nat))
    BY <1>2, KcpFields DEF SessT
  <2>2. k.rq # <<>> => Head(k.rq) \in Seq(Nat)
    BY <2>1
  <2>3. QED
    BY <1>3, <2>1, <2>2
<1>5. b \in Nat
  BY KcpAssumption
<1> HIDE DEF msg
<1>6. n \in 0 .. Len(msg)
  BY <1>4, <1>5
<1> HIDE DEF n
<1>7. c \in Seq(Nat)
  BY <1>4, <1>6, Cut1, Zenon
<1> HIDE DEF c
<1>8. Len(got[e]) <= Len(h)
  <2> DEFINE g == got[e]
  <2>1. g \in Seq(Nat)
    BY <1>2
  <2> HIDE DEF g
  <2>2. Len(g \o c) = Len(g) + Len(c) /\ Len(g) \in Nat /\ Len(c) \in Nat
    BY <1>7, <2>1
  <2>3. Len(g) <= Len(g \o c)
    BY <2>2
  <2>4. QED
    BY <2>3 DEF g
<1> HIDE DEF h
<1>9. \A t \in Side : Len(got[t]) \in Nat
  BY <1>2
<1>10. got'[e] = h /\ \A t \in Side : t # e => got'[t] = got[t]
  BY <1>2, <1>3
<1>11. QED
  BY <1>3, <1>8, <1>9, <1>10

\* In one direction a step accepts bytes, or reads the next ones, or neither.
Streams(w, g, v, h, M) ==
  \/ v = w /\ h = g
  \/ \E n \in 1 .. M : w + n <= M /\ v = w + n /\ h = g
  \/ \E n \in 1 .. M :
       Len(g) + n <= w /\ h = g \o [i \in 1 .. n |-> Len(g) + i] /\ v = w

LEMMA StreamStep ==
  ASSUME NEW w, NEW g, NEW v, NEW h, NEW M, Reached(w, g, M), Reached(v, h, M),
         \/ w <= v /\ h = g
         \/ v = w /\ Len(g) <= Len(h)
  PROVE  Streams(w, g, v, h, M)
<1> USE DEF Streams
<1>1. /\ w \in Nat /\ v \in Nat /\ M \in Nat /\ v <= M /\ w <= M
      /\ Len(g) \in Nat /\ Len(h) \in Nat /\ Len(h) <= v
      /\ g \in Seq(Nat) /\ h \in Seq(Nat)
  BY DEF Reached
<1>2. CASE w <= v /\ h = g
  <2>1. CASE w = v
    BY <1>2, <2>1
  <2>2. CASE w # v
    <3>1. v - w \in 1 .. M /\ w + (v - w) <= M /\ v = w + (v - w)
      BY <1>1, <1>2, <2>2
    <3>2. QED
      BY <1>2, <3>1
  <2>3. QED
    BY <2>1, <2>2
<1>3. CASE v = w /\ Len(g) <= Len(h)
  <2>1. CASE Len(g) = Len(h)
    <3>1. \A i \in 1 .. Len(h) : h[i] = g[i]
      BY <2>1 DEF Reached
    <3>2. h = g
      BY <1>1, <2>1, <3>1, SeqsEqual
    <3>3. QED
      BY <1>3, <3>2
  <2>2. CASE Len(g) # Len(h)
    <3> DEFINE n == Len(h) - Len(g)
    <3>1. n \in 1 .. M /\ Len(g) + n <= w
      BY <1>1, <1>3, <2>2
    <3>2. h = g \o [i \in 1 .. n |-> Len(g) + i]
      BY <1>3, ReachedOnly
    <3> HIDE DEF n
    <3>3. QED
      BY <1>3, <3>1, <3>2
  <2>3. QED
    BY <2>1, <2>2
<1>4. QED
  BY <1>2, <1>3

\* What a step of either session does to the bytes from e to the other end
LEMMA StepStreams ==
  ASSUME IInv, NEW t \in Side, Session(t), NEW e \in Side
  PROVE  \/ written[e] <= written'[e] /\ got'[Peer(e)] = got[Peer(e)]
         \/ written'[e] = written[e] /\ Len(got[Peer(e)]) <= Len(got'[Peer(e)])
<1> DEFINE Done == \/ written[e] <= written'[e] /\ got'[Peer(e)] = got[Peer(e)]
                   \/ written'[e] = written[e] /\ Len(got[Peer(e)]) <= Len(got'[Peer(e)])
<1>1. written[e] \in Nat /\ Peer(e) \in Side
  BY StreamNow, TwoEnds DEF Reached, IInv
<1>2. ASSUME UNCHANGED <<written, got>>
      PROVE  Done
  BY <1>1, <1>2
<1>3. ASSUME NEW i \in DOMAIN net[t], Deliver(t, i) PROVE Done
  BY <1>2, <1>3 DEF Deliver
<1>4. ASSUME RecvFails(t) \/ RecvStops(t) PROVE Done
  BY <1>2, <1>4 DEF RecvFails, RecvStops
<1>5. ASSUME Tick(t) PROVE Done
  BY <1>2, <1>5 DEF Tick, Flushed
<1>6. ASSUME NEW b \in ReadSizes, Read(t, b) PROVE Done
  BY <1>1, <1>6, ReadGrows
<1>7. ASSUME ReadWaits(t) \/ ReadFails(t) PROVE Done
  BY <1>2, <1>7 DEF ReadWaits, ReadFails
<1>8. ASSUME NEW w \in Writes, Write(t, w) PROVE Done
  <2>1. SumOf(w) \in Nat
    BY CountsNat
  <2>2. written' = [written EXCEPT ![t] = written[t] + SumOf(w)] /\ got' = got
    BY <1>8 DEF Write
  <2>3. \A f \in Side : written[f] \in Nat
    BY StreamNow DEF Reached, IInv
  <2>4. written \in [Side -> Nat]
    <3>1. PICK D \in [Side -> Seq(Seq(Nat))] : Whole(kcp, net, sess, written, got, D)
      BY DEF IInv, Holds
    <3>2. QED
      BY <3>1, WholeTypes
  <2>5. written[e] <= written'[e]
    BY <2>1, <2>2, <2>3, <2>4
  <2>6. QED
    BY <2>2, <2>5
<1>9. ASSUME NEW w \in Writes, WriteWaits(t, w) PROVE Done
  BY <1>2, <1>9 DEF WriteWaits
<1>10. ASSUME WriteFails(t) PROVE Done
  BY <1>2, <1>10 DEF WriteFails
<1>11. ASSUME Close(t) PROVE Done
  BY <1>2, <1>11 DEF Close
<1> HIDE DEF Done
<1>12. Done
  BY <1>3, <1>4, <1>5, <1>6, <1>7, <1>8, <1>9, <1>10, <1>11, Zenon DEF Session
<1>13. QED
  BY <1>12 DEF Done

\* Each direction between the two sessions is a reliable stream: the two
\* engines, the packets between them and the tasks implement ReliableStream.
THEOREM SessionsImplementStreams == Spec => StreamSpec
<1>1. Init => \A e \in Side : Stream(e)!Init
  BY TwoEnds DEF Init, Stream!Init
<1>2. IInv /\ IInv' /\ [Next]_vars =>
        \A e \in Side : [Stream(e)!Next]_<<written[e], got[Peer(e)]>>
  <2> SUFFICES ASSUME IInv, IInv', [Next]_vars, NEW e \in Side
               PROVE  [Stream(e)!Next]_<<written[e], got[Peer(e)]>>
    OBVIOUS
  <2> DEFINE w == written[e]
             g == got[Peer(e)]
             v == written'[e]
             h == got'[Peer(e)]
             M == MaxBytes[e]
  <2>1. Reached(w, g, M)
    <3>1. Holds(kcp, net, sess, written, got)
      BY DEF IInv
    <3>2. QED
      BY <3>1, StreamNow
  <2>2. Reached(v, h, M)
    <3>1. Holds(kcp', net', sess', written', got')
      BY DEF IInv
    <3>2. QED
      BY <3>1, StreamNow
  <2>3. \/ w <= v /\ h = g
        \/ v = w /\ Len(g) <= Len(h)
    <3>1. CASE Next
      BY <3>1, StepStreams DEF Next
    <3>2. CASE UNCHANGED vars
      <4>1. w \in Nat /\ v = w /\ h = g
        BY <2>1, <3>2 DEF vars, Reached
      <4>2. QED
        BY <4>1
    <3>3. QED
      BY <3>1, <3>2
  <2>4. Streams(w, g, v, h, M)
    <3> HIDE DEF w, g, v, h, M
    <3>1. QED
      BY <2>1, <2>2, <2>3, StreamStep
  <2>5. QED
    BY <2>4, Zenon DEF Streams, Stream!Next, Stream!Write, Stream!Read
<1>3. QED
  BY <1>1, <1>2, KcpInvariant, PTL DEF Spec, StreamSpec
=============================================================================

----------------------------- MODULE SmuxProofs -----------------------------
(***************************************************************************)
(* Proofs about Smux, for any number of streams, windows, buffers and      *)
(* frame sizes.                                                            *)
(*                                                                         *)
(* What one end writes on a stream travels along a path: its send heap,    *)
(* the send loop's hand, the pipe.  The invariant says of each stream and  *)
(* direction that the bytes in the peer's buffers and along the path are   *)
(* the next ones, one after the other, which control frames the path may   *)
(* hold and what its window updates say; and of each end that its bucket   *)
(* and what it buffers make up the receive buffer.                         *)
(***************************************************************************)
EXTENDS Smux, SumTheorems, SequenceTheorems

-----------------------------------------------------------------------------
(* The two ends.                                                           *)

LEMMA Ends ==
  ASSUME SmuxAssumption, NEW s \in Side
  PROVE  /\ Peer(s) \in Side /\ Peer(s) # s /\ Peer(Peer(s)) = s
         /\ \A t \in Side : t = s \/ t = Peer(s)
<1>1. IsFiniteSet(Side) /\ Cardinality(Side) = 2
  BY DEF SmuxAssumption
<1>2. IsFiniteSet(Side \ {s}) /\ Cardinality(Side \ {s}) = 1
  BY <1>1, FS_RemoveElement
<1>3. PICK t : Side \ {s} = {t}
  BY <1>2, FS_Singleton
<1>4. Side = {s, t} /\ s # t
  BY <1>3
<1>5. Peer(s) = t /\ Peer(t) = s
  BY <1>4 DEF Peer
<1>6. QED
  BY <1>4, <1>5

-----------------------------------------------------------------------------
(* Frames under way, in the order in which they will arrive if nothing     *)
(* overtakes.                                                              *)

Frames ==
  [cmd : {"NOP"}, sid : {0}, data : {<<>>}]
    \cup [cmd : {"SYN", "FIN"}, sid : Stream, data : {<<>>}]
    \cup [cmd : {"PSH"}, sid : Stream, data : Seq(Nat)]
    \cup [cmd : {"UPD"}, sid : Stream, data : Nat]

Path(s) == pipe[s] \o (sess[Peer(s)].hand \o sess[Peer(s)].queue)

Is(f, cmd, i) == f.cmd = cmd /\ f.sid = i
Touches(f, cmds, i) == f.cmd \in cmds /\ f.sid = i
Overtakes(f, g) == f.cmd \in Ctrl /\ g.cmd \notin Ctrl

\* The frames of stream i with these commands are the same on both paths, and
\* in the same order but for control frames that overtook data.
Keeps(old, new, cmds, i) ==
  \E g \in [DOMAIN new -> Nat] :
    /\ \A k \in DOMAIN new : Touches(new[k], cmds, i) =>
         g[k] \in DOMAIN old /\ old[g[k]] = new[k]
    /\ \A k, l \in DOMAIN new :
         /\ k < l /\ Touches(new[k], cmds, i) /\ Touches(new[l], cmds, i)
         /\ ~ Overtakes(new[k], new[l])
         => g[k] < g[l]
    /\ \A j \in DOMAIN old : Touches(old[j], cmds, i) =>
         \E k \in DOMAIN new : g[k] = j /\ new[k] = old[j]

LEMMA KeepsSame ==
  ASSUME NEW path \in Seq(Frames), NEW cmds, NEW i
  PROVE  Keeps(path, path, cmds, i)
<1> DEFINE g == [k \in DOMAIN path |-> k]
<1>1. g \in [DOMAIN path -> Nat]
  OBVIOUS
<1>2. QED
  BY <1>1 DEF Keeps

\* A frame that does not matter was asked for.
LEMMA KeepsAppend ==
  ASSUME NEW path \in Seq(Frames), NEW f \in Frames, NEW cmds, NEW i,
         ~ Touches(f, cmds, i)
  PROVE  Keeps(path, Append(path, f), cmds, i)
<1> DEFINE new == Append(path, f)
           g == [k \in DOMAIN new |-> k]
<1>1. /\ DOMAIN path = 1 .. Len(path) /\ Len(path) \in Nat
      /\ DOMAIN new = 1 .. Len(path) + 1
      /\ \A k \in 1 .. Len(path) : new[k] = path[k]
      /\ new[Len(path) + 1] = f
  OBVIOUS
<1> HIDE DEF new
<1>2. g \in [DOMAIN new -> Nat]
  BY <1>1
<1>3. \A k \in DOMAIN new : k \in DOMAIN path \/ k = Len(path) + 1
  BY <1>1
<1>4. \A k \in DOMAIN new : Touches(new[k], cmds, i) => k \in DOMAIN path
  BY <1>1, <1>3
<1>5. /\ \A k \in DOMAIN new : Touches(new[k], cmds, i) =>
           g[k] \in DOMAIN path /\ path[g[k]] = new[k]
      /\ \A k, l \in DOMAIN new : k < l => g[k] < g[l]
  BY <1>1, <1>4
<1>6. \A j \in DOMAIN path : j \in DOMAIN new /\ g[j] = j /\ new[j] = path[j]
  BY <1>1
<1>7. QED
  BY <1>2, <1>5, <1>6 DEF Keeps, new

\* A frame that does not matter arrived.
LEMMA KeepsTail ==
  ASSUME NEW path \in Seq(Frames), path # <<>>, NEW cmds, NEW i,
         ~ Touches(path[1], cmds, i)
  PROVE  Keeps(path, Tail(path), cmds, i)
<1> DEFINE new == Tail(path)
           g == [k \in DOMAIN new |-> k + 1]
<1>1. /\ DOMAIN path = 1 .. Len(path) /\ Len(path) \in Nat /\ Len(path) >= 1
      /\ DOMAIN new = 1 .. Len(path) - 1
      /\ \A k \in 1 .. Len(path) - 1 : new[k] = path[k + 1]
  OBVIOUS
<1> HIDE DEF new
<1>2. g \in [DOMAIN new -> Nat]
  BY <1>1
<1>3. \A j \in DOMAIN path : j = 1 \/ (j - 1 \in DOMAIN new /\ (j - 1) + 1 = j)
  BY <1>1
<1>4. \A j \in DOMAIN path : Touches(path[j], cmds, i) =>
        j - 1 \in DOMAIN new /\ g[j - 1] = j /\ new[j - 1] = path[j]
  BY <1>1, <1>3
<1>5. \A k \in DOMAIN new : g[k] \in DOMAIN path /\ path[g[k]] = new[k]
  BY <1>1
<1>6. \A k, l \in DOMAIN new : k < l => g[k] < g[l]
  BY <1>1
<1>7. QED
  BY <1>2, <1>4, <1>5, <1>6 DEF Keeps, new

\* The heap: a control frame if there is one, the first of its class.
LEMMA TopOfHeap ==
  ASSUME NEW queue \in Seq(Frames), queue # <<>>
  PROVE  LET k == HeapTop(queue)
         IN  /\ k \in DOMAIN queue
             /\ \A j \in DOMAIN queue : j < k => Overtakes(queue[k], queue[j])
<1> DEFINE first == {k \in DOMAIN queue : queue[k].cmd \in Ctrl}
           among == IF first = {} THEN DOMAIN queue ELSE first
<1>1. DOMAIN queue = 1 .. Len(queue) /\ Len(queue) \in Nat /\ Len(queue) >= 1
  OBVIOUS
<1>2. among \in SUBSET Nat /\ among # {} /\ among \subseteq DOMAIN queue
  BY <1>1
<1> HIDE DEF among
<1>3. \E k \in among : \A j \in among : k <= j
  BY <1>2, LeastNatural
<1>4. HeapTop(queue) = CHOOSE k \in among : \A j \in among : k <= j
  BY DEF HeapTop, among
<1>5. /\ HeapTop(queue) \in among
      /\ \A j \in among : HeapTop(queue) <= j
  BY <1>3, <1>4
<1> DEFINE k == HeapTop(queue)
<1>6. k \in DOMAIN queue /\ k \in Nat
  BY <1>2, <1>5
<1> HIDE DEF k
<1>7. ASSUME NEW j \in DOMAIN queue, j < k
      PROVE  Overtakes(queue[k], queue[j])
  <2>1. j \in Nat /\ j \notin among
    BY <1>1, <1>5, <1>6, <1>7 DEF k
  <2>2. among = first /\ j \notin first
    BY <2>1 DEF among
  <2>3. QED
    BY <1>5, <2>2 DEF Overtakes, k
<1>8. QED
  BY <1>6, <1>7 DEF k

\* The elements of a concatenation
LEMMA Concat ==
  ASSUME NEW a \in Seq(Frames), NEW b \in Seq(Frames)
  PROVE  /\ a \o b \in Seq(Frames)
         /\ Len(a) \in Nat /\ Len(b) \in Nat /\ Len(a \o b) = Len(a) + Len(b)
         /\ DOMAIN (a \o b) = 1 .. Len(a) + Len(b)
         /\ \A x \in 1 .. Len(a) : (a \o b)[x] = a[x]
         /\ \A x \in 1 .. Len(b) : (a \o b)[Len(a) + x] = b[x]
<1>1. /\ a \o b \in Seq(Frames)
      /\ Len(a) \in Nat /\ Len(b) \in Nat /\ Len(a \o b) = Len(a) + Len(b)
      /\ DOMAIN (a \o b) = 1 .. Len(a) + Len(b)
  OBVIOUS
<1>2. \A x \in 1 .. Len(a) : (a \o b)[x] = a[x]
  OBVIOUS
<1>3. ASSUME NEW x \in 1 .. Len(b)
      PROVE  (a \o b)[Len(a) + x] = b[x]
  <2>1. /\ Len(a) + x \in 1 .. Len(a) + Len(b) /\ ~ (Len(a) + x <= Len(a))
        /\ (Len(a) + x) - Len(a) = x
    BY <1>1
  <2>2. QED
    BY <2>1
<1>4. QED
  BY <1>1, <1>2, <1>3

\* The send loop takes the top of the heap.
LEMMA KeepsTaken ==
  ASSUME NEW q \in Seq(Frames), NEW queue \in Seq(Frames), NEW k \in DOMAIN queue,
         \A j \in DOMAIN queue : j < k => Overtakes(queue[k], queue[j]),
         NEW cmds, NEW i
  PROVE  /\ RemoveAt(queue, k) \in Seq(Frames)
         /\ Keeps(q \o (<<>> \o queue), q \o (<<queue[k]>> \o RemoveAt(queue, k)), cmds, i)
<1> DEFINE m == Len(q)
           n == Len(queue)
           rest == RemoveAt(queue, k)
           old == q \o (<<>> \o queue)
           new == q \o (<<queue[k]>> \o rest)
           g == [x \in DOMAIN new |->
                   IF x <= m THEN x
                   ELSE IF x = m + 1 THEN m + k
                   ELSE IF x <= m + k THEN x - 1 ELSE x]
<1>1. /\ m \in Nat /\ n \in Nat /\ k \in 1 .. n
      /\ DOMAIN queue = 1 .. n /\ queue[k] \in Frames
  OBVIOUS
<1>2. /\ rest \in Seq(Frames) /\ Len(rest) = n - 1
      /\ \A j \in 1 .. n - 1 : rest[j] = IF j < k THEN queue[j] ELSE queue[j + 1]
  <2> DEFINE a == SubSeq(queue, 1, k - 1)
             b == SubSeq(queue, k + 1, n)
  <2>1. /\ a \in Seq(Frames) /\ Len(a) = k - 1
        /\ \A j \in 1 .. k - 1 : a[j] = queue[j]
    BY <1>1
  <2>2. /\ b \in Seq(Frames) /\ Len(b) = n - k
        /\ \A j \in 1 .. n - k : b[j] = queue[k + j]
    BY <1>1
  <2> HIDE DEF a, b
  <2>3. /\ a \o b \in Seq(Frames) /\ Len(a \o b) = n - 1
        /\ \A j \in 1 .. k - 1 : (a \o b)[j] = a[j]
        /\ \A j \in 1 .. n - k : (a \o b)[(k - 1) + j] = b[j]
    <3>1. (k - 1) + (n - k) = n - 1
      BY <1>1
    <3>2. /\ a \o b \in Seq(Frames) /\ Len(a \o b) = Len(a) + Len(b)
          /\ \A x \in 1 .. Len(a) : (a \o b)[x] = a[x]
          /\ \A x \in 1 .. Len(b) : (a \o b)[Len(a) + x] = b[x]
      BY <2>1, <2>2, Concat, Zenon
    <3>3. QED
      BY <2>1, <2>2, <3>1, <3>2
  <2>4. ASSUME NEW j \in 1 .. n - 1
        PROVE  (a \o b)[j] = IF j < k THEN queue[j] ELSE queue[j + 1]
    <3>1. CASE j < k
      BY <1>1, <2>1, <2>3, <3>1
    <3>2. CASE ~ (j < k)
      <4>1. /\ j - (k - 1) \in 1 .. n - k /\ k + (j - (k - 1)) = j + 1
            /\ (k - 1) + (j - (k - 1)) = j
        BY <1>1, <3>2
      <4>2. (a \o b)[(k - 1) + (j - (k - 1))] = b[j - (k - 1)]
        BY <2>3, <4>1
      <4>3. b[j - (k - 1)] = queue[k + (j - (k - 1))]
        BY <2>2, <4>1
      <4>4. QED
        BY <3>2, <4>1, <4>2, <4>3
    <3>3. QED
      BY <3>1, <3>2
  <2>5. QED
    BY <2>3, <2>4 DEF RemoveAt, a, b
<1> HIDE DEF rest
<1>3. /\ old = q \o queue /\ old \in Seq(Frames) /\ DOMAIN old = 1 .. m + n
      /\ \A x \in 1 .. m : old[x] = q[x]
      /\ \A x \in 1 .. n : old[m + x] = queue[x]
  BY <1>1
<1>4. /\ <<queue[k]>> \o rest \in Seq(Frames) /\ Len(<<queue[k]>> \o rest) = n
      /\ (<<queue[k]>> \o rest)[1] = queue[k]
      /\ \A x \in 1 .. n - 1 : (<<queue[k]>> \o rest)[x + 1] = rest[x]
  <2>1. /\ <<queue[k]>> \in Seq(Frames) /\ Len(<<queue[k]>>) = 1
        /\ <<queue[k]>>[1] = queue[k]
    BY <1>1
  <2> DEFINE c == <<queue[k]>>
  <2> HIDE DEF c
  <2>2. /\ c \o rest \in Seq(Frames) /\ Len(c \o rest) = 1 + (n - 1)
        /\ \A x \in 1 .. 1 : (c \o rest)[x] = c[x]
        /\ \A x \in 1 .. n - 1 : (c \o rest)[1 + x] = rest[x]
    BY <1>2, <2>1, Concat DEF c
  <2>3. 1 + (n - 1) = n /\ \A x \in 1 .. n - 1 : 1 + x = x + 1
    BY <1>1
  <2>4. QED
    BY <2>1, <2>2, <2>3 DEF c
<1>5. /\ new \in Seq(Frames) /\ DOMAIN new = 1 .. m + n
      /\ \A x \in 1 .. m : new[x] = q[x]
      /\ new[m + 1] = queue[k]
      /\ \A x \in 1 .. n - 1 : new[m + (x + 1)] = rest[x]
  <2> DEFINE c == <<queue[k]>> \o rest
  <2>1. /\ c \in Seq(Frames) /\ Len(c) = n /\ c[1] = queue[k]
        /\ \A x \in 1 .. n - 1 : c[x + 1] = rest[x]
    BY <1>4
  <2> HIDE DEF c
  <2>2. /\ q \o c \in Seq(Frames) /\ DOMAIN (q \o c) = 1 .. m + n
        /\ \A x \in 1 .. m : (q \o c)[x] = q[x]
        /\ \A x \in 1 .. n : (q \o c)[m + x] = c[x]
    <3>1. /\ q \o c \in Seq(Frames) /\ DOMAIN (q \o c) = 1 .. Len(q) + Len(c)
          /\ \A x \in 1 .. Len(q) : (q \o c)[x] = q[x]
          /\ \A x \in 1 .. Len(c) : (q \o c)[Len(q) + x] = c[x]
      BY <2>1, Concat, Zenon
    <3>2. QED
      BY <2>1, <3>1
  <2>3. \A x \in 1 .. n - 1 : x + 1 \in 1 .. n
    BY <1>1
  <2>4. new = q \o c
    BY DEF c
  <2> HIDE DEF new
  <2>5. 1 \in 1 .. n
    BY <1>1
  <2>6. QED
    BY <2>1, <2>2, <2>3, <2>4, <2>5
<1> HIDE DEF old, new, m, n
<1>6. g \in [DOMAIN new -> Nat]
  BY <1>1, <1>5
<1>7. ASSUME NEW x \in DOMAIN new
      PROVE  g[x] \in DOMAIN old /\ old[g[x]] = new[x]
  <2>1. CASE x <= m
    BY <1>1, <1>3, <1>5, <2>1
  <2>2. CASE x = m + 1
    BY <1>1, <1>3, <1>5, <2>2
  <2>3. CASE x > m + 1 /\ x <= m + k
    <3> DEFINE y == x - m - 1
    <3>0. x \in Nat /\ k \in Nat /\ k <= n
      BY <1>1, <1>5
    <3>a. m \in Nat /\ n \in Nat /\ x > m + 1 /\ x <= m + k
      BY <1>1, <2>3
    <3>b. y \in Int /\ y >= 1 /\ y < k /\ y <= n - 1
      BY <3>0, <3>a
    <3>c. m + (y + 1) = x /\ m + y = x - 1
      BY <3>0, <3>a
    <3> HIDE DEF y
    <3>1. y \in 1 .. n - 1 /\ y < k /\ m + (y + 1) = x /\ m + y = x - 1
      BY <3>a, <3>b, <3>c
    <3>2. g[x] = m + y
      BY <1>1, <1>5, <2>3, <3>1
    <3>3. new[x] = rest[y] /\ rest[y] = queue[y] /\ old[m + y] = queue[y]
      <4>1. y \in 1 .. n
        BY <1>1, <3>1
      <4>2. new[m + (y + 1)] = rest[y] /\ rest[y] = queue[y] /\ old[m + y] = queue[y]
        BY <1>2, <1>3, <1>5, <3>1, <4>1
      <4>3. QED
        BY <3>1, <4>2
    <3>4. m + y \in DOMAIN old
      BY <1>1, <1>3, <3>1
    <3>5. QED
      BY <3>2, <3>3, <3>4
  <2>4. CASE x > m + k
    <3> DEFINE y == x - m - 1
    <3>1. y \in 1 .. n - 1 /\ ~ (y < k) /\ m + (y + 1) = x /\ y + 1 \in 1 .. n
      BY <1>1, <1>5, <2>4
    <3>2. g[x] = x
      BY <1>1, <1>5, <2>4
    <3>3. new[x] = rest[y] /\ rest[y] = queue[y + 1] /\ old[m + (y + 1)] = queue[y + 1]
      BY <1>1, <1>2, <1>3, <1>5, <3>1
    <3>4. QED
      BY <1>3, <1>5, <3>1, <3>2, <3>3
  <2>5. QED
    BY <1>1, <1>5, <2>1, <2>2, <2>3, <2>4
<1>8. ASSUME NEW x \in DOMAIN new, NEW y \in DOMAIN new, x < y,
             ~ Overtakes(new[x], new[y])
      PROVE  g[x] < g[y]
  <2>1. x \in Nat /\ y \in Nat /\ x <= m + n /\ y <= m + n /\ x >= 1
    BY <1>1, <1>5
  <2>2. CASE x = m + 1 /\ y <= m + k
    <3> DEFINE z == y - m - 1
    <3>1. z \in 1 .. n - 1 /\ z < k /\ m + (z + 1) = y /\ z \in DOMAIN queue
      BY <1>1, <1>8, <2>1, <2>2
    <3>2. new[y] = queue[z] /\ new[x] = queue[k]
      BY <1>2, <1>5, <2>2, <3>1
    <3>3. QED
      BY <1>8, <3>1, <3>2
  <2>3. CASE ~ (x = m + 1 /\ y <= m + k)
    BY <1>1, <1>5, <1>8, <2>1, <2>3
  <2>4. QED
    BY <2>2, <2>3
<1>9. ASSUME NEW j \in DOMAIN old
      PROVE  \E x \in DOMAIN new : g[x] = j
  <2>1. j \in 1 .. m + n
    BY <1>3
  <2>2. CASE j <= m \/ j > m + k
    <3>1. j \in DOMAIN new /\ g[j] = j
      BY <1>1, <1>5, <2>1, <2>2
    <3>2. QED
      BY <3>1
  <2>3. CASE j = m + k
    <3>1. m + 1 \in DOMAIN new /\ g[m + 1] = j
      BY <1>1, <1>5, <2>3
    <3>2. QED
      BY <3>1
  <2>4. CASE j > m /\ j < m + k
    <3>0. j \in Nat /\ k \in Nat /\ k <= n
      BY <1>1, <2>1
    <3>1. j + 1 \in 1 .. m + n /\ ~ (j + 1 <= m) /\ ~ (j + 1 = m + 1)
          /\ j + 1 <= m + k /\ (j + 1) - 1 = j
      BY <1>1, <2>1, <2>4, <3>0
    <3>3. j + 1 \in DOMAIN new /\ g[j + 1] = j
      BY <1>5, <3>1
    <3>2. QED
      BY <3>3
  <2>5. QED
    BY <1>1, <2>1, <2>2, <2>3, <2>4
<1> HIDE DEF g
<1>10. \A j \in DOMAIN old : \E x \in DOMAIN new : g[x] = j /\ new[x] = old[j]
  BY <1>7, <1>9
<1>11. Keeps(old, new, cmds, i)
  BY <1>6, <1>7, <1>8, <1>10, Zenon DEF Keeps
<1>12. QED
  BY <1>2, <1>11 DEF old, new, rest

-----------------------------------------------------------------------------
(* The data frames of one stream on a path.                                *)

\* Consecutive byte numbers, at least one
Run(d) == d \in Seq(Nat) /\ d # <<>> /\ \A j \in DOMAIN d : d[j] = d[1] + j - 1

LEMMA RunStarts ==
  ASSUME NEW d, Run(d)
  PROVE  d[1] \in Nat /\ Len(d) \in Nat /\ Len(d) >= 1 /\ DOMAIN d = 1 .. Len(d)
BY DEF Run

FirstByte(f) == f.data[1]
LastByte(f) == f.data[1] + Len(f.data) - 1

\* The frames of stream i carry the bytes a + 1 .. b, in order.
Stretch(path, i, a, b) ==
  /\ a \in Nat /\ b \in Nat /\ a <= b
  /\ \A k \in DOMAIN path : Is(path[k], "PSH", i) =>
       Run(path[k].data) /\ FirstByte(path[k]) > a /\ LastByte(path[k]) <= b
  /\ \A k, l \in DOMAIN path :
       k < l /\ Is(path[k], "PSH", i) /\ Is(path[l], "PSH", i)
       => LastByte(path[k]) < FirstByte(path[l])
  /\ \A n \in a + 1 .. b : \E k \in DOMAIN path :
       Is(path[k], "PSH", i) /\ FirstByte(path[k]) <= n /\ n <= LastByte(path[k])

LEMMA StretchKeeps ==
  ASSUME NEW old, NEW new, NEW cmds, NEW i, NEW a, NEW b,
         Stretch(old, i, a, b), Keeps(old, new, cmds, i), "PSH" \in cmds
  PROVE  Stretch(new, i, a, b)
<1>1. PICK g \in [DOMAIN new -> Nat] :
        /\ \A k \in DOMAIN new : Touches(new[k], cmds, i) =>
             g[k] \in DOMAIN old /\ old[g[k]] = new[k]
        /\ \A k, l \in DOMAIN new :
             /\ k < l /\ Touches(new[k], cmds, i) /\ Touches(new[l], cmds, i)
             /\ ~ Overtakes(new[k], new[l])
             => g[k] < g[l]
        /\ \A j \in DOMAIN old : Touches(old[j], cmds, i) =>
             \E k \in DOMAIN new : g[k] = j /\ new[k] = old[j]
  BY DEF Keeps
<1>2. \A k \in DOMAIN new : Is(new[k], "PSH", i) =>
        g[k] \in DOMAIN old /\ old[g[k]] = new[k]
  BY <1>1 DEF Is, Touches
<1>3. \A k, l \in DOMAIN new :
        k < l /\ Is(new[k], "PSH", i) /\ Is(new[l], "PSH", i) => g[k] < g[l]
  BY <1>1 DEF Is, Touches, Overtakes, Ctrl
<1>4. \A j \in DOMAIN old : Is(old[j], "PSH", i) =>
        \E k \in DOMAIN new : g[k] = j /\ new[k] = old[j]
  BY <1>1 DEF Is, Touches
<1>5. QED
  BY <1>2, <1>3, <1>4 DEF Stretch

\* The next run of bytes was written.
LEMMA StretchAppend ==
  ASSUME NEW path \in Seq(Frames), NEW i, NEW a, NEW b, NEW n \in Nat \ {0},
         Stretch(path, i, a, b), NEW f \in Frames, Is(f, "PSH", i),
         f.data = [k \in 1 .. n |-> b + k]
  PROVE  Stretch(Append(path, f), i, a, b + n)
<1> DEFINE new == Append(path, f)
           m == Len(path)
<1>1. /\ DOMAIN path = 1 .. m /\ m \in Nat /\ DOMAIN new = 1 .. m + 1
      /\ \A k \in 1 .. m : new[k] = path[k]
      /\ new[m + 1] = f
  OBVIOUS
<1>2. a \in Nat /\ b \in Nat /\ a <= b
  BY DEF Stretch
<1>3. /\ Run(f.data) /\ FirstByte(f) = b + 1 /\ LastByte(f) = b + n
      /\ FirstByte(f) \in Nat /\ LastByte(f) \in Nat
  <2>1. /\ Len(f.data) = n /\ f.data \in Seq(Nat) /\ DOMAIN f.data = 1 .. n
        /\ \A k \in 1 .. n : f.data[k] = b + k
    BY <1>2
  <2>2. f.data[1] = b + 1 /\ f.data # <<>>
    BY <2>1
  <2>3. \A k \in 1 .. n : f.data[k] = f.data[1] + k - 1
    BY <1>2, <2>1, <2>2
  <2>4. QED
    BY <1>2, <2>1, <2>2, <2>3 DEF Run, FirstByte, LastByte
<1> HIDE DEF new, m
<1>4. \A k \in DOMAIN new : k \in DOMAIN path \/ k = m + 1
  BY <1>1
<1>5. ASSUME NEW k \in DOMAIN path, Is(path[k], "PSH", i)
      PROVE  /\ Run(path[k].data) /\ FirstByte(path[k]) > a /\ LastByte(path[k]) <= b
             /\ FirstByte(path[k]) \in Nat /\ LastByte(path[k]) \in Nat
  <2>1. Run(path[k].data) /\ FirstByte(path[k]) > a /\ LastByte(path[k]) <= b
    BY <1>5 DEF Stretch
  <2>2. path[k].data[1] \in Nat /\ Len(path[k].data) \in Nat /\ Len(path[k].data) >= 1
    BY <2>1 DEF Run
  <2>3. QED
    BY <2>1, <2>2 DEF FirstByte, LastByte
<1>6. \A k \in DOMAIN new : Is(new[k], "PSH", i) =>
        Run(new[k].data) /\ FirstByte(new[k]) > a /\ LastByte(new[k]) <= b + n
  BY <1>1, <1>2, <1>3, <1>4, <1>5
<1>7. ASSUME NEW k \in DOMAIN new, NEW l \in DOMAIN new, k < l,
             Is(new[k], "PSH", i), Is(new[l], "PSH", i)
      PROVE  LastByte(new[k]) < FirstByte(new[l])
  <2>1. k \in DOMAIN path /\ new[k] = path[k]
    BY <1>1, <1>7
  <2>2. CASE l = m + 1
    BY <1>1, <1>2, <1>3, <1>5, <1>7, <2>1, <2>2
  <2>3. CASE l \in DOMAIN path
    BY <1>1, <1>7, <2>1, <2>3 DEF Stretch
  <2>4. QED
    BY <1>4, <2>2, <2>3
<1>8. ASSUME NEW x \in a + 1 .. b + n
      PROVE  \E k \in DOMAIN new :
               Is(new[k], "PSH", i) /\ FirstByte(new[k]) <= x /\ x <= LastByte(new[k])
  <2>1. CASE x <= b
    <3>1. x \in a + 1 .. b
      BY <1>2, <2>1
    <3>2. PICK k \in DOMAIN path :
            Is(path[k], "PSH", i) /\ FirstByte(path[k]) <= x /\ x <= LastByte(path[k])
      BY <3>1 DEF Stretch
    <3>3. k \in DOMAIN new /\ new[k] = path[k]
      BY <1>1
    <3>4. QED
      BY <3>2, <3>3
  <2>2. CASE x > b
    <3>1. m + 1 \in DOMAIN new /\ new[m + 1] = f /\ FirstByte(f) <= x /\ x <= LastByte(f)
      BY <1>1, <1>2, <1>3, <2>2
    <3>2. QED
      BY <3>1
  <2>3. QED
    BY <1>2, <2>1, <2>2
<1>9. b + n \in Nat /\ a <= b + n
  BY <1>2
<1>10. QED
  BY <1>2, <1>6, <1>7, <1>8, <1>9 DEF Stretch, new

\* The first frame of a path holds the first bytes.
LEMMA StretchTail ==
  ASSUME NEW path \in Seq(Frames), path # <<>>, NEW i, NEW a, NEW b,
         Stretch(path, i, a, b), Is(path[1], "PSH", i)
  PROVE  /\ Run(path[1].data) /\ FirstByte(path[1]) = a + 1
         /\ a + Len(path[1].data) <= b
         /\ Stretch(Tail(path), i, a + Len(path[1].data), b)
<1> DEFINE new == Tail(path)
           f == path[1]
           n == Len(f.data)
           m == Len(path)
<1>1. /\ DOMAIN path = 1 .. m /\ m \in Nat /\ m >= 1 /\ DOMAIN new = 1 .. m - 1
      /\ \A k \in 1 .. m - 1 : new[k] = path[k + 1]
      /\ 1 \in DOMAIN path
  OBVIOUS
<1>2. a \in Nat /\ b \in Nat /\ a <= b
  BY DEF Stretch
<1>3. ASSUME NEW k \in DOMAIN path, Is(path[k], "PSH", i)
      PROVE  /\ Run(path[k].data) /\ FirstByte(path[k]) > a /\ LastByte(path[k]) <= b
             /\ FirstByte(path[k]) \in Nat /\ LastByte(path[k]) \in Nat
             /\ FirstByte(path[k]) <= LastByte(path[k])
             /\ LastByte(path[k]) = FirstByte(path[k]) + Len(path[k].data) - 1
             /\ Len(path[k].data) \in Nat
  <2>1. Run(path[k].data) /\ FirstByte(path[k]) > a /\ LastByte(path[k]) <= b
    BY <1>3 DEF Stretch
  <2>2. path[k].data[1] \in Nat /\ Len(path[k].data) \in Nat /\ Len(path[k].data) >= 1
    BY <2>1, RunStarts, Zenon
  <2>3. QED
    BY <2>1, <2>2 DEF FirstByte, LastByte
<1> HIDE DEF new, m
<1>4. /\ Run(f.data) /\ FirstByte(f) > a /\ LastByte(f) <= b
      /\ FirstByte(f) \in Nat /\ LastByte(f) \in Nat /\ FirstByte(f) <= LastByte(f)
      /\ LastByte(f) = FirstByte(f) + n - 1 /\ n \in Nat
  BY <1>1, <1>3
<1> HIDE DEF f, n
<1>5. FirstByte(f) = a + 1
  <2>1. a + 1 \in a + 1 .. b
    BY <1>2, <1>4
  <2>2. PICK k \in DOMAIN path :
          Is(path[k], "PSH", i) /\ FirstByte(path[k]) <= a + 1 /\ a + 1 <= LastByte(path[k])
    BY <2>1 DEF Stretch
  <2>3. CASE k = 1
    BY <1>2, <1>4, <2>2, <2>3 DEF f
  <2>4. CASE k # 1
    <3>1. 1 < k
      BY <1>1, <2>4
    <3>2. LastByte(f) < FirstByte(path[k])
      BY <1>1, <2>2, <3>1 DEF Stretch, f
    <3>3. FirstByte(path[k]) \in Nat
      BY <1>3, <2>2
    <3>4. QED
      BY <1>2, <1>4, <2>2, <3>2, <3>3
  <2>5. QED
    BY <2>3, <2>4
<1>6. LastByte(f) = a + n /\ a + n <= b /\ a + n \in Nat
  BY <1>2, <1>4, <1>5
<1>7. \A k \in DOMAIN new :
        k \in Nat /\ k + 1 \in DOMAIN path /\ new[k] = path[k + 1] /\ 1 < k + 1
  BY <1>1
<1>8. ASSUME NEW k \in DOMAIN new, Is(new[k], "PSH", i)
      PROVE  Run(new[k].data) /\ FirstByte(new[k]) > a + n /\ LastByte(new[k]) <= b
  <2>1. LastByte(f) < FirstByte(path[k + 1])
    BY <1>1, <1>7, <1>8 DEF Stretch, f
  <2>2. QED
    BY <1>3, <1>6, <1>7, <1>8, <2>1
<1>9. ASSUME NEW k \in DOMAIN new, NEW l \in DOMAIN new, k < l,
             Is(new[k], "PSH", i), Is(new[l], "PSH", i)
      PROVE  LastByte(new[k]) < FirstByte(new[l])
  <2>1. k + 1 < l + 1
    BY <1>7, <1>9
  <2>2. QED
    BY <1>7, <1>9, <2>1 DEF Stretch
<1>10. ASSUME NEW x \in (a + n) + 1 .. b
       PROVE  \E k \in DOMAIN new :
                Is(new[k], "PSH", i) /\ FirstByte(new[k]) <= x /\ x <= LastByte(new[k])
  <2>1. x \in a + 1 .. b /\ x > a + n
    BY <1>2, <1>4
  <2>2. PICK k \in DOMAIN path :
          Is(path[k], "PSH", i) /\ FirstByte(path[k]) <= x /\ x <= LastByte(path[k])
    BY <2>1 DEF Stretch
  <2>3. k # 1
    BY <1>2, <1>4, <1>6, <2>1, <2>2 DEF f
  <2>4. k - 1 \in DOMAIN new /\ new[k - 1] = path[k]
    <3>1. k - 1 \in 1 .. m - 1 /\ (k - 1) + 1 = k
      BY <1>1, <2>3
    <3>2. QED
      BY <1>1, <3>1
  <2>5. QED
    BY <2>2, <2>4
<1>11. Stretch(new, i, a + n, b)
  BY <1>2, <1>6, <1>8, <1>9, <1>10 DEF Stretch
<1>12. QED
  BY <1>4, <1>5, <1>6, <1>11 DEF f, n, new

-----------------------------------------------------------------------------
(* The other frames of one stream on a path.                               *)

\* What follows a FIN is past the first o bytes.
FinsLast(path, i, o) ==
  \A k, l \in DOMAIN path :
    k < l /\ Is(path[k], "FIN", i) /\ Is(path[l], "PSH", i) => FirstByte(path[l]) > o

\* What the peer is told of its window: never less than it knows, never more
\* than was read.
Updates(path, i, low, high) ==
  /\ low \in Nat /\ high \in Nat /\ low <= high
  /\ \A k \in DOMAIN path : Is(path[k], "UPD", i) =>
       path[k].data \in Nat /\ low <= path[k].data /\ path[k].data <= high
  /\ \A k, l \in DOMAIN path :
       k < l /\ Is(path[k], "UPD", i) /\ Is(path[l], "UPD", i)
       => path[k].data <= path[l].data

HasSyn(path, i) == \E k \in DOMAIN path : Is(path[k], "SYN", i)

\* There is one SYN, and no data and no FIN before it.
SynFirst(path, i) ==
  /\ \A k, l \in DOMAIN path : Is(path[k], "SYN", i) /\ Is(path[l], "SYN", i) => k = l
  /\ \A k, l \in DOMAIN path : Is(path[l], "SYN", i) /\ Touches(path[k], {"PSH", "FIN"}, i)
       => l < k

LEMMA OthersKeep ==
  ASSUME NEW old \in Seq(Frames), NEW new \in Seq(Frames), NEW cmds, NEW i,
         Keeps(old, new, cmds, i)
  PROVE  /\ {"PSH", "FIN"} \subseteq cmds => \A o :
              FinsLast(old, i, o) => FinsLast(new, i, o)
         /\ "UPD" \in cmds => \A low, high :
              Updates(old, i, low, high) => Updates(new, i, low, high)
         /\ {"SYN", "PSH", "FIN"} \subseteq cmds /\ SynFirst(old, i) => SynFirst(new, i)
         /\ "SYN" \in cmds => (HasSyn(new, i) <=> HasSyn(old, i))
         /\ "FIN" \in cmds /\ (\A k \in DOMAIN old : ~ Is(old[k], "FIN", i)) =>
              \A k \in DOMAIN new : ~ Is(new[k], "FIN", i)
<1>1. PICK g \in [DOMAIN new -> Nat] :
        /\ \A k \in DOMAIN new : Touches(new[k], cmds, i) =>
             g[k] \in DOMAIN old /\ old[g[k]] = new[k]
        /\ \A k, l \in DOMAIN new :
             /\ k < l /\ Touches(new[k], cmds, i) /\ Touches(new[l], cmds, i)
             /\ ~ Overtakes(new[k], new[l])
             => g[k] < g[l]
        /\ \A j \in DOMAIN old : Touches(old[j], cmds, i) =>
             \E k \in DOMAIN new : g[k] = j /\ new[k] = old[j]
  BY DEF Keeps
<1>2. \A cmd \in cmds : \A k \in DOMAIN new : Is(new[k], cmd, i) =>
        g[k] \in DOMAIN old /\ old[g[k]] = new[k] /\ Is(old[g[k]], cmd, i)
  BY <1>1 DEF Is, Touches
<1>3. \A cmd \in cmds : \A j \in DOMAIN old : Is(old[j], cmd, i) =>
        \E k \in DOMAIN new : g[k] = j /\ new[k] = old[j] /\ Is(new[k], cmd, i)
  BY <1>1 DEF Is, Touches
<1>4. ASSUME {"PSH", "FIN"} \subseteq cmds, NEW o, FinsLast(old, i, o)
      PROVE  FinsLast(new, i, o)
  <2>1. \A k, l \in DOMAIN new :
          k < l /\ Is(new[k], "FIN", i) /\ Is(new[l], "PSH", i) => g[k] < g[l]
    BY <1>1, <1>4 DEF Is, Touches, Overtakes, Ctrl
  <2>2. QED
    BY <1>2, <1>4, <2>1 DEF FinsLast
<1>5. ASSUME "UPD" \in cmds, NEW low, NEW high, Updates(old, i, low, high)
      PROVE  Updates(new, i, low, high)
  <2>1. \A k, l \in DOMAIN new :
          k < l /\ Is(new[k], "UPD", i) /\ Is(new[l], "UPD", i) => g[k] < g[l]
    BY <1>1, <1>5 DEF Is, Touches, Overtakes, Ctrl
  <2>2. QED
    BY <1>2, <1>5, <2>1 DEF Updates
<1>6. ASSUME {"SYN", "PSH", "FIN"} \subseteq cmds, SynFirst(old, i)
      PROVE  SynFirst(new, i)
  <2>1. DOMAIN new \subseteq Nat
    OBVIOUS
  <2>2. ASSUME NEW k \in DOMAIN new, NEW l \in DOMAIN new, k < l, Is(new[l], "SYN", i),
               Touches(new[k], {"SYN", "PSH", "FIN"}, i)
        PROVE  FALSE
    <3>1. g[k] < g[l]
      BY <1>1, <1>6, <2>2 DEF Is, Touches, Overtakes, Ctrl
    <3>2. /\ g[k] \in Nat /\ g[l] \in Nat /\ g[k] \in DOMAIN old /\ g[l] \in DOMAIN old
          /\ Is(old[g[l]], "SYN", i) /\ Touches(old[g[k]], {"SYN", "PSH", "FIN"}, i)
      BY <1>1, <1>6, <2>2 DEF Is, Touches
    <3>3. Is(old[g[k]], "SYN", i) \/ Touches(old[g[k]], {"PSH", "FIN"}, i)
      BY <3>2 DEF Is, Touches
    <3>4. QED
      BY <1>6, <3>1, <3>2, <3>3 DEF SynFirst
  <2>3. \A k, l \in DOMAIN new : Is(new[k], "SYN", i) /\ Is(new[l], "SYN", i) => k = l
    <3>1. \A k \in DOMAIN new : Is(new[k], "SYN", i) => Touches(new[k], {"SYN", "PSH", "FIN"}, i)
      BY DEF Is, Touches
    <3>2. QED
      BY <2>1, <2>2, <3>1
  <2>4. \A k, l \in DOMAIN new :
          Is(new[l], "SYN", i) /\ Touches(new[k], {"PSH", "FIN"}, i) => l < k
    <3>1. \A k \in DOMAIN new : Touches(new[k], {"PSH", "FIN"}, i) =>
            Touches(new[k], {"SYN", "PSH", "FIN"}, i) /\ ~ Is(new[k], "SYN", i)
      BY DEF Is, Touches
    <3>2. QED
      BY <2>1, <2>2, <3>1
  <2>5. QED
    BY <2>3, <2>4 DEF SynFirst
<1>7. ASSUME "SYN" \in cmds
      PROVE  HasSyn(new, i) <=> HasSyn(old, i)
  BY <1>2, <1>3, <1>7 DEF HasSyn
<1>8. ASSUME "FIN" \in cmds, \A k \in DOMAIN old : ~ Is(old[k], "FIN", i)
      PROVE  \A k \in DOMAIN new : ~ Is(new[k], "FIN", i)
  BY <1>2, <1>8
<1>9. QED
  BY <1>4, <1>5, <1>6, <1>7, <1>8

\* A frame more
LEMMA OthersAppend ==
  ASSUME NEW path \in Seq(Frames), NEW i, NEW f \in Frames
  PROVE  LET new == Append(path, f)
         IN  /\ \A o : FinsLast(path, i, o) /\ (Is(f, "PSH", i) => FirstByte(f) > o)
                  => FinsLast(new, i, o)
             /\ \A low, high :
                  Updates(path, i, low, high) /\ (Is(f, "UPD", i) => f.data = high)
                  => Updates(new, i, low, high)
             /\ SynFirst(path, i) /\ ~ Is(f, "SYN", i) => SynFirst(new, i)
             /\ HasSyn(new, i) <=> HasSyn(path, i) \/ Is(f, "SYN", i)
             /\ \A cmd : (\A k \in DOMAIN path : ~ Is(path[k], cmd, i)) /\ ~ Is(f, cmd, i)
                  => \A k \in DOMAIN new : ~ Is(new[k], cmd, i)
<1> DEFINE new == Append(path, f)
           m == Len(path)
<1>1. /\ DOMAIN path = 1 .. m /\ m \in Nat /\ DOMAIN new = 1 .. m + 1
      /\ \A k \in 1 .. m : new[k] = path[k]
      /\ new[m + 1] = f
  OBVIOUS
<1> HIDE DEF new, m
<1>2. \A k \in DOMAIN new : \/ k \in DOMAIN path /\ new[k] = path[k]
                            \/ k = m + 1 /\ new[k] = f
  BY <1>1
<1>3. \A k \in DOMAIN path : k \in DOMAIN new /\ new[k] = path[k] /\ k < m + 1
  BY <1>1
<1>4. \A k, l \in DOMAIN new : k < l => k \in DOMAIN path
  BY <1>1
<1>5. ASSUME NEW o, FinsLast(path, i, o), Is(f, "PSH", i) => FirstByte(f) > o
      PROVE  FinsLast(new, i, o)
  <2>1. SUFFICES ASSUME NEW k \in DOMAIN new, NEW l \in DOMAIN new, k < l,
                        Is(new[k], "FIN", i), Is(new[l], "PSH", i)
                 PROVE  FirstByte(new[l]) > o
    BY DEF FinsLast
  <2>2. k \in DOMAIN path /\ new[k] = path[k]
    BY <1>3, <1>4, <2>1
  <2>3. CASE l \in DOMAIN path /\ new[l] = path[l]
    BY <1>5, <2>1, <2>2, <2>3 DEF FinsLast
  <2>4. CASE new[l] = f
    BY <1>5, <2>1, <2>4
  <2>5. QED
    BY <1>2, <2>3, <2>4
<1>6. ASSUME NEW low, NEW high, Updates(path, i, low, high),
             Is(f, "UPD", i) => f.data = high
      PROVE  Updates(new, i, low, high)
  <2>1. low \in Nat /\ high \in Nat /\ low <= high
    BY <1>6 DEF Updates
  <2>2. ASSUME NEW k \in DOMAIN new, Is(new[k], "UPD", i)
        PROVE  new[k].data \in Nat /\ low <= new[k].data /\ new[k].data <= high
    <3>1. CASE k \in DOMAIN path /\ new[k] = path[k]
      BY <1>6, <2>2, <3>1 DEF Updates
    <3>2. CASE new[k] = f
      BY <1>6, <2>1, <2>2, <3>2
    <3>3. QED
      BY <1>2, <3>1, <3>2
  <2>3. ASSUME NEW k \in DOMAIN new, NEW l \in DOMAIN new, k < l,
               Is(new[k], "UPD", i), Is(new[l], "UPD", i)
        PROVE  new[k].data <= new[l].data
    <3>1. k \in DOMAIN path /\ new[k] = path[k]
      BY <1>3, <1>4, <2>3
    <3>2. CASE l \in DOMAIN path /\ new[l] = path[l]
      BY <1>6, <2>3, <3>1, <3>2 DEF Updates
    <3>3. CASE new[l] = f
      BY <1>6, <2>2, <2>3, <3>3
    <3>4. QED
      BY <1>2, <3>2, <3>3
  <2>4. QED
    BY <2>1, <2>2, <2>3 DEF Updates
<1>7. ASSUME SynFirst(path, i), ~ Is(f, "SYN", i)
      PROVE  SynFirst(new, i)
  BY <1>1, <1>2, <1>7 DEF SynFirst
<1>8. HasSyn(new, i) <=> HasSyn(path, i) \/ Is(f, "SYN", i)
  <2>1. m + 1 \in DOMAIN new /\ new[m + 1] = f
    BY <1>1
  <2>2. QED
    BY <1>2, <1>3, <2>1 DEF HasSyn
<1>9. QED
  BY <1>2, <1>5, <1>6, <1>7, <1>8 DEF new

\* The first frame is gone.
LEMMA OthersTail ==
  ASSUME NEW path \in Seq(Frames), path # <<>>, NEW i
  PROVE  LET new == Tail(path)
         IN  /\ \A o : FinsLast(path, i, o) => FinsLast(new, i, o)
             /\ \A low, high : Updates(path, i, low, high) => Updates(new, i, low, high)
             /\ \A low, high : Updates(path, i, low, high) /\ Is(path[1], "UPD", i)
                  => /\ low <= path[1].data /\ path[1].data <= high
                     /\ Updates(new, i, path[1].data, high)
             /\ SynFirst(path, i) => SynFirst(new, i)
             /\ SynFirst(path, i) /\ Is(path[1], "SYN", i) => ~ HasSyn(new, i)
             /\ SynFirst(path, i) /\ Touches(path[1], {"PSH", "FIN"}, i) => ~ HasSyn(path, i)
             /\ ~ Is(path[1], "SYN", i) => (HasSyn(new, i) <=> HasSyn(path, i))
             /\ \A cmd : (\A k \in DOMAIN path : ~ Is(path[k], cmd, i))
                  => \A k \in DOMAIN new : ~ Is(new[k], cmd, i)
<1> DEFINE new == Tail(path)
           m == Len(path)
<1>1. /\ DOMAIN path = 1 .. m /\ m \in Nat /\ m >= 1 /\ DOMAIN new = 1 .. m - 1
      /\ \A k \in 1 .. m - 1 : new[k] = path[k + 1]
      /\ 1 \in DOMAIN path
  OBVIOUS
<1> HIDE DEF new, m
<1>2. \A k \in DOMAIN new :
        k \in Nat /\ k + 1 \in DOMAIN path /\ new[k] = path[k + 1] /\ 1 < k + 1
  BY <1>1
<1>3. \A k, l \in DOMAIN new : k < l => k + 1 < l + 1
  BY <1>2
<1>4. ASSUME NEW o, FinsLast(path, i, o) PROVE FinsLast(new, i, o)
  BY <1>2, <1>3, <1>4 DEF FinsLast
<1>5. ASSUME NEW low, NEW high, Updates(path, i, low, high)
      PROVE  Updates(new, i, low, high)
  BY <1>2, <1>3, <1>5 DEF Updates
<1>6. ASSUME NEW low, NEW high, Updates(path, i, low, high), Is(path[1], "UPD", i)
      PROVE  /\ low <= path[1].data /\ path[1].data <= high
             /\ Updates(new, i, path[1].data, high)
  <2>1. /\ path[1].data \in Nat /\ low <= path[1].data /\ path[1].data <= high
        /\ high \in Nat
    BY <1>1, <1>6 DEF Updates
  <2>2. ASSUME NEW k \in DOMAIN new, Is(new[k], "UPD", i)
        PROVE  new[k].data \in Nat /\ path[1].data <= new[k].data /\ new[k].data <= high
    BY <1>1, <1>2, <1>6, <2>2 DEF Updates
  <2>3. \A k, l \in DOMAIN new :
          k < l /\ Is(new[k], "UPD", i) /\ Is(new[l], "UPD", i)
          => new[k].data <= new[l].data
    BY <1>2, <1>3, <1>6 DEF Updates
  <2>4. QED
    BY <2>1, <2>2, <2>3 DEF Updates
<1>7. ASSUME SynFirst(path, i) PROVE SynFirst(new, i)
  <2>1. \A k, l \in DOMAIN new : Is(new[k], "SYN", i) /\ Is(new[l], "SYN", i) => k = l
    BY <1>2, <1>7 DEF SynFirst
  <2>2. ASSUME NEW k \in DOMAIN new, NEW l \in DOMAIN new, Is(new[l], "SYN", i),
               Touches(new[k], {"PSH", "FIN"}, i)
        PROVE  l < k
    <3>1. l + 1 < k + 1
      BY <1>2, <1>7, <2>2 DEF SynFirst
    <3>2. QED
      BY <1>2, <3>1
  <2>3. QED
    BY <2>1, <2>2 DEF SynFirst
<1>8. ASSUME SynFirst(path, i), Is(path[1], "SYN", i) PROVE ~ HasSyn(new, i)
  BY <1>1, <1>2, <1>8 DEF SynFirst, HasSyn
<1>9. ASSUME SynFirst(path, i), Touches(path[1], {"PSH", "FIN"}, i)
      PROVE  ~ HasSyn(path, i)
  <2>1. \A l \in DOMAIN path : ~ (l < 1)
    BY <1>1
  <2>2. QED
    BY <1>1, <1>9, <2>1 DEF SynFirst, HasSyn
<1>10. ASSUME ~ Is(path[1], "SYN", i)
       PROVE  HasSyn(new, i) <=> HasSyn(path, i)
  <2>1. \A k \in DOMAIN path : k = 1 \/ (k - 1 \in DOMAIN new /\ new[k - 1] = path[k])
    <3>1. \A k \in DOMAIN path : k = 1 \/ (k - 1 \in 1 .. m - 1 /\ (k - 1) + 1 = k)
      BY <1>1
    <3>2. QED
      BY <1>1, <3>1
  <2>2. QED
    BY <1>2, <1>10, <2>1 DEF HasSyn
<1>11. QED
  BY <1>2, <1>4, <1>5, <1>6, <1>7, <1>8, <1>9, <1>10 DEF new

\* When a FIN comes first, what was owed has come before.
LEMMA FinArrives ==
  ASSUME NEW path \in Seq(Frames), path # <<>>, NEW i, NEW a, NEW b, NEW o \in Nat,
         Stretch(path, i, a, b), FinsLast(path, i, o), o <= b, Is(path[1], "FIN", i)
  PROVE  o <= a
<1>1. a \in Nat /\ b \in Nat
  BY DEF Stretch
<1>2. SUFFICES ASSUME a < o PROVE FALSE
  BY <1>1
<1>3. a + 1 \in a + 1 .. b
  BY <1>1, <1>2
<1>4. PICK k \in DOMAIN path : Is(path[k], "PSH", i) /\ FirstByte(path[k]) <= a + 1
  BY <1>3 DEF Stretch
<1>5. 1 \in DOMAIN path /\ k # 1 /\ (k # 1 => 1 < k)
  BY <1>4 DEF Is
<1>6. FirstByte(path[k]) > o
  BY <1>4, <1>5 DEF FinsLast
<1>7. FirstByte(path[k]) \in Nat
  <2>1. Run(path[k].data)
    BY <1>4 DEF Stretch
  <2>2. path[k].data[1] \in Nat
    BY <2>1, RunStarts
  <2>3. QED
    BY <2>2 DEF FirstByte
<1>8. QED
  BY <1>1, <1>2, <1>4, <1>6, <1>7

-----------------------------------------------------------------------------
(* The buffers of a stream.                                                *)

Lengths(data) == [k \in 1 .. Len(data) |-> Len(data[k])]

LEMMA BytesCount ==
  ASSUME NEW data \in Seq(Seq(Nat))
  PROVE  /\ Lengths(data) \in Seq(Nat) /\ Bytes(data) = SumOf(Lengths(data))
         /\ Bytes(data) \in Nat
<1>1. Lengths(data) \in Seq(Nat)
  BY DEF Lengths
<1>2. Bytes(data) = SumOf(Lengths(data))
  BY DEF Bytes, Lengths
<1>3. QED
  BY <1>1, <1>2, SumNat

LEMMA BytesEmpty == Bytes(<<>>) = 0
<1>1. Lengths(<<>>) = <<>>
  BY DEF Lengths
<1>2. <<>> \in Seq(Seq(Nat))
  OBVIOUS
<1>3. QED
  BY <1>1, <1>2, BytesCount, SumEmpty

LEMMA BytesAppend ==
  ASSUME NEW data \in Seq(Seq(Nat)), NEW d \in Seq(Nat)
  PROVE  Bytes(Append(data, d)) = Bytes(data) + Len(d)
<1> DEFINE new == Append(data, d)
           l == Lengths(data)
<1>1. /\ new \in Seq(Seq(Nat)) /\ Len(new) = Len(data) + 1 /\ Len(data) \in Nat
      /\ \A k \in 1 .. Len(data) : new[k] = data[k]
      /\ new[Len(data) + 1] = d /\ Len(d) \in Nat
  OBVIOUS
<1> HIDE DEF new
<1>2. /\ l \in Seq(Nat) /\ Len(l) = Len(data)
      /\ \A k \in 1 .. Len(data) : l[k] = Len(data[k])
  BY <1>1, BytesCount DEF Lengths
<1> HIDE DEF l
<1> DEFINE a == Append(l, Len(d))
<1>3. /\ a \in Seq(Nat) /\ Len(a) = Len(data) + 1
      /\ \A k \in 1 .. Len(data) : a[k] = l[k]
      /\ a[Len(data) + 1] = Len(d)
  BY <1>1, <1>2
<1> HIDE DEF a
<1>4. /\ Lengths(new) \in Seq(Nat) /\ Len(Lengths(new)) = Len(data) + 1
      /\ \A k \in 1 .. Len(data) + 1 : Lengths(new)[k] = Len(new[k])
  BY <1>1, BytesCount DEF Lengths
<1>5. \A k \in 1 .. Len(data) + 1 : k \in 1 .. Len(data) \/ k = Len(data) + 1
  BY <1>1
<1>6. Lengths(new) = Append(l, Len(d))
  <2>1. \A k \in 1 .. Len(data) + 1 : Lengths(new)[k] = a[k]
    BY <1>1, <1>2, <1>3, <1>4, <1>5
  <2>2. QED
    BY <1>3, <1>4, <2>1, SameNumbers DEF a
<1>7. Bytes(new) = SumOf(Append(l, Len(d))) /\ Bytes(data) = SumOf(l)
  BY <1>1, <1>6, BytesCount DEF l
<1>8. SumOf(Append(l, Len(d))) = SumOf(l) + Len(d)
  BY <1>1, <1>2, SumAppend
<1>9. QED
  BY <1>7, <1>8 DEF new

LEMMA BytesHead ==
  ASSUME NEW data \in Seq(Seq(Nat)), data # <<>>
  PROVE  /\ Head(data) \in Seq(Nat) /\ Tail(data) \in Seq(Seq(Nat))
         /\ Bytes(data) = Len(Head(data)) + Bytes(Tail(data))
<1> DEFINE rest == Tail(data)
           l == Lengths(data)
<1>1. /\ rest \in Seq(Seq(Nat)) /\ Len(rest) = Len(data) - 1
      /\ Len(data) \in Nat /\ Len(data) >= 1
      /\ \A k \in 1 .. Len(data) - 1 : rest[k] = data[k + 1]
      /\ Head(data) = data[1] /\ Head(data) \in Seq(Nat)
  OBVIOUS
<1> HIDE DEF rest
<1>2. /\ l \in Seq(Nat) /\ Len(l) = Len(data)
      /\ \A k \in 1 .. Len(data) : l[k] = Len(data[k])
  BY <1>1, BytesCount DEF Lengths
<1> HIDE DEF l
<1>3. l # <<>> /\ Head(l) = Len(Head(data))
  BY <1>1, <1>2
<1>4. /\ Tail(l) \in Seq(Nat) /\ Len(Tail(l)) = Len(data) - 1
      /\ \A k \in 1 .. Len(data) - 1 : Tail(l)[k] = l[k + 1]
  BY <1>1, <1>2, <1>3
<1>5. /\ Lengths(rest) \in Seq(Nat) /\ Len(Lengths(rest)) = Len(data) - 1
      /\ \A k \in 1 .. Len(data) - 1 : Lengths(rest)[k] = Len(rest[k])
  BY <1>1, BytesCount DEF Lengths
<1>6. ASSUME NEW k \in 1 .. Len(data) - 1
      PROVE  Len(rest[k]) = l[k + 1]
  <2>1. k + 1 \in 1 .. Len(data)
    BY <1>1
  <2>2. QED
    BY <1>1, <1>2, <2>1
<1>7. Lengths(rest) = Tail(l)
  <2>1. \A k \in 1 .. Len(data) - 1 : Lengths(rest)[k] = Tail(l)[k]
    BY <1>4, <1>5, <1>6
  <2>2. QED
    BY <1>4, <1>5, <2>1, SameNumbers
<1>8. Bytes(data) = SumOf(l) /\ Bytes(rest) = SumOf(Tail(l))
  BY <1>1, <1>7, BytesCount DEF l
<1>9. SumOf(l) = Head(l) + SumOf(Tail(l))
  BY <1>2, <1>3, SumTail
<1>10. QED
  BY <1>1, <1>3, <1>8, <1>9 DEF rest

\* The buffers hold the bytes after the first n, in order.
Chained(b, n) ==
  /\ \A k \in DOMAIN b : Run(b[k])
  /\ b # <<>> => /\ b[1][1] = n + 1
                 /\ b[Len(b)][1] + Len(b[Len(b)]) = n + Bytes(b) + 1
  /\ \A k \in DOMAIN b : k + 1 \in DOMAIN b => b[k + 1][1] = b[k][1] + Len(b[k])

LEMMA ChainedAppend ==
  ASSUME NEW b \in Seq(Seq(Nat)), NEW n \in Nat, Chained(b, n),
         NEW d, Run(d), d[1] = n + Bytes(b) + 1
  PROVE  Chained(Append(b, d), n)
<1> DEFINE new == Append(b, d)
           m == Len(b)
<1>1. d \in Seq(Nat)
  BY DEF Run
<1>2. /\ new \in Seq(Seq(Nat)) /\ DOMAIN new = 1 .. m + 1 /\ Len(new) = m + 1
      /\ m \in Nat /\ DOMAIN b = 1 .. m
      /\ \A k \in 1 .. m : new[k] = b[k]
      /\ new[m + 1] = d
  BY <1>1
<1>a. m = 0 <=> b = <<>>
  BY EmptySeq
<1>3. Bytes(new) = Bytes(b) + Len(d) /\ Bytes(b) \in Nat /\ Len(d) \in Nat
  BY <1>1, BytesAppend, BytesCount
<1> HIDE DEF new, m
<1>4. \A k \in DOMAIN new : Run(new[k])
  <2>1. \A k \in DOMAIN new : k \in 1 .. m \/ k = m + 1
    BY <1>2
  <2>2. QED
    BY <1>2, <2>1 DEF Chained
<1>5. new[1][1] = n + 1
  <2>1. CASE m = 0
    BY <1>2, <1>a, <2>1, BytesEmpty
  <2>2. CASE m # 0
    <3>1. 1 \in 1 .. m
      BY <1>2, <2>2
    <3>2. QED
      BY <1>2, <2>2, <3>1 DEF Chained
  <2>3. QED
    BY <2>1, <2>2
<1>6. new[Len(new)][1] + Len(new[Len(new)]) = n + Bytes(new) + 1
  BY <1>2, <1>3
<1>7. ASSUME NEW k \in DOMAIN new, k + 1 \in DOMAIN new
      PROVE  new[k + 1][1] = new[k][1] + Len(new[k])
  <2>1. k \in 1 .. m
    BY <1>2, <1>7
  <2>2. CASE k = m
    <3>1. b # <<>> /\ m = Len(b)
      BY <1>2, <1>a, <2>1 DEF m
    <3>2. b[m][1] + Len(b[m]) = n + Bytes(b) + 1
      BY <3>1 DEF Chained
    <3>3. QED
      BY <1>2, <2>1, <2>2, <3>2
  <2>3. CASE k # m
    <3>1. k + 1 \in 1 .. m
      BY <1>2, <2>1, <2>3
    <3>2. QED
      BY <1>2, <2>1, <3>1 DEF Chained
  <2>4. QED
    BY <2>2, <2>3
<1>8. QED
  BY <1>2, <1>4, <1>5, <1>6, <1>7, <1>a DEF Chained, new

LEMMA TailCons ==
  ASSUME NEW S, NEW d \in S, NEW t \in Seq(S)
  PROVE  Tail(<<d>> \o t) = t
<1> DEFINE c == <<d>> \o t
           b == Tail(c)
<1>1. /\ Len(t) \in Nat /\ c \in Seq(S) /\ Len(c) = Len(t) + 1
      /\ \A k \in 1 .. Len(t) : c[k + 1] = t[k]
  OBVIOUS
<1> HIDE DEF c
<1>2. b \in Seq(S) /\ Len(b) = Len(t) /\ \A k \in 1 .. Len(t) : b[k] = c[k + 1]
  BY <1>1
<1> HIDE DEF b
<1>3. b = t
  BY <1>1, <1>2
<1>4. QED
  BY <1>3 DEF b, c

\* Without the first buffer, or with its end only
LEMMA ChainedRest ==
  ASSUME NEW b \in Seq(Seq(Nat)), NEW n \in Nat, Chained(b, n), b # <<>>
  PROVE  /\ Run(Head(b)) /\ Head(b)[1] = n + 1
         /\ Chained(Tail(b), n + Len(Head(b)))
         /\ \A m \in 1 .. Len(Head(b)) - 1 :
              LET c == <<SubSeq(Head(b), m + 1, Len(Head(b)))>> \o Tail(b)
              IN  /\ c \in Seq(Seq(Nat)) /\ Bytes(c) = Bytes(b) - m
                  /\ Chained(c, n + m)
<1> DEFINE h == Head(b)
           t == Tail(b)
           l == Len(h)
           z == Len(b)
<1>0. /\ DOMAIN b = 1 .. z /\ z \in Nat /\ z >= 1 /\ h = b[1]
      /\ t \in Seq(Seq(Nat)) /\ DOMAIN t = 1 .. z - 1 /\ Len(t) = z - 1
      /\ \A k \in 1 .. z - 1 : t[k] = b[k + 1]
  OBVIOUS
<1>1. /\ DOMAIN b = 1 .. z /\ z \in Nat /\ z >= 1 /\ h = b[1]
      /\ t \in Seq(Seq(Nat)) /\ DOMAIN t = 1 .. z - 1 /\ Len(t) = z - 1
      /\ \A k \in 1 .. z - 1 : t[k] = b[k + 1]
      /\ (t = <<>> <=> z = 1)
  <2>1. t = <<>> <=> Len(t) = 0
    BY <1>0, EmptySeq
  <2>2. Len(t) = 0 <=> z = 1
    <3> HIDE DEF t, z, h
    <3>1. z \in Nat /\ Len(t) = z - 1
      BY <1>0
    <3>2. QED
      BY ONLY <3>1
  <2>3. QED
    BY <1>0, <2>1, <2>2, Zenon
<1>2. h \in Seq(Nat) /\ Bytes(b) = l + Bytes(t) /\ Bytes(t) \in Nat
  BY <1>1, BytesHead, BytesCount
<1>3. \A k \in 1 .. z : Run(b[k])
  BY <1>1 DEF Chained
<1>4. \A k \in 1 .. z : b[k][1] \in Nat /\ Len(b[k]) \in Nat /\ Len(b[k]) >= 1
  BY <1>3, RunStarts
<1>5. Run(h) /\ h[1] = n + 1 /\ l \in Nat /\ l >= 1
  BY <1>1, <1>3, <1>4 DEF Chained
<1>6. b[z][1] + Len(b[z]) = n + Bytes(b) + 1
  BY DEF Chained
<1>7. \A k \in 1 .. z - 1 : b[k + 1][1] = b[k][1] + Len(b[k])
  <2>1. \A k \in 1 .. z - 1 : k \in 1 .. z /\ k + 1 \in 1 .. z
    BY <1>1
  <2>2. QED
    BY <1>1, <2>1 DEF Chained
<1> HIDE DEF h, t, l, z
<1>8. z # 1 => /\ t[1][1] = (n + l) + 1
               /\ t[z - 1][1] + Len(t[z - 1]) = (n + l) + Bytes(t) + 1
  <2>1. SUFFICES ASSUME z # 1
                 PROVE  /\ t[1][1] = (n + l) + 1
                        /\ t[z - 1][1] + Len(t[z - 1]) = (n + l) + Bytes(t) + 1
    OBVIOUS
  <2>2. 1 \in 1 .. z - 1 /\ z - 1 \in 1 .. z - 1 /\ (z - 1) + 1 = z /\ 1 + 1 = 2
    BY <1>1, <2>1
  <2>3. b[1 + 1][1] = b[1][1] + Len(b[1])
    BY <1>7, <2>2
  <2>4. t[1] = b[1 + 1] /\ t[z - 1] = b[z]
    BY <1>1, <2>2
  <2>5. t[1][1] = (n + l) + 1
    BY <1>1, <1>5, <2>3, <2>4 DEF l
  <2>6. QED
    BY <1>2, <1>4, <1>5, <1>6, <2>4, <2>5
<1>9. \A k \in DOMAIN t : Run(t[k])
  <2>1. \A k \in 1 .. z - 1 : k + 1 \in 1 .. z
    BY <1>1
  <2>2. QED
    BY <1>1, <1>3, <2>1
<1>10. \A k \in DOMAIN t : k + 1 \in DOMAIN t => t[k + 1][1] = t[k][1] + Len(t[k])
  <2>1. \A k \in DOMAIN t : k + 1 \in DOMAIN t =>
          k \in 1 .. z - 1 /\ k + 1 \in 1 .. z - 1
    BY <1>1
  <2>2. QED
    BY <1>1, <1>7, <2>1
<1>11. Chained(t, n + l)
  BY <1>1, <1>8, <1>9, <1>10 DEF Chained
<1>12. ASSUME NEW m \in 1 .. l - 1
       PROVE  LET c == <<SubSeq(h, m + 1, l)>> \o t
              IN  /\ c \in Seq(Seq(Nat)) /\ Bytes(c) = Bytes(b) - m
                  /\ Chained(c, n + m)
  <2> DEFINE d == SubSeq(h, m + 1, l)
             c == <<d>> \o t
  <2>1. DOMAIN h = 1 .. l /\ m \in Nat /\ m <= l - 1 /\ m >= 1
    BY <1>5, RunStarts DEF l
  <2>a. /\ h \in Seq(Nat) /\ l = Len(h) /\ l \in Nat /\ m + 1 \in 1 .. l
        /\ l - (m + 1) + 1 = l - m /\ l - m \in Nat
    BY <1>2, <1>5, <2>1 DEF l
  <2>b. d \in Seq(Nat) /\ Len(d) = l - m /\ DOMAIN d = 1 .. l - m
    BY <2>a
  <2>c. ASSUME NEW j \in 1 .. l - m
        PROVE  d[j] = h[m + j]
    <3>1. d[j] = h[(m + 1) + j - 1] /\ (m + 1) + j - 1 = m + j
      BY <2>a, <2>1
    <3>2. QED
      BY <3>1
  <2>2. /\ d \in Seq(Nat) /\ Len(d) = l - m /\ DOMAIN d = 1 .. l - m
        /\ \A j \in 1 .. l - m : d[j] = h[m + j]
    BY <2>b, <2>c
  <2>3. \A j \in 1 .. l - m : m + j \in DOMAIN h /\ h[m + j] = h[1] + (m + j) - 1
    <3>1. \A j \in 1 .. l - m : m + j \in 1 .. l
      BY <1>5, <2>1
    <3>2. QED
      BY <1>5, <2>1, <3>1 DEF Run
  <2> HIDE DEF d
  <2>4. d[1] = (n + m) + 1 /\ d # <<>>
    <3>1. 1 \in 1 .. l - m
      BY <1>5, <2>1
    <3>2. QED
      BY <1>5, <2>1, <2>2, <2>3, <3>1
  <2>5. Run(d)
    <3>1. \A j \in 1 .. l - m : d[j] = d[1] + j - 1
      BY <1>5, <2>1, <2>2, <2>3, <2>4
    <3>2. QED
      BY <2>2, <2>4, <3>1 DEF Run
  <2>6. /\ c \in Seq(Seq(Nat)) /\ c # <<>> /\ Head(c) = d /\ Tail(c) = t
        /\ Len(c) = z /\ DOMAIN c = 1 .. z /\ c[1] = d
    <3>1. d \in Seq(Nat) /\ t \in Seq(Seq(Nat)) /\ Len(t) = z - 1 /\ z \in Nat
      BY <1>1, <2>2
    <3> HIDE DEF d, t, z
    <3>2. c \in Seq(Seq(Nat)) /\ Len(c) = 1 + Len(t) /\ c[1] = d /\ c # <<>>
      BY <3>1
    <3>3. Head(c) = d
      BY <3>1
    <3>4. Tail(c) = t
      BY <3>1, TailCons, Zenon
    <3>5. 1 + Len(t) = z
      BY <3>1
    <3>6. DOMAIN c = 1 .. Len(c)
      BY <3>2
    <3>7. QED
      BY <3>2, <3>3, <3>4, <3>5, <3>6, Zenon
  <2>7. \A k \in 1 .. z - 1 : c[k + 1] = t[k]
    BY <1>1, <2>2, <2>6
  <2> HIDE DEF c
  <2>8. Bytes(c) = Bytes(b) - m
    <3>1. Bytes(c) = Len(d) + Bytes(t)
      BY <2>6, BytesHead
    <3>2. QED
      BY <1>2, <1>5, <2>1, <2>2, <3>1
  <2>9. \A k \in 1 .. z : k = 1 \/ (k - 1 \in 1 .. z - 1 /\ (k - 1) + 1 = k)
    BY <1>1
  <2>10. \A k \in DOMAIN c : Run(c[k])
    <3>1. SUFFICES ASSUME NEW k \in 1 .. z, k # 1 PROVE Run(c[k])
      BY <2>5, <2>6
    <3>2. c[(k - 1) + 1] = t[k - 1] /\ (k - 1) + 1 = k /\ k - 1 \in DOMAIN t
      BY <1>1, <2>7, <2>9, <3>1
    <3>3. QED
      BY <1>9, <3>2
  <2>11. c[z][1] + Len(c[z]) = (n + m) + Bytes(c) + 1
    <3>1. CASE z = 1
      <4>1. Bytes(t) = 0
        BY <1>1, <3>1, BytesEmpty
      <4>2. c[z] = d /\ Bytes(c) = l - m
        BY <1>2, <1>5, <2>1, <2>6, <2>8, <3>1, <4>1
      <4>3. d[1] + Len(d) = ((n + m) + 1) + (l - m)
        BY <2>2, <2>4
      <4>4. n \in Nat /\ m \in Nat /\ l \in Nat
        BY <1>5, <2>1
      <4>5. QED
        BY <4>2, <4>3, <4>4
    <3>2. CASE z # 1
      <4>1. c[z] = t[z - 1]
        BY <1>1, <2>7, <2>9, <3>2
      <4>2. QED
        BY <1>2, <1>5, <1>8, <2>1, <2>8, <3>2, <4>1
    <3>3. QED
      BY <3>1, <3>2
  <2>12. ASSUME NEW k \in DOMAIN c, k + 1 \in DOMAIN c
         PROVE  c[k + 1][1] = c[k][1] + Len(c[k])
    <3>1. k \in 1 .. z - 1 /\ c[k + 1] = t[k]
      BY <1>1, <2>6, <2>7, <2>12
    <3>2. CASE k = 1
      <4>1. z # 1
        BY <1>1, <3>1, <3>2
      <4>2. t[1][1] = (n + l) + 1
        BY <1>8, <4>1
      <4>3. c[k + 1] = t[1] /\ c[k] = d
        BY <2>6, <3>1, <3>2
      <4>4. d[1] + Len(d) = ((n + m) + 1) + (l - m) /\ n \in Nat /\ m \in Nat /\ l \in Nat
        BY <1>5, <2>1, <2>2, <2>4
      <4>5. QED
        BY <4>2, <4>3, <4>4
    <3>3. CASE k # 1
      <4>1. /\ k - 1 \in 1 .. z - 1 /\ (k - 1) + 1 = k
            /\ k - 1 \in DOMAIN t /\ (k - 1) + 1 \in DOMAIN t
        <5>1. z \in Nat /\ DOMAIN t = 1 .. z - 1
          BY <1>1
        <5>2. k - 1 \in 1 .. z - 1 /\ (k - 1) + 1 = k
          BY <3>1, <3>3, <5>1
        <5>3. QED
          BY <3>1, <5>1, <5>2
      <4>2. c[k] = t[k - 1]
        BY <2>7, <4>1
      <4>3. t[k][1] = t[k - 1][1] + Len(t[k - 1])
        BY <1>10, <4>1
      <4>4. QED
        BY <3>1, <4>2, <4>3
    <3>4. QED
      BY <3>2, <3>3
  <2>13. Chained(c, n + m)
    BY <2>4, <2>6, <2>10, <2>11, <2>12 DEF Chained
  <2>14. QED
    BY <2>6, <2>8, <2>13 DEF c, d
<1>13. QED
  BY <1>5, <1>11, <1>12 DEF h, t, l

-----------------------------------------------------------------------------
(* The inductive invariant.                                                *)

\* The types.
StrT ==
  [open : {"no", "syn", "insert", "open", "failed"},
   tabled : BOOLEAN, die : BOOLEAN, fin : BOOLEAN,
   buffers : Seq(Seq(Nat)), numRead : Nat, incr : Nat, event : BOOLEAN,
   reader : {"run", "telling", "wait", "eof", "error"}, taken : Seq(Nat),
   numWritten : Nat, consumed : Nat, window : {FirstWindow, StreamBuffer},
   update : BOOLEAN,
   writer : {"idle", "sending", "stall", "error", "overrun"},
   left : Nat, burst : Nat, queued : Nat,
   closer : {"no", "fin", "done"}, owed : Nat]

SessT ==
  [die : BOOLEAN, readError : BOOLEAN, writeError : BOOLEAN,
   bucket : Int, permit : BOOLEAN,
   recv : {"run", "blocked", "charge", "stopped"}, charge : Nat, to : Nat,
   queue : Seq(Frames), hand : Seq(Frames),
   results : SUBSET ({"SYN", "FIN", "UPD", "PSH"} \X Stream)]

Typed ==
  /\ sess \in [Side -> SessT]
  /\ str \in [Side -> [Stream -> StrT]]
  /\ pipe \in [Side -> Seq(Frames)]
  /\ got \in [Side -> [Stream -> Seq(Nat)]]

\* The send loop holds one frame, and the receive loop owes the tokens of what
\* it just buffered.
Loops(s) ==
  /\ Len(sess[s].hand) <= 1
  /\ IF sess[s].recv = "charge" THEN sess[s].to \in Stream ELSE sess[s].charge = 0
  /\ sess[s].bucket - sess[s].charge = ReceiveBuffer - Buffered(s)

\* What a stream t has read, g, is taking and has buffered
Contents(t, g) ==
  /\ g = [k \in 1 .. Len(g) |-> k]
  /\ Len(g) <= t.numRead
  /\ t.reader # "error" => /\ Len(g) + Len(t.taken) = t.numRead
                           /\ \A k \in DOMAIN t.taken : t.taken[k] = Len(g) + k
  /\ t.reader # "telling" => t.taken = <<>>
  /\ Chained(t.buffers, t.numRead)

\* The life of a stream t at s, whose session is dead or not
Stages(s, t, g, dead) ==
  /\ t.closer = "done" => ~ t.tabled /\ t.buffers = <<>>
  /\ t.open \in {"syn", "insert", "failed"} => s = Client
  /\ t.open = "open" => t.tabled \/ t.closer = "done"
  /\ t.closer # "no" => t.open = "open" /\ t.die
  /\ t.queued > 0 => t.open = "open"
  /\ t.die => dead \/ t.closer # "no"
  /\ t.writer \in {"sending", "stall"} => t.open = "open"
  /\ s # Client
       /\ (t.queued > 0 \/ t.closer # "no" \/ t.writer \in {"sending", "stall"})
     => g # <<>>

\* The widest window a writer may be granted
Widest == IF FirstWindow < StreamBuffer THEN StreamBuffer ELSE FirstWindow

\* What a stream's writer has asked for stays in its window.
Writes(t) ==
  /\ t.writer # "overrun"
  /\ t.owed <= t.queued
  /\ t.queued <= t.consumed + Widest
  /\ t.writer \in {"idle", "stall"} => t.queued = t.numWritten
  /\ t.writer = "stall" => t.left >= 1
  /\ t.writer = "sending" =>
       /\ t.queued = t.numWritten + ChunkSize(t)
       /\ t.burst >= 1
       /\ t.numWritten + t.burst <= t.consumed + Widest

\* The bytes from the writer of r to the reader of t, and the end
Bears(i, path, t, r, g, dead) ==
  /\ t.closer # "done" =>
       Stretch(path, i, t.numRead + Bytes(t.buffers), r.queued)
  /\ t.numRead <= r.queued
  /\ \A k \in DOMAIN path : Is(path[k], "FIN", i) => r.closer # "no"
  /\ FinsLast(path, i, r.owed)
  /\ t.fin => /\ r.closer # "no"
              /\ t.closer # "done" => r.owed <= t.numRead + Bytes(t.buffers)
  /\ t.reader = "eof" /\ ~ dead /\ t.closer = "no" =>
       r.closer # "no" /\ r.owed <= Len(g)

\* A stream is in the server's table from the SYN on, which comes first.
Intro(s, i, path, t, r) ==
  /\ SynFirst(path, i)
  /\ HasSyn(path, i) =>
       s # Client /\ r.open # "no" /\ ~ t.tabled /\ t.closer # "done"
  /\ s # Client /\ r.open \in {"syn", "insert", "open"} =>
       t.tabled \/ t.closer = "done" \/ HasSyn(path, i)
  /\ s # Client /\ r.open = "no" => ~ t.tabled /\ t.closer = "no"

\* The window of t's writer is at most what r's reader read.
Credit(i, path, t, r) == Updates(path, i, t.consumed, r.numRead)

\* All of that for a stream i at s, with path leading to it and r its peer
Good(s, i, t, r, g, dead, path) ==
  /\ Contents(t, g)
  /\ Stages(s, t, g, dead)
  /\ Writes(t)
  /\ Bears(i, path, t, r, g, dead)
  /\ Intro(s, i, path, t, r)
  /\ Credit(i, path, t, r)

GoodAt(s, i) ==
  Good(s, i, str[s][i], str[Peer(s)][i], got[s][i], sess[s].die, Path(s))

\* The inductive invariant
IInv ==
  /\ Typed
  /\ \A s \in Side : Loops(s)
  /\ \A s \in Side, i \in Stream : GoodAt(s, i)

-----------------------------------------------------------------------------
(* What a step leaves alone.                                               *)

LEMMA PathTypes ==
  ASSUME SmuxAssumption, Typed, NEW s \in Side
  PROVE  /\ Path(s) \in Seq(Frames)
         /\ pipe[s] \in Seq(Frames) /\ sess[s].hand \in Seq(Frames)
         /\ sess[s].queue \in Seq(Frames)
<1>1. Peer(s) \in Side
  BY Ends
<1>2. \A t \in Side : /\ pipe[t] \in Seq(Frames) /\ sess[t].hand \in Seq(Frames)
                      /\ sess[t].queue \in Seq(Frames)
  BY DEF Typed, SessT
<1>3. QED
  BY <1>1, <1>2, Concat DEF Path

\* A side asks for a frame.
LEMMA PathAsks ==
  ASSUME NEW q \in Seq(Frames), NEW h \in Seq(Frames), NEW b \in Seq(Frames),
         NEW f \in Frames
  PROVE  q \o (h \o Append(b, f)) = Append(q \o (h \o b), f)
<1> DEFINE c == h \o b
           d == h \o Append(b, f)
           x == q \o d
           y == Append(q \o c, f)
<1>1. c \in Seq(Frames) /\ d = Append(c, f)
  OBVIOUS
<1> HIDE DEF c, d
<1>2. q \o d = Append(q \o c, f)
  BY <1>1
<1>3. QED
  BY <1>2 DEF c, d

LEMMA OneStream ==
  ASSUME NEW a \in [Side -> [Stream -> StrT]], NEW s \in Side, NEW i \in Stream,
         NEW u \in StrT, NEW b, b = [a EXCEPT ![s][i] = u]
  PROVE  /\ b \in [Side -> [Stream -> StrT]] /\ b[s][i] = u
         /\ \A t \in Side, j \in Stream : t # s \/ j # i => b[t][j] = a[t][j]
OBVIOUS

LEMMA OneHistory ==
  ASSUME NEW a \in [Side -> [Stream -> Seq(Nat)]], NEW s \in Side, NEW i \in Stream,
         NEW u \in Seq(Nat), NEW b, b = [a EXCEPT ![s][i] = u]
  PROVE  /\ b \in [Side -> [Stream -> Seq(Nat)]] /\ b[s][i] = u
         /\ \A t \in Side, j \in Stream : t # s \/ j # i => b[t][j] = a[t][j]
OBVIOUS

\* The bytes buffered when one stream changed
LEMMA BufferedChange ==
  ASSUME SmuxAssumption, NEW s \in Side, NEW i \in Stream,
         str \in [Side -> [Stream -> StrT]], str' \in [Side -> [Stream -> StrT]],
         \A j \in Stream : j # i => str'[s][j].buffers = str[s][j].buffers
  PROVE  /\ Buffered(s) \in Nat /\ Buffered(s)' \in Nat
         /\ Buffered(s)' + Bytes(str[s][i].buffers)
              = Buffered(s) + Bytes(str'[s][i].buffers)
<1> DEFINE a == [j \in Stream |-> Bytes(str[s][j].buffers)]
           b == [j \in Stream |-> Bytes(str'[s][j].buffers)]
<1>1. Streams \in Nat /\ Stream = 1 .. Streams
  BY DEF SmuxAssumption, Stream
<1>2. \A j \in Stream : /\ str[s][j].buffers \in Seq(Seq(Nat))
                        /\ str'[s][j].buffers \in Seq(Seq(Nat))
  <2>1. \A j \in Stream : str[s][j] \in StrT /\ str'[s][j] \in StrT
    OBVIOUS
  <2>2. \A x \in StrT : x.buffers \in Seq(Seq(Nat))
    BY DEF StrT
  <2>3. QED
    BY <2>1, <2>2
<1>3. \A j \in Stream : Bytes(str[s][j].buffers) \in Nat /\ Bytes(str'[s][j].buffers) \in Nat
  BY <1>2, BytesCount
<1>4. a \in Seq(Nat) /\ b \in Seq(Nat) /\ Len(a) = Streams /\ Len(b) = Streams
  BY <1>1, <1>3
<1>5. \A j \in Stream : j # i => a[j] = b[j]
  OBVIOUS
<1>6. a[i] = Bytes(str[s][i].buffers) /\ b[i] = Bytes(str'[s][i].buffers)
  OBVIOUS
<1>7. Buffered(s) = SumOf(a) /\ Buffered(s)' = SumOf(b)
  BY DEF Buffered
<1> HIDE DEF a, b
<1>8. SumOf(b) + a[i] = SumOf(a) + b[i]
  <2>1. Len(a) = Len(b) /\ i \in 1 .. Len(a) /\ \A n \in 1 .. Len(a) : n # i => a[n] = b[n]
    BY <1>1, <1>4, <1>5
  <2>2. QED
    BY <1>4, <2>1, SumChange, Zenon
<1>9. QED
  BY <1>4, <1>6, <1>7, <1>8, SumNat

LEMMA BufferedSame ==
  ASSUME NEW s \in Side,
         \A j \in Stream : str'[s][j].buffers = str[s][j].buffers
  PROVE  Buffered(s)' = Buffered(s)
<1>1. [j \in Stream |-> Bytes(str'[s][j].buffers)] = [j \in Stream |-> Bytes(str[s][j].buffers)]
  OBVIOUS
<1>2. QED
  BY <1>1 DEF Buffered

Cmds == {"SYN", "FIN", "UPD", "PSH"}

\* A stream whose frames are where they were
LEMMA Untouched ==
  ASSUME NEW s, NEW i, NEW t, NEW r, NEW g, NEW dead, NEW gone,
         NEW path \in Seq(Frames), NEW new \in Seq(Frames),
         Good(s, i, t, r, g, dead, path), Keeps(path, new, Cmds, i), dead => gone
  PROVE  Good(s, i, t, r, g, gone, new)
<1>1. "PSH" \in Cmds /\ "UPD" \in Cmds /\ "SYN" \in Cmds /\ "FIN" \in Cmds
      /\ {"PSH", "FIN"} \subseteq Cmds /\ {"SYN", "PSH", "FIN"} \subseteq Cmds
  BY DEF Cmds
<1>2. Contents(t, g) /\ Writes(t) /\ Stages(s, t, g, gone)
  BY DEF Good, Stages
<1>3. Bears(i, new, t, r, g, gone)
  <2>1. Bears(i, path, t, r, g, dead)
    BY DEF Good
  <2>2. \A a, b : Stretch(path, i, a, b) => Stretch(new, i, a, b)
    BY <1>1, StretchKeeps
  <2>3. \A o : FinsLast(path, i, o) => FinsLast(new, i, o)
    BY <1>1, OthersKeep
  <2>4. (\A k \in DOMAIN path : ~ Is(path[k], "FIN", i)) =>
          \A k \in DOMAIN new : ~ Is(new[k], "FIN", i)
    BY <1>1, OthersKeep
  <2>5. QED
    BY <2>1, <2>2, <2>3, <2>4 DEF Bears
<1>4. Intro(s, i, new, t, r)
  <2>1. Intro(s, i, path, t, r)
    BY DEF Good
  <2>2. SynFirst(path, i) => SynFirst(new, i)
    BY <1>1, OthersKeep
  <2>3. HasSyn(new, i) <=> HasSyn(path, i)
    BY <1>1, OthersKeep
  <2>4. QED
    BY <2>1, <2>2, <2>3 DEF Intro
<1>5. Credit(i, new, t, r)
  BY <1>1, OthersKeep DEF Credit, Good
<1>6. QED
  BY <1>2, <1>3, <1>4, <1>5 DEF Good

LEMMA SessFields ==
  ASSUME NEW x \in SessT
  PROVE  /\ x.die \in BOOLEAN /\ x.readError \in BOOLEAN /\ x.writeError \in BOOLEAN
         /\ x.bucket \in Int /\ x.charge \in Nat /\ x.to \in Nat
         /\ x.queue \in Seq(Frames) /\ x.hand \in Seq(Frames)
         /\ x.results \in SUBSET ({"SYN", "FIN", "UPD", "PSH"} \X Stream)
BY DEF SessT

LEMMA StrFields ==
  ASSUME NEW x \in StrT
  PROVE  /\ x.tabled \in BOOLEAN /\ x.die \in BOOLEAN /\ x.fin \in BOOLEAN
         /\ x.buffers \in Seq(Seq(Nat)) /\ x.numRead \in Nat /\ x.incr \in Nat
         /\ x.taken \in Seq(Nat) /\ x.numWritten \in Nat /\ x.consumed \in Nat
         /\ x.window \in {FirstWindow, StreamBuffer}
         /\ x.left \in Nat /\ x.burst \in Nat /\ x.queued \in Nat /\ x.owed \in Nat
BY DEF StrT

\* The bucket follows what is buffered.
LEMMA TokensKept ==
  ASSUME SmuxAssumption, NEW s \in Side, NEW i \in Stream, Loops(s),
         sess[s] \in SessT, sess'[s] \in SessT,
         str \in [Side -> [Stream -> StrT]], str' \in [Side -> [Stream -> StrT]],
         \A j \in Stream : j # i => str'[s][j].buffers = str[s][j].buffers,
         sess'[s].bucket - sess'[s].charge + Bytes(str'[s][i].buffers)
           = sess[s].bucket - sess[s].charge + Bytes(str[s][i].buffers)
  PROVE  sess'[s].bucket - sess'[s].charge = ReceiveBuffer - Buffered(s)'
<1>1. /\ Buffered(s) \in Nat /\ Buffered(s)' \in Nat
      /\ Buffered(s)' + Bytes(str[s][i].buffers)
           = Buffered(s) + Bytes(str'[s][i].buffers)
  BY BufferedChange
<1>2. Bytes(str[s][i].buffers) \in Nat /\ Bytes(str'[s][i].buffers) \in Nat
  <2>1. str[s][i] \in StrT /\ str'[s][i] \in StrT
    OBVIOUS
  <2>2. str[s][i].buffers \in Seq(Seq(Nat)) /\ str'[s][i].buffers \in Seq(Seq(Nat))
    BY <2>1, StrFields
  <2>3. QED
    BY <2>2, BytesCount
<1>3. sess[s].bucket - sess[s].charge = ReceiveBuffer - Buffered(s)
  BY DEF Loops
<1>4. /\ sess[s].bucket \in Int /\ sess'[s].bucket \in Int
      /\ sess[s].charge \in Nat /\ sess'[s].charge \in Nat
  BY SessFields
<1>5. ReceiveBuffer \in Nat
  BY DEF SmuxAssumption
<1> DEFINE x == sess[s].bucket - sess[s].charge
           y == sess'[s].bucket - sess'[s].charge
           b == Buffered(s)
           c == Buffered(s)'
           m == Bytes(str'[s][i].buffers)
           n == Bytes(str[s][i].buffers)
<1>6. x \in Int /\ y \in Int
  BY <1>4
<1>7. y + m = x + n
  OBVIOUS
<1>8. b \in Nat /\ c \in Nat /\ m \in Nat /\ n \in Nat /\ c + n = b + m
      /\ x = ReceiveBuffer - b
  BY <1>1, <1>2, <1>3
<1> HIDE DEF x, y, b, c, m, n
<1>9. y = ReceiveBuffer - c
  <2>1. ReceiveBuffer \in Int /\ b \in Int /\ c \in Int /\ m \in Int /\ n \in Int
    BY <1>5, <1>8
  <2>2. y + m = x + n /\ c + n = b + m /\ x = ReceiveBuffer - b /\ x \in Int /\ y \in Int
    BY <1>6, <1>7, <1>8
  <2>3. y = x + n - m
    BY <2>1, <2>2
  <2>4. c = b + m - n
    BY <2>1, <2>2
  <2>5. ReceiveBuffer - c = ReceiveBuffer - b + n - m
    BY <2>1, <2>4
  <2>6. QED
    BY <2>2, <2>3, <2>5
<1>10. QED
  BY <1>9 DEF y, c

\* Stream i at s becomes u, which read g, and new leads from it to its peer.
Both(s, i, u, g, new) ==
  /\ Good(s, i, u, str[Peer(s)][i], g, sess[s].die, Path(s))
  /\ Good(Peer(s), i, str[Peer(s)][i], u, got[Peer(s)][i], sess[Peer(s)].die, new)

\* One stream moves at one end: its two ends are as they must be, and the
\* frames of the others are where they were.
Moving(s, i, u, g) ==
  /\ str' = [str EXCEPT ![s][i] = u]
  /\ got' = [got EXCEPT ![s][i] = g]
  /\ pipe' \in [Side -> Seq(Frames)]
  /\ sess' \in [Side -> SessT]
  /\ \A t \in Side :
       /\ Len(sess'[t].hand) <= 1
       /\ sess[t].die => sess'[t].die
       /\ IF sess'[t].recv = "charge" THEN sess'[t].to \in Stream
          ELSE sess'[t].charge = 0
       /\ t # s => sess'[t].bucket - sess'[t].charge = sess[t].bucket - sess[t].charge
       /\ \A j \in Stream : j # i => Keeps(Path(t), Path(t)', Cmds, j)
  /\ sess'[s].bucket - sess'[s].charge + Bytes(u.buffers)
       = sess[s].bucket - sess[s].charge + Bytes(str[s][i].buffers)
  /\ Good(s, i, u, str[Peer(s)][i], g, sess'[s].die, Path(s)')
  /\ Good(Peer(s), i, str[Peer(s)][i], u, got[Peer(s)][i], sess'[Peer(s)].die,
          Path(Peer(s))')

LEMMA Moves ==
  ASSUME SmuxAssumption, IInv, NEW s \in Side, NEW i \in Stream,
         NEW u \in StrT, NEW g \in Seq(Nat), Moving(s, i, u, g)
  PROVE  IInv'
<1>0. /\ str' = [str EXCEPT ![s][i] = u]
      /\ got' = [got EXCEPT ![s][i] = g]
      /\ pipe' \in [Side -> Seq(Frames)]
      /\ sess' \in [Side -> SessT]
      /\ \A t \in Side :
           /\ Len(sess'[t].hand) <= 1
           /\ sess[t].die => sess'[t].die
           /\ IF sess'[t].recv = "charge" THEN sess'[t].to \in Stream
              ELSE sess'[t].charge = 0
           /\ t # s => sess'[t].bucket - sess'[t].charge
                         = sess[t].bucket - sess[t].charge
           /\ \A j \in Stream : j # i => Keeps(Path(t), Path(t)', Cmds, j)
      /\ sess'[s].bucket - sess'[s].charge + Bytes(u.buffers)
           = sess[s].bucket - sess[s].charge + Bytes(str[s][i].buffers)
      /\ Good(s, i, u, str[Peer(s)][i], g, sess'[s].die, Path(s)')
      /\ Good(Peer(s), i, str[Peer(s)][i], u, got[Peer(s)][i], sess'[Peer(s)].die,
              Path(Peer(s))')
  BY DEF Moving
<1>1. /\ Typed
      /\ \A t \in Side : Loops(t)
      /\ \A t \in Side, j \in Stream :
           Good(t, j, str[t][j], str[Peer(t)][j], got[t][j], sess[t].die, Path(t))
  BY DEF IInv, GoodAt
<1>2. /\ Peer(s) \in Side /\ Peer(s) # s /\ Peer(Peer(s)) = s
      /\ \A t \in Side : t = s \/ t = Peer(s)
      /\ \A t \in Side : Peer(t) \in Side
  BY Ends
<1>3. str \in [Side -> [Stream -> StrT]] /\ got \in [Side -> [Stream -> Seq(Nat)]]
  BY <1>1 DEF Typed
<1>4. /\ str' \in [Side -> [Stream -> StrT]] /\ str'[s][i] = u
      /\ \A t \in Side, j \in Stream : t # s \/ j # i => str'[t][j] = str[t][j]
  <2>1. u \in StrT /\ str' = [str EXCEPT ![s][i] = u]
    BY <1>0
  <2>2. str \in [Side -> [Stream -> StrT]]
    BY <1>3
  <2>3. QED
    BY ONLY <2>1, <2>2, s \in Side, i \in Stream, OneStream, ZenonT(30)
<1>5. /\ got' \in [Side -> [Stream -> Seq(Nat)]] /\ got'[s][i] = g
      /\ \A t \in Side, j \in Stream : t # s \/ j # i => got'[t][j] = got[t][j]
  <2>1. g \in Seq(Nat) /\ got' = [got EXCEPT ![s][i] = g]
    BY <1>0
  <2>2. got \in [Side -> [Stream -> Seq(Nat)]]
    BY <1>3
  <2>3. QED
    BY ONLY <2>1, <2>2, s \in Side, i \in Stream, OneHistory, ZenonT(30)
<1>6. Typed'
  BY <1>0, <1>4, <1>5 DEF Typed
<1>7. ASSUME NEW t \in Side
      PROVE  /\ Path(t) \in Seq(Frames) /\ Path(t)' \in Seq(Frames)
  <2>1. Path(t) \in Seq(Frames)
    BY <1>1, PathTypes
  <2>2. pipe'[t] \in Seq(Frames)
    BY <1>0
  <2>3. sess'[Peer(t)].hand \in Seq(Frames) /\ sess'[Peer(t)].queue \in Seq(Frames)
    <3>1. sess'[Peer(t)] \in SessT
      BY <1>0, <1>2
    <3>2. QED
      BY <3>1, SessFields
  <2>4. QED
    BY <2>1, <2>2, <2>3, Concat DEF Path
<1>8. ASSUME NEW t \in Side PROVE Loops(t)'
  <2>1. /\ Loops(t)
        /\ sess[t].bucket \in Int /\ sess[t].charge \in Int
        /\ sess'[t].bucket \in Int /\ sess'[t].charge \in Int
    <3>1. sess[t] \in SessT /\ sess'[t] \in SessT
      BY <1>0, <1>1 DEF Typed
    <3>2. sess[t].charge \in Nat /\ sess'[t].charge \in Nat
          /\ sess[t].bucket \in Int /\ sess'[t].bucket \in Int
      BY <3>1, SessFields
    <3>3. QED
      BY <1>1, <3>2
  <2>2. sess'[t].bucket - sess'[t].charge = ReceiveBuffer - Buffered(t)'
    <3>1. CASE t = s
      <4>1. \A j \in Stream : j # i => str'[s][j].buffers = str[s][j].buffers
        BY <1>4
      <4>2. sess[s] \in SessT /\ sess'[s] \in SessT /\ str'[s][i] = u /\ Loops(s)
        BY <1>0, <1>1, <1>4 DEF Typed
      <4>3. sess'[s].bucket - sess'[s].charge + Bytes(str'[s][i].buffers)
              = sess[s].bucket - sess[s].charge + Bytes(str[s][i].buffers)
        BY <1>0, <4>2
      <4>4. sess'[s].bucket - sess'[s].charge = ReceiveBuffer - Buffered(s)'
        BY <1>3, <1>4, <4>1, <4>2, <4>3, TokensKept, Zenon
      <4>5. QED
        BY <3>1, <4>4
    <3>2. CASE t # s
      <4>1. \A j \in Stream : str'[t][j].buffers = str[t][j].buffers
        BY <1>4, <3>2
      <4>2. Buffered(t)' = Buffered(t)
        BY <4>1, BufferedSame
      <4>3. QED
        BY <1>0, <2>1, <3>2, <4>2 DEF Loops
    <3>3. QED
      BY <3>1, <3>2
  <2>3. QED
    BY <1>0, <2>2 DEF Loops
<1>9. ASSUME NEW t \in Side, NEW j \in Stream PROVE GoodAt(t, j)'
  <2>1. SUFFICES Good(t, j, str'[t][j], str'[Peer(t)][j], got'[t][j], sess'[t].die, Path(t)')
    BY DEF GoodAt
  <2>2. CASE j # i
    <3>1. str'[t][j] = str[t][j] /\ str'[Peer(t)][j] = str[Peer(t)][j]
          /\ got'[t][j] = got[t][j]
      BY <1>2, <1>4, <1>5, <2>2
    <3>2. Keeps(Path(t), Path(t)', Cmds, j)
      BY <1>0, <2>2
    <3>3. Good(t, j, str[t][j], str[Peer(t)][j], got[t][j], sess[t].die, Path(t))
      BY <1>1
    <3>4. Path(t) \in Seq(Frames) /\ Path(t)' \in Seq(Frames)
      BY <1>7
    <3>5. Good(t, j, str[t][j], str[Peer(t)][j], got[t][j], sess'[t].die, Path(t)')
      <4>1. sess[t].die => sess'[t].die
        BY <1>0
      <4>2. QED
        BY <3>2, <3>3, <3>4, <4>1, Untouched, Zenon
    <3>6. QED
      BY <3>1, <3>5
  <2>3. CASE j = i /\ t = s
    BY <1>0, <1>2, <1>4, <1>5, <2>3
  <2>4. CASE j = i /\ t = Peer(s)
    BY <1>0, <1>2, <1>4, <1>5, <2>4
  <2>5. QED
    BY <1>2, <2>2, <2>3, <2>4
<1>10. QED
  BY <1>6, <1>8, <1>9 DEF IInv

\* What a task of the stream leaves alone in its session
Apart(x, y) ==
  /\ y.die = x.die /\ y.hand = x.hand
  /\ y.recv = x.recv /\ y.charge = x.charge /\ y.to = x.to

\* ... by a task of the stream, which asks for no frame,
Quietly(s, i, u, g, ss) ==
  /\ str' = [str EXCEPT ![s][i] = u]
  /\ got' = [got EXCEPT ![s][i] = g]
  /\ pipe' = pipe
  /\ sess' = [sess EXCEPT ![s] = ss]
  /\ Apart(sess[s], ss) /\ ss.queue = sess[s].queue
  /\ ss.bucket + Bytes(u.buffers) = sess[s].bucket + Bytes(str[s][i].buffers)
  /\ Both(s, i, u, g, Path(Peer(s)))

LEMMA Quiet ==
  ASSUME SmuxAssumption, IInv, NEW s \in Side, NEW i \in Stream,
         NEW u \in StrT, NEW g \in Seq(Nat), NEW ss \in SessT, Quietly(s, i, u, g, ss)
  PROVE  IInv'
<1>0. /\ str' = [str EXCEPT ![s][i] = u] /\ got' = [got EXCEPT ![s][i] = g]
      /\ pipe' = pipe /\ sess' = [sess EXCEPT ![s] = ss]
      /\ ss.die = sess[s].die /\ ss.hand = sess[s].hand /\ ss.queue = sess[s].queue
      /\ ss.recv = sess[s].recv /\ ss.charge = sess[s].charge /\ ss.to = sess[s].to
      /\ ss.bucket + Bytes(u.buffers) = sess[s].bucket + Bytes(str[s][i].buffers)
      /\ Good(s, i, u, str[Peer(s)][i], g, sess[s].die, Path(s))
      /\ Good(Peer(s), i, str[Peer(s)][i], u, got[Peer(s)][i], sess[Peer(s)].die,
              Path(Peer(s)))
  BY DEF Quietly, Apart, Both
<1>1. Typed /\ \A t \in Side : Loops(t)
  BY DEF IInv
<1>2. /\ Peer(s) \in Side /\ Peer(s) # s /\ Peer(Peer(s)) = s
      /\ \A t \in Side : t = s \/ t = Peer(s)
      /\ \A t \in Side : Peer(t) \in Side
  BY Ends
<1>3. sess \in [Side -> SessT] /\ pipe \in [Side -> Seq(Frames)]
  BY <1>1 DEF Typed
<1>4. /\ sess' \in [Side -> SessT] /\ sess'[s] = ss
      /\ \A t \in Side : t # s => sess'[t] = sess[t]
  BY <1>0, <1>3
<1>5. \A t \in Side : /\ sess'[t].die = sess[t].die
                      /\ sess'[t].hand = sess[t].hand /\ sess'[t].queue = sess[t].queue
                      /\ sess'[t].recv = sess[t].recv /\ sess'[t].charge = sess[t].charge
                      /\ sess'[t].to = sess[t].to
  BY <1>0, <1>4
<1>6. \A t \in Side : Path(t)' = Path(t)
  BY <1>0, <1>2, <1>5 DEF Path
<1>7. \A t \in Side, j \in Stream : Keeps(Path(t), Path(t)', Cmds, j)
  BY <1>1, <1>6, PathTypes, KeepsSame
<1>8. \A t \in Side :
           /\ Len(sess'[t].hand) <= 1
           /\ sess[t].die => sess'[t].die
           /\ IF sess'[t].recv = "charge" THEN sess'[t].to \in Stream
              ELSE sess'[t].charge = 0
           /\ t # s => sess'[t].bucket - sess'[t].charge = sess[t].bucket - sess[t].charge
           /\ \A j \in Stream : j # i => Keeps(Path(t), Path(t)', Cmds, j)
  BY <1>1, <1>4, <1>5, <1>7 DEF Loops
<1>9. sess'[s].bucket - sess'[s].charge + Bytes(u.buffers)
        = sess[s].bucket - sess[s].charge + Bytes(str[s][i].buffers)
  <2>1. sess[s] \in SessT /\ str[s][i] \in StrT
    BY <1>1 DEF Typed
  <2>2. u.buffers \in Seq(Seq(Nat)) /\ str[s][i].buffers \in Seq(Seq(Nat))
    BY <2>1, StrFields
  <2>3. Bytes(u.buffers) \in Nat /\ Bytes(str[s][i].buffers) \in Nat
    BY <2>2, BytesCount
  <2>4. sess[s].bucket \in Int /\ ss.bucket \in Int /\ sess[s].charge \in Nat
    BY <2>1, SessFields
  <2>5. sess'[s].bucket = ss.bucket /\ sess'[s].charge = sess[s].charge
    BY <1>0, <1>4
  <2> DEFINE m == Bytes(u.buffers)
             n == Bytes(str[s][i].buffers)
             a == ss.bucket
             b == sess[s].bucket
             c == sess[s].charge
  <2>6. /\ m \in Nat /\ n \in Nat /\ a \in Int /\ b \in Int /\ c \in Nat
        /\ a + m = b + n
    BY <1>0, <2>3, <2>4
  <2> HIDE DEF m, n, a, b, c
  <2>7. a - c + m = b - c + n
    BY <2>6
  <2>8. QED
    BY <2>5, <2>7 DEF m, n, a, b, c
<1>10. /\ Good(s, i, u, str[Peer(s)][i], g, sess'[s].die, Path(s)')
       /\ Good(Peer(s), i, str[Peer(s)][i], u, got[Peer(s)][i], sess'[Peer(s)].die,
               Path(Peer(s))')
  BY <1>0, <1>2, <1>5, <1>6
<1>11. pipe' \in [Side -> Seq(Frames)]
  BY <1>0, <1>3
<1>12. Moving(s, i, u, g)
  BY <1>0, <1>4, <1>8, <1>9, <1>10, <1>11 DEF Moving
<1>13. QED
  BY <1>12, Moves

\* ... or which asks for the frame f.
Asking(s, i, u, g, ss, f) ==
  /\ f.sid = i
  /\ str' = [str EXCEPT ![s][i] = u]
  /\ got' = [got EXCEPT ![s][i] = g]
  /\ pipe' = pipe
  /\ sess' = [sess EXCEPT ![s] = ss]
  /\ Apart(sess[s], ss) /\ ss.queue = Append(sess[s].queue, f)
  /\ ss.bucket + Bytes(u.buffers) = sess[s].bucket + Bytes(str[s][i].buffers)
  /\ Both(s, i, u, g, Append(Path(Peer(s)), f))

LEMMA Asks ==
  ASSUME SmuxAssumption, IInv, NEW s \in Side, NEW i \in Stream,
         NEW u \in StrT, NEW g \in Seq(Nat), NEW ss \in SessT, NEW f \in Frames,
         Asking(s, i, u, g, ss, f)
  PROVE  IInv'
<1>0. /\ f.sid = i /\ str' = [str EXCEPT ![s][i] = u] /\ got' = [got EXCEPT ![s][i] = g]
      /\ pipe' = pipe /\ sess' = [sess EXCEPT ![s] = ss]
      /\ ss.die = sess[s].die /\ ss.hand = sess[s].hand
      /\ ss.queue = Append(sess[s].queue, f)
      /\ ss.recv = sess[s].recv /\ ss.charge = sess[s].charge /\ ss.to = sess[s].to
      /\ ss.bucket + Bytes(u.buffers) = sess[s].bucket + Bytes(str[s][i].buffers)
      /\ Good(s, i, u, str[Peer(s)][i], g, sess[s].die, Path(s))
      /\ Good(Peer(s), i, str[Peer(s)][i], u, got[Peer(s)][i], sess[Peer(s)].die,
              Append(Path(Peer(s)), f))
  BY DEF Asking, Apart, Both
<1>1. Typed /\ \A t \in Side : Loops(t)
  BY DEF IInv
<1>2. /\ Peer(s) \in Side /\ Peer(s) # s /\ Peer(Peer(s)) = s
      /\ \A t \in Side : t = s \/ t = Peer(s)
      /\ \A t \in Side : Peer(t) \in Side
  BY Ends
<1>3. sess \in [Side -> SessT] /\ pipe \in [Side -> Seq(Frames)]
  BY <1>1 DEF Typed
<1>4. /\ sess' \in [Side -> SessT] /\ sess'[s] = ss
      /\ \A t \in Side : t # s => sess'[t] = sess[t]
  BY <1>0, <1>3
<1>5. \A t \in Side : /\ sess'[t].die = sess[t].die
                      /\ sess'[t].hand = sess[t].hand
                      /\ sess'[t].recv = sess[t].recv /\ sess'[t].charge = sess[t].charge
                      /\ sess'[t].to = sess[t].to
  BY <1>0, <1>4
<1>6. Path(s)' = Path(s)
  BY <1>0, <1>2, <1>4 DEF Path
<1>7. Path(Peer(s))' = Append(Path(Peer(s)), f)
  <2>1. /\ pipe[Peer(s)] \in Seq(Frames) /\ sess[s].hand \in Seq(Frames)
        /\ sess[s].queue \in Seq(Frames)
    BY <1>1, <1>2, PathTypes
  <2>2. pipe[Peer(s)] \o (sess[s].hand \o Append(sess[s].queue, f))
          = Append(pipe[Peer(s)] \o (sess[s].hand \o sess[s].queue), f)
    BY <2>1, PathAsks, ZenonT(40)
  <2>3. Path(Peer(s))' = pipe[Peer(s)] \o (sess[s].hand \o Append(sess[s].queue, f))
    BY <1>0, <1>2, <1>4, <1>5 DEF Path
  <2>4. Path(Peer(s)) = pipe[Peer(s)] \o (sess[s].hand \o sess[s].queue)
    BY <1>2 DEF Path
  <2>5. QED
    BY <2>2, <2>3, <2>4
<1>a. \A t \in Side : Path(t) \in Seq(Frames)
  BY <1>1, PathTypes
<1>b. \A j \in Stream : j # i => ~ Touches(f, Cmds, j)
  BY <1>0 DEF Touches
<1>8. ASSUME NEW t \in Side, NEW j \in Stream, j # i
      PROVE  Keeps(Path(t), Path(t)', Cmds, j)
  <2>1. CASE t = s
    BY <1>6, <1>a, <2>1, KeepsSame
  <2>2. CASE t = Peer(s)
    <3>1. Path(t) \in Seq(Frames) /\ ~ Touches(f, Cmds, j)
      BY <1>a, <1>b, <1>8
    <3>2. Keeps(Path(t), Append(Path(t), f), Cmds, j)
      BY <3>1, KeepsAppend
    <3>3. QED
      BY <1>7, <2>2, <3>2
  <2>3. QED
    BY <1>2, <2>1, <2>2
<1>9. \A t \in Side :
           /\ Len(sess'[t].hand) <= 1
           /\ sess[t].die => sess'[t].die
           /\ IF sess'[t].recv = "charge" THEN sess'[t].to \in Stream
              ELSE sess'[t].charge = 0
           /\ t # s => sess'[t].bucket - sess'[t].charge = sess[t].bucket - sess[t].charge
           /\ \A j \in Stream : j # i => Keeps(Path(t), Path(t)', Cmds, j)
  BY <1>1, <1>4, <1>5, <1>8 DEF Loops
<1>10. sess'[s].bucket - sess'[s].charge + Bytes(u.buffers)
        = sess[s].bucket - sess[s].charge + Bytes(str[s][i].buffers)
  <2>1. sess[s] \in SessT /\ str[s][i] \in StrT
    BY <1>1 DEF Typed
  <2>2. u.buffers \in Seq(Seq(Nat)) /\ str[s][i].buffers \in Seq(Seq(Nat))
    BY <2>1, StrFields
  <2>3. Bytes(u.buffers) \in Nat /\ Bytes(str[s][i].buffers) \in Nat
    BY <2>2, BytesCount
  <2>4. sess[s].bucket \in Int /\ ss.bucket \in Int /\ sess[s].charge \in Nat
    BY <2>1, SessFields
  <2>5. sess'[s].bucket = ss.bucket /\ sess'[s].charge = sess[s].charge
    BY <1>0, <1>4
  <2> DEFINE m == Bytes(u.buffers)
             n == Bytes(str[s][i].buffers)
             a == ss.bucket
             b == sess[s].bucket
             c == sess[s].charge
  <2>6. /\ m \in Nat /\ n \in Nat /\ a \in Int /\ b \in Int /\ c \in Nat
        /\ a + m = b + n
    BY <1>0, <2>3, <2>4
  <2> HIDE DEF m, n, a, b, c
  <2>7. a - c + m = b - c + n
    BY <2>6
  <2>8. QED
    BY <2>5, <2>7 DEF m, n, a, b, c
<1>11. /\ Good(s, i, u, str[Peer(s)][i], g, sess'[s].die, Path(s)')
       /\ Good(Peer(s), i, str[Peer(s)][i], u, got[Peer(s)][i], sess'[Peer(s)].die,
               Path(Peer(s))')
  BY <1>0, <1>2, <1>5, <1>6, <1>7
<1>12. pipe' \in [Side -> Seq(Frames)]
  BY <1>0, <1>3
<1>13. Moving(s, i, u, g)
  BY <1>0, <1>4, <1>9, <1>10, <1>11, <1>12 DEF Moving
<1>14. QED
  BY <1>13, Moves

-----------------------------------------------------------------------------
(* open_stream and accept_stream.                                          *)

\* What the invariant says of stream i, seen from s
LEMMA Now ==
  ASSUME SmuxAssumption, IInv, NEW s \in Side, NEW i \in Stream
  PROVE  /\ Peer(s) \in Side /\ Peer(s) # s /\ Peer(Peer(s)) = s
         /\ \A t \in Side : t = s \/ t = Peer(s)
         /\ str[s][i] \in StrT /\ str[Peer(s)][i] \in StrT
         /\ got[s][i] \in Seq(Nat) /\ got[Peer(s)][i] \in Seq(Nat)
         /\ sess[s] \in SessT /\ sess[Peer(s)] \in SessT /\ Loops(s)
         /\ Path(s) \in Seq(Frames) /\ Path(Peer(s)) \in Seq(Frames)
         /\ Good(s, i, str[s][i], str[Peer(s)][i], got[s][i], sess[s].die, Path(s))
         /\ Good(Peer(s), i, str[Peer(s)][i], str[s][i], got[Peer(s)][i],
                 sess[Peer(s)].die, Path(Peer(s)))
<1>1. /\ Peer(s) \in Side /\ Peer(s) # s /\ Peer(Peer(s)) = s
      /\ \A t \in Side : t = s \/ t = Peer(s)
  BY Ends
<1>2. Typed /\ Loops(s) /\ GoodAt(s, i) /\ GoodAt(Peer(s), i)
  BY <1>1 DEF IInv
<1>3. /\ str[s][i] \in StrT /\ str[Peer(s)][i] \in StrT
      /\ got[s][i] \in Seq(Nat) /\ got[Peer(s)][i] \in Seq(Nat)
      /\ sess[s] \in SessT /\ sess[Peer(s)] \in SessT
  BY <1>1, <1>2 DEF Typed
<1>4. QED
  BY <1>1, <1>2, <1>3, PathTypes DEF GoodAt

LEMMA SameHistory ==
  ASSUME Typed, NEW s \in Side, NEW i \in Stream
  PROVE  got = [got EXCEPT ![s][i] = got[s][i]]
BY DEF Typed

\* A stream whose open and tabled fields change
Opened(t, o, b) == [t EXCEPT !.open = o, !.tabled = b]

\* What has to be looked at when a stream opens
Opens(s, i, u, new) ==
  /\ Stages(s, u, got[s][i], sess[s].die)
  /\ Intro(s, i, Path(s), u, str[Peer(s)][i])
  /\ Intro(Peer(s), i, new, str[Peer(s)][i], u)
  /\ Bears(i, new, str[Peer(s)][i], str[s][i], got[Peer(s)][i], sess[Peer(s)].die)
  /\ Credit(i, new, str[Peer(s)][i], str[s][i])

LEMMA OpenKeeps ==
  ASSUME SmuxAssumption, IInv, NEW s \in Side, NEW i \in Stream,
         NEW o \in {"no", "syn", "insert", "open", "failed"}, NEW b \in BOOLEAN, NEW new,
         Opens(s, i, Opened(str[s][i], o, b), new)
  PROVE  Both(s, i, Opened(str[s][i], o, b), got[s][i], new)
<1> DEFINE t == str[s][i]
           r == str[Peer(s)][i]
           g == got[s][i]
           h == got[Peer(s)][i]
           u == Opened(str[s][i], o, b)
<1>1. /\ t \in StrT
      /\ Good(s, i, t, r, g, sess[s].die, Path(s))
      /\ Good(Peer(s), i, r, t, h, sess[Peer(s)].die, Path(Peer(s)))
  BY Now
<1>2. /\ u.die = t.die /\ u.fin = t.fin /\ u.buffers = t.buffers
      /\ u.numRead = t.numRead /\ u.reader = t.reader /\ u.taken = t.taken
      /\ u.numWritten = t.numWritten /\ u.consumed = t.consumed
      /\ u.window = t.window /\ u.writer = t.writer /\ u.left = t.left
      /\ u.burst = t.burst /\ u.queued = t.queued /\ u.closer = t.closer
      /\ u.owed = t.owed
  BY <1>1 DEF Opened, StrT
<1>3. /\ Stages(s, u, g, sess[s].die)
      /\ Intro(s, i, Path(s), u, r) /\ Intro(Peer(s), i, new, r, u)
      /\ Bears(i, new, r, t, h, sess[Peer(s)].die) /\ Credit(i, new, r, t)
  BY DEF Opens
<1> HIDE DEF t, r, g, h, u
<1>4. Contents(u, g) /\ Writes(u)
  BY <1>1, <1>2 DEF Good, Contents, Writes, ChunkSize
<1>5. Bears(i, Path(s), u, r, g, sess[s].die) /\ Bears(i, new, r, u, h, sess[Peer(s)].die)
  BY <1>1, <1>2, <1>3 DEF Good, Bears
<1>6. Credit(i, Path(s), u, r) /\ Credit(i, new, r, u)
  BY <1>1, <1>2, <1>3 DEF Good, Credit
<1>7. /\ Good(s, i, u, r, g, sess[s].die, Path(s))
      /\ Good(Peer(s), i, r, u, h, sess[Peer(s)].die, new)
  BY <1>1, <1>3, <1>4, <1>5, <1>6 DEF Good
<1>8. QED
  BY <1>7 DEF Both, t, r, g, h, u

LEMMA OpenInsertsKeeps ==
  ASSUME SmuxAssumption, IInv, NEW s \in Side, NEW i \in Stream, OpenInserts(s, i)
  PROVE  IInv'
<1> DEFINE t == str[s][i]
           r == str[Peer(s)][i]
           u == Opened(str[s][i], "open", TRUE)
<1>1. /\ t.open = "insert" /\ str' = [str EXCEPT ![s][i] = u]
      /\ sess' = sess /\ pipe' = pipe /\ got' = got
  BY DEF OpenInserts, Opened
<1>2. /\ t \in StrT /\ r \in StrT /\ got[s][i] \in Seq(Nat) /\ sess[s] \in SessT
      /\ Good(s, i, t, r, got[s][i], sess[s].die, Path(s))
      /\ Good(Peer(s), i, r, t, got[Peer(s)][i], sess[Peer(s)].die, Path(Peer(s)))
  BY Now
<1>3. /\ u \in StrT /\ u.open = "open" /\ u.tabled
      /\ u.closer = t.closer /\ u.buffers = t.buffers /\ u.die = t.die
      /\ u.queued = t.queued /\ u.writer = t.writer
  BY <1>2 DEF Opened, StrT
<1>4. s = Client /\ t.closer = "no"
  BY <1>1, <1>2 DEF Good, Stages
<1>5. Stages(s, u, got[s][i], sess[s].die)
  BY <1>2, <1>3, <1>4 DEF Good, Stages
<1>6. Intro(s, i, Path(s), u, r) /\ Intro(Peer(s), i, Path(Peer(s)), r, u)
  BY <1>1, <1>2, <1>3, <1>4 DEF Good, Intro
<1>7. Both(s, i, u, got[s][i], Path(Peer(s)))
  <2>1. /\ Bears(i, Path(Peer(s)), r, t, got[Peer(s)][i], sess[Peer(s)].die)
        /\ Credit(i, Path(Peer(s)), r, t)
    BY <1>2 DEF Good
  <2>2. QED
    BY <1>5, <1>6, <2>1, OpenKeeps DEF Opens
<1>8. got' = [got EXCEPT ![s][i] = got[s][i]] /\ sess' = [sess EXCEPT ![s] = sess[s]]
  BY <1>1, SameHistory DEF IInv, Typed
<1>9. sess[s].bucket + Bytes(u.buffers) = sess[s].bucket + Bytes(str[s][i].buffers)
  BY <1>3
<1>10. Quietly(s, i, u, got[s][i], sess[s])
  BY <1>1, <1>3, <1>7, <1>8, <1>9 DEF Quietly, Apart
<1> HIDE DEF u
<1>11. QED
  BY <1>1, <1>2, <1>3, <1>10, Quiet

LEMMA ReturnFields ==
  ASSUME NEW x \in SessT, NEW n \in Nat
  PROVE  LET y == Return(x, n) IN
         /\ y \in SessT /\ y.die = x.die /\ y.hand = x.hand /\ y.queue = x.queue
         /\ y.recv = x.recv /\ y.charge = x.charge /\ y.to = x.to
         /\ y.bucket = x.bucket + n
<1>1. x.bucket + n \in Int /\ (x.permit \/ x.bucket + n > 0) \in BOOLEAN
  BY SessFields
<1>2. QED
  BY <1>1 DEF SessT, Return

LEMMA QueuedFields ==
  ASSUME NEW x \in SessT, NEW f \in Frames
  PROVE  LET y == Queued(x, f) IN
         /\ y \in SessT /\ y.die = x.die /\ y.hand = x.hand /\ y.queue = Append(x.queue, f)
         /\ y.recv = x.recv /\ y.charge = x.charge /\ y.to = x.to /\ y.bucket = x.bucket
<1>1. x.queue \in Seq(Frames) /\ Append(x.queue, f) \in Seq(Frames)
  BY SessFields
<1>2. QED
  BY <1>1 DEF SessT, Queued

\* The SYN's answer came, or did not.
LEMMA OpenAnswers ==
  ASSUME SmuxAssumption, IInv, NEW s \in Side, NEW i \in Stream, NEW ss \in SessT,
         NEW o \in {"insert", "failed"},
         str[s][i].open = "syn", str' = [str EXCEPT ![s][i].open = o],
         sess' = [sess EXCEPT ![s] = ss], pipe' = pipe, got' = got,
         ss.die = sess[s].die, ss.hand = sess[s].hand, ss.queue = sess[s].queue,
         ss.recv = sess[s].recv, ss.charge = sess[s].charge, ss.to = sess[s].to,
         ss.bucket = sess[s].bucket
  PROVE  IInv'
<1> DEFINE t == str[s][i]
           r == str[Peer(s)][i]
           u == Opened(str[s][i], o, str[s][i].tabled)
<1>1. /\ t \in StrT /\ r \in StrT /\ got[s][i] \in Seq(Nat)
      /\ Good(s, i, t, r, got[s][i], sess[s].die, Path(s))
      /\ Good(Peer(s), i, r, t, got[Peer(s)][i], sess[Peer(s)].die, Path(Peer(s)))
  BY Now
<1>2. /\ u \in StrT /\ u.open = o /\ u.tabled = t.tabled
      /\ u.closer = t.closer /\ u.buffers = t.buffers /\ u.die = t.die
      /\ u.queued = t.queued /\ u.writer = t.writer
  <2>1. t.tabled \in BOOLEAN
    BY <1>1, StrFields
  <2>2. QED
    BY <1>1, <2>1 DEF Opened, StrT
<1>3. str' = [str EXCEPT ![s][i] = u]
  <2>1. u = [t EXCEPT !.open = o]
    BY <1>1 DEF StrT, Opened
  <2>2. QED
    BY <2>1
<1>4. s = Client /\ t.closer = "no"
  BY <1>1 DEF Good, Stages
<1>5. Stages(s, u, got[s][i], sess[s].die)
  BY <1>1, <1>2, <1>4 DEF Good, Stages
<1>6. Intro(s, i, Path(s), u, r) /\ Intro(Peer(s), i, Path(Peer(s)), r, u)
  BY <1>1, <1>2, <1>4 DEF Good, Intro
<1>7. Both(s, i, u, got[s][i], Path(Peer(s)))
  <2>1. /\ Bears(i, Path(Peer(s)), r, t, got[Peer(s)][i], sess[Peer(s)].die)
        /\ Credit(i, Path(Peer(s)), r, t)
    BY <1>1 DEF Good
  <2>2. t.tabled \in BOOLEAN
    BY <1>1, StrFields
  <2>3. QED
    BY <1>5, <1>6, <2>1, <2>2, OpenKeeps DEF Opens
<1>8. got' = [got EXCEPT ![s][i] = got[s][i]]
  BY SameHistory DEF IInv
<1>9. ss.bucket + Bytes(u.buffers) = sess[s].bucket + Bytes(str[s][i].buffers)
  BY <1>2
<1>10. Quietly(s, i, u, got[s][i], ss)
  BY <1>1, <1>3, <1>7, <1>8, <1>9 DEF Quietly, Apart
<1> HIDE DEF u
<1>11. QED
  BY <1>1, <1>2, <1>3, <1>10, Quiet

LEMMA OpenChecksKeeps ==
  ASSUME SmuxAssumption, IInv, NEW s \in Side, NEW i \in Stream, OpenChecks(s, i)
  PROVE  IInv'
<1> DEFINE ss == Result(sess[s], "SYN", i)
           o == IF sess[s].readError \/ Refused(s) THEN "failed" ELSE "insert"
<1>1. /\ str[s][i].open = "syn" /\ str' = [str EXCEPT ![s][i].open = o]
      /\ sess' = [sess EXCEPT ![s] = ss] /\ pipe' = pipe /\ got' = got
  BY DEF OpenChecks
<1>2. /\ ss \in SessT /\ ss.die = sess[s].die /\ ss.hand = sess[s].hand
      /\ ss.queue = sess[s].queue /\ ss.recv = sess[s].recv /\ ss.charge = sess[s].charge
      /\ ss.to = sess[s].to /\ ss.bucket = sess[s].bucket
  <2>1. sess[s] \in SessT
    BY Now
  <2>2. QED
    BY <2>1 DEF Result, SessT
<1>3. o \in {"insert", "failed"}
  OBVIOUS
<1> HIDE DEF ss, o
<1>4. QED
  BY <1>1, <1>2, <1>3, OpenAnswers

LEMMA OpenFailsKeeps ==
  ASSUME SmuxAssumption, IInv, NEW s \in Side, NEW i \in Stream, OpenFails(s, i)
  PROVE  IInv'
<1>1. /\ str[s][i].open = "syn" /\ str' = [str EXCEPT ![s][i].open = "failed"]
      /\ sess' = sess /\ pipe' = pipe /\ got' = got
  BY DEF OpenFails
<1>2. sess' = [sess EXCEPT ![s] = sess[s]] /\ sess[s] \in SessT
  BY <1>1 DEF IInv, Typed
<1>3. QED
  BY <1>1, <1>2, OpenAnswers

LEMMA AcceptKeeps ==
  ASSUME SmuxAssumption, IInv, NEW s \in Side, NEW i \in Stream, Accept(s, i)
  PROVE  IInv'
<1> DEFINE t == str[s][i]
           r == str[Peer(s)][i]
           u == Opened(str[s][i], "open", str[s][i].tabled)
<1>1. /\ s # Client /\ t.open = "no" /\ t.tabled
      /\ str' = [str EXCEPT ![s][i].open = "open"]
      /\ sess' = sess /\ pipe' = pipe /\ got' = got
  BY DEF Accept
<1>2. /\ t \in StrT /\ r \in StrT /\ got[s][i] \in Seq(Nat) /\ sess[s] \in SessT
      /\ Good(s, i, t, r, got[s][i], sess[s].die, Path(s))
      /\ Good(Peer(s), i, r, t, got[Peer(s)][i], sess[Peer(s)].die, Path(Peer(s)))
      /\ Peer(s) = Client
  <2>1. Peer(s) = Client
    BY <1>1, Ends DEF SmuxAssumption
  <2>2. QED
    BY <2>1, Now
<1>3. /\ u \in StrT /\ u.open = "open" /\ u.tabled = t.tabled
      /\ u.closer = t.closer /\ u.buffers = t.buffers /\ u.die = t.die
      /\ u.queued = t.queued /\ u.writer = t.writer
  <2>1. t.tabled \in BOOLEAN
    BY <1>2, StrFields
  <2>2. QED
    BY <1>2, <2>1 DEF Opened, StrT
<1>4. str' = [str EXCEPT ![s][i] = u]
  <2>1. u = [t EXCEPT !.open = "open"]
    BY <1>2 DEF StrT, Opened
  <2>2. QED
    BY <1>1, <2>1
<1>5. Stages(s, u, got[s][i], sess[s].die)
  BY <1>1, <1>2, <1>3 DEF Good, Stages
<1>6. Intro(s, i, Path(s), u, r) /\ Intro(Peer(s), i, Path(Peer(s)), r, u)
  BY <1>1, <1>2, <1>3 DEF Good, Intro
<1>7. Both(s, i, u, got[s][i], Path(Peer(s)))
  <2>1. /\ Bears(i, Path(Peer(s)), r, t, got[Peer(s)][i], sess[Peer(s)].die)
        /\ Credit(i, Path(Peer(s)), r, t)
    BY <1>2 DEF Good
  <2>2. t.tabled \in BOOLEAN
    BY <1>2, StrFields
  <2>3. QED
    BY <1>5, <1>6, <2>1, <2>2, OpenKeeps DEF Opens
<1>8. got' = [got EXCEPT ![s][i] = got[s][i]] /\ sess' = [sess EXCEPT ![s] = sess[s]]
  BY <1>1, SameHistory DEF IInv, Typed
<1>9. sess[s].bucket + Bytes(u.buffers) = sess[s].bucket + Bytes(str[s][i].buffers)
  BY <1>3
<1>10. Quietly(s, i, u, got[s][i], sess[s])
  BY <1>1, <1>4, <1>7, <1>8, <1>9 DEF Quietly, Apart
<1> HIDE DEF u
<1>11. QED
  BY <1>1, <1>2, <1>3, <1>10, Quiet

LEMMA OpenStartKeeps ==
  ASSUME SmuxAssumption, IInv, NEW s \in Side, NEW i \in Stream, OpenStart(s, i)
  PROVE  IInv'
<1> DEFINE t == str[s][i]
           r == str[Peer(s)][i]
           o == IF Refused(s) THEN "failed" ELSE "syn"
           u == Opened(str[s][i], o, str[s][i].tabled)
           f == Frame("SYN", i, <<>>)
           g == got[s][i]
           h == got[Peer(s)][i]
           back == Path(Peer(s))
           new == IF Refused(s) THEN back ELSE Append(back, f)
<1>1. /\ s = Client /\ t.open = "no" /\ str' = [str EXCEPT ![s][i].open = o]
      /\ sess' = IF Refused(s) THEN sess ELSE [sess EXCEPT ![s] = Queued(sess[s], f)]
      /\ pipe' = pipe /\ got' = got
  BY DEF OpenStart
<1>2. /\ t \in StrT /\ r \in StrT /\ g \in Seq(Nat) /\ sess[s] \in SessT
      /\ back \in Seq(Frames) /\ Peer(s) \in Side /\ Peer(s) # s
      /\ Good(s, i, t, r, g, sess[s].die, Path(s))
      /\ Good(Peer(s), i, r, t, h, sess[Peer(s)].die, back)
  BY Now
<1>3. /\ u \in StrT /\ u.open = o /\ u.tabled = t.tabled
      /\ u.closer = t.closer /\ u.buffers = t.buffers /\ u.die = t.die
      /\ u.queued = t.queued /\ u.writer = t.writer /\ o \in {"failed", "syn"}
  <2>1. t.tabled \in BOOLEAN
    BY <1>2, StrFields
  <2>2. QED
    BY <1>2, <2>1 DEF Opened, StrT
<1>4. str' = [str EXCEPT ![s][i] = u]
  <2>1. u = [t EXCEPT !.open = o]
    BY <1>2 DEF StrT, Opened
  <2>2. QED
    BY <1>1, <2>1
<1>5. f \in Frames /\ f.sid = i /\ f.cmd = "SYN"
  BY DEF Frame, Frames
<1>6. /\ t.closer = "no" /\ t.queued = 0 /\ ~ HasSyn(back, i) /\ ~ r.tabled
      /\ r.closer = "no" /\ Peer(s) # Client
  <2>1. t.queued \in Nat
    BY <1>2, StrFields
  <2>2. QED
    BY <1>1, <1>2, <2>1 DEF Good, Stages, Intro
<1>7. \A k \in DOMAIN back : ~ Touches(back[k], {"PSH", "FIN"}, i)
  <2>1. ASSUME NEW k \in DOMAIN back, Is(back[k], "PSH", i)
        PROVE  FALSE
    <3>1. Stretch(back, i, r.numRead + Bytes(r.buffers), 0)
      BY <1>2, <1>6 DEF Good, Bears
    <3>2. Run(back[k].data) /\ FirstByte(back[k]) > r.numRead + Bytes(r.buffers)
          /\ LastByte(back[k]) <= 0 /\ r.numRead + Bytes(r.buffers) \in Nat
      BY <2>1, <3>1 DEF Stretch
    <3>3. back[k].data[1] \in Nat /\ Len(back[k].data) \in Nat /\ Len(back[k].data) >= 1
      BY <3>2, RunStarts
    <3>4. QED
      BY <3>2, <3>3 DEF FirstByte, LastByte
  <2>2. \A k \in DOMAIN back : ~ Is(back[k], "FIN", i)
    BY <1>2, <1>6 DEF Good, Bears
  <2>3. QED
    BY <2>1, <2>2 DEF Is, Touches
<1>8. Stages(s, u, g, sess[s].die)
  BY <1>1, <1>2, <1>3, <1>6 DEF Good, Stages
<1>9. /\ SynFirst(new, i) /\ (HasSyn(new, i) <=> ~ Refused(s))
      /\ (\A a, b : Stretch(back, i, a, b) => Stretch(new, i, a, b))
      /\ (\A x : FinsLast(back, i, x) => FinsLast(new, i, x))
      /\ (\A a, b : Updates(back, i, a, b) => Updates(new, i, a, b))
      /\ \A k \in DOMAIN new : ~ Is(new[k], "FIN", i)
  <2>1. CASE Refused(s)
    BY <1>2, <1>6, <1>7, <2>1 DEF Good, Intro, Is, Touches
  <2>2. CASE ~ Refused(s)
    <3>1. new = Append(back, f)
      BY <2>2
    <3>2. SynFirst(new, i)
      <4>1. DOMAIN new = 1 .. Len(back) + 1 /\ Len(back) \in Nat
            /\ DOMAIN back = 1 .. Len(back)
            /\ \A k \in 1 .. Len(back) : new[k] = back[k]
            /\ new[Len(back) + 1] = f
        BY <1>2, <1>5, <3>1
      <4>2. \A k \in DOMAIN new : \/ k \in DOMAIN back /\ new[k] = back[k] /\ k < Len(back) + 1
                                  \/ k = Len(back) + 1 /\ new[k] = f
        BY <4>1
      <4>3. \A k \in DOMAIN back : ~ Is(back[k], "SYN", i)
        BY <1>6 DEF HasSyn
      <4>4. \A k \in DOMAIN new : ~ Touches(new[k], {"PSH", "FIN"}, i)
        BY <1>5, <1>7, <4>2 DEF Touches
      <4>5. \A k \in DOMAIN new : Is(new[k], "SYN", i) => k = Len(back) + 1
        BY <4>2, <4>3
      <4>6. QED
        BY <4>4, <4>5 DEF SynFirst
    <3>3. HasSyn(new, i)
      BY <1>2, <1>5, <3>1, OthersAppend DEF Is
    <3>4. Keeps(back, new, {"PSH", "FIN", "UPD"}, i)
      <4>1. ~ Touches(f, {"PSH", "FIN", "UPD"}, i)
        BY <1>5 DEF Touches
      <4>2. QED
        BY <1>2, <1>5, <3>1, <4>1, KeepsAppend
    <3>5. new \in Seq(Frames)
      BY <1>2, <1>5, <3>1
    <3>6. \A a, b : Stretch(back, i, a, b) => Stretch(new, i, a, b)
      BY <3>4, StretchKeeps
    <3>7. /\ \A x : FinsLast(back, i, x) => FinsLast(new, i, x)
          /\ \A a, b : Updates(back, i, a, b) => Updates(new, i, a, b)
          /\ (\A k \in DOMAIN back : ~ Is(back[k], "FIN", i)) =>
              \A k \in DOMAIN new : ~ Is(new[k], "FIN", i)
      <4> DEFINE some == {"PSH", "FIN", "UPD"}
      <4>1. {"PSH", "FIN"} \subseteq some /\ "UPD" \in some /\ "FIN" \in some
        OBVIOUS
      <4>2. Keeps(back, new, some, i)
        BY <3>4
      <4> HIDE DEF some
      <4>3. \A x : FinsLast(back, i, x) => FinsLast(new, i, x)
        <5>1. ~ Is(f, "PSH", i)
          BY <1>5 DEF Is
        <5>2. \A x : FinsLast(back, i, x) => FinsLast(Append(back, f), i, x)
          BY <1>2, <1>5, <5>1, OthersAppend
        <5>3. QED
          BY <3>1, <5>2
      <4>4. \A a, b : Updates(back, i, a, b) => Updates(new, i, a, b)
        BY <1>2, <3>5, <4>1, <4>2, OthersKeep
      <4>5. (\A k \in DOMAIN back : ~ Is(back[k], "FIN", i)) =>
              \A k \in DOMAIN new : ~ Is(new[k], "FIN", i)
        BY <1>2, <3>5, <4>1, <4>2, OthersKeep
      <4>6. QED
        BY <4>3, <4>4, <4>5
    <3>8. QED
      BY <1>7, <2>2, <3>2, <3>3, <3>6, <3>7 DEF Is, Touches
  <2>3. QED
    BY <2>1, <2>2
<1>10. Intro(s, i, Path(s), u, r) /\ Intro(Peer(s), i, new, r, u)
  BY <1>1, <1>2, <1>3, <1>6, <1>9 DEF Good, Intro
<1>11. Bears(i, new, r, t, h, sess[Peer(s)].die) /\ Credit(i, new, r, t)
  BY <1>2, <1>9 DEF Good, Bears, Credit
<1>12. Both(s, i, u, g, new)
  <2>1. t.tabled \in BOOLEAN
    BY <1>2, StrFields
  <2>2. QED
    BY <1>3, <1>8, <1>10, <1>11, <2>1, OpenKeeps DEF Opens
<1>13. got' = [got EXCEPT ![s][i] = g]
  BY <1>1, SameHistory DEF IInv
<1>14. u.buffers = str[s][i].buffers
  BY <1>3
<1>15. CASE Refused(s)
  <2>1. sess' = [sess EXCEPT ![s] = sess[s]] /\ new = back
    BY <1>1, <1>15 DEF IInv, Typed
  <2>2. sess[s].bucket + Bytes(u.buffers) = sess[s].bucket + Bytes(str[s][i].buffers)
    BY <1>14
  <2>3. Quietly(s, i, u, g, sess[s])
    BY <1>1, <1>4, <1>12, <1>13, <2>1, <2>2 DEF Quietly, Apart
  <2> HIDE DEF u, g
  <2>4. QED
    BY <1>2, <1>3, <2>3, Quiet
<1>16. CASE ~ Refused(s)
  <2> DEFINE ss == Queued(sess[s], f)
  <2>1. sess' = [sess EXCEPT ![s] = ss] /\ new = Append(back, f)
    BY <1>1, <1>16
  <2>2. /\ ss \in SessT /\ ss.die = sess[s].die /\ ss.hand = sess[s].hand
        /\ ss.queue = Append(sess[s].queue, f)
        /\ ss.recv = sess[s].recv /\ ss.charge = sess[s].charge /\ ss.to = sess[s].to
        /\ ss.bucket = sess[s].bucket
    BY <1>2, <1>5, QueuedFields
  <2>3. ss.bucket + Bytes(u.buffers) = sess[s].bucket + Bytes(str[s][i].buffers)
    BY <1>14, <2>2
  <2>4. Asking(s, i, u, g, ss, f)
    BY <1>1, <1>4, <1>5, <1>12, <1>13, <2>1, <2>2, <2>3 DEF Asking, Apart
  <2> HIDE DEF u, g, ss, f
  <2>5. QED
    BY <1>2, <1>3, <1>5, <2>2, <2>4, Asks
<1>17. QED
  BY <1>15, <1>16

-----------------------------------------------------------------------------
(* close.                                                                  *)

LEMMA StretchOther ==
  ASSUME NEW path \in Seq(Frames), NEW f \in Frames, NEW i, ~ Is(f, "PSH", i)
  PROVE  \A a, b : Stretch(path, i, a, b) => Stretch(Append(path, f), i, a, b)
<1> DEFINE some == {"PSH"}
<1>1. "PSH" \in some /\ ~ Touches(f, some, i)
  BY DEF Touches, Is
<1> HIDE DEF some
<1>2. Keeps(path, Append(path, f), some, i)
  BY <1>1, KeepsAppend
<1>3. QED
  BY <1>1, <1>2, StretchKeeps

\* A FIN more
LEMMA FinAppend ==
  ASSUME NEW path \in Seq(Frames), NEW f \in Frames, NEW i, Is(f, "FIN", i)
  PROVE  LET new == Append(path, f)
         IN  /\ \A a, b : Stretch(path, i, a, b) => Stretch(new, i, a, b)
             /\ \A a, b : Updates(path, i, a, b) => Updates(new, i, a, b)
             /\ \A o : FinsLast(path, i, o) => FinsLast(new, i, o)
             /\ SynFirst(path, i) => SynFirst(new, i)
             /\ HasSyn(new, i) <=> HasSyn(path, i)
<1>1. ~ Is(f, "PSH", i) /\ ~ Is(f, "UPD", i) /\ ~ Is(f, "SYN", i)
  BY DEF Is
<1>2. \A a, b : Stretch(path, i, a, b) => Stretch(Append(path, f), i, a, b)
  BY <1>1, StretchOther
<1>3. \A a, b : Updates(path, i, a, b) => Updates(Append(path, f), i, a, b)
  BY <1>1, OthersAppend
<1>4. \A o : FinsLast(path, i, o) => FinsLast(Append(path, f), i, o)
  BY <1>1, OthersAppend
<1>5. /\ SynFirst(path, i) => SynFirst(Append(path, f), i)
      /\ HasSyn(Append(path, f), i) <=> HasSyn(path, i)
  BY <1>1, OthersAppend
<1>6. QED
  BY <1>2, <1>3, <1>4, <1>5

LEMMA CloseStartKeeps ==
  ASSUME SmuxAssumption, IInv, NEW s \in Side, NEW i \in Stream, CloseStart(s, i)
  PROVE  IInv'
<1> DEFINE t == str[s][i]
           r == str[Peer(s)][i]
           g == got[s][i]
           h == got[Peer(s)][i]
           u == [str[s][i] EXCEPT !.die = TRUE, !.closer = "fin", !.owed = str[s][i].queued]
           f == Frame("FIN", i, <<>>)
           back == Path(Peer(s))
           new == IF Refused(s) THEN back ELSE Append(back, f)
<1>1. /\ Spoken(s, i) /\ t.open = "open" /\ ~ t.die
      /\ str' = [str EXCEPT ![s][i] = u]
      /\ sess' = IF Refused(s) THEN sess ELSE [sess EXCEPT ![s] = Queued(sess[s], f)]
      /\ pipe' = pipe /\ got' = got
  BY DEF CloseStart
<1>2. /\ t \in StrT /\ r \in StrT /\ g \in Seq(Nat) /\ sess[s] \in SessT
      /\ back \in Seq(Frames) /\ Peer(s) \in Side /\ Peer(s) # s
      /\ Good(s, i, t, r, g, sess[s].die, Path(s))
      /\ Good(Peer(s), i, r, t, h, sess[Peer(s)].die, back)
  BY Now
<1>3. /\ u \in StrT /\ u.die /\ u.closer = "fin" /\ u.owed = t.queued
      /\ u.open = t.open /\ u.tabled = t.tabled /\ u.fin = t.fin /\ u.buffers = t.buffers
      /\ u.numRead = t.numRead /\ u.reader = t.reader /\ u.taken = t.taken
      /\ u.numWritten = t.numWritten /\ u.consumed = t.consumed
      /\ u.window = t.window /\ u.writer = t.writer /\ u.left = t.left
      /\ u.burst = t.burst /\ u.queued = t.queued
  BY <1>2 DEF StrT
<1>4. f \in Frames /\ f.sid = i /\ Is(f, "FIN", i)
  BY DEF Frame, Frames, Is
<1>5. t.closer = "no" /\ t.tabled /\ t.queued \in Nat
  <2>1. t.queued \in Nat
    BY <1>2, StrFields
  <2>2. QED
    BY <1>1, <1>2, <2>1 DEF Good, Stages
<1>6. /\ \A a, b : Stretch(back, i, a, b) => Stretch(new, i, a, b)
      /\ \A a, b : Updates(back, i, a, b) => Updates(new, i, a, b)
      /\ \A o : FinsLast(back, i, o) => FinsLast(new, i, o)
      /\ SynFirst(back, i) => SynFirst(new, i)
      /\ HasSyn(new, i) <=> HasSyn(back, i)
  <2>1. CASE Refused(s)
    BY <2>1
  <2>2. CASE ~ Refused(s)
    <3>1. new = Append(back, f)
      BY <2>2
    <3> HIDE DEF new, back, f
    <3>2. QED
      BY <1>2, <1>4, <3>1, FinAppend
  <2>3. QED
    BY <2>1, <2>2
<1> HIDE DEF t, r, g, h, u, f, back, new
<1>7. Good(s, i, u, r, g, sess[s].die, Path(s))
  <2>1. Contents(u, g) /\ Credit(i, Path(s), u, r)
    BY <1>2, <1>3 DEF Good, Contents, Credit
  <2>2. Stages(s, u, g, sess[s].die)
    BY <1>1, <1>2, <1>3, <1>5 DEF Good, Stages, Spoken, g
  <2>3. Writes(u)
    BY <1>2, <1>3, <1>5 DEF Good, Writes, ChunkSize
  <2>4. Bears(i, Path(s), u, r, g, sess[s].die)
    BY <1>2, <1>3, <1>5 DEF Good, Bears
  <2>5. Intro(s, i, Path(s), u, r)
    BY <1>2, <1>3, <1>5 DEF Good, Intro
  <2>6. QED
    BY <2>1, <2>2, <2>3, <2>4, <2>5 DEF Good
<1>8. Good(Peer(s), i, r, u, h, sess[Peer(s)].die, new)
  <2>1. Contents(r, h) /\ Writes(r) /\ Stages(Peer(s), r, h, sess[Peer(s)].die)
    BY <1>2 DEF Good
  <2>2. Credit(i, new, r, u)
    BY <1>2, <1>3, <1>6 DEF Good, Credit
  <2>3. Intro(Peer(s), i, new, r, u)
    BY <1>2, <1>3, <1>6 DEF Good, Intro
  <2>4. FinsLast(back, i, u.owed) /\ ~ r.fin
    BY <1>2, <1>5 DEF Good, Bears, FinsLast
  <2>5. Bears(i, new, r, u, h, sess[Peer(s)].die)
    BY <1>2, <1>3, <1>5, <1>6, <2>4 DEF Good, Bears
  <2>6. QED
    BY <2>1, <2>2, <2>3, <2>5 DEF Good
<1>9. Both(s, i, u, g, new)
  BY <1>7, <1>8 DEF Both, r, h
<1>10. got' = [got EXCEPT ![s][i] = g]
  BY <1>1, SameHistory DEF IInv, g
<1>11. u.buffers = str[s][i].buffers
  BY <1>3 DEF t
<1>12. CASE Refused(s)
  <2>1. sess' = [sess EXCEPT ![s] = sess[s]] /\ new = Path(Peer(s))
    BY <1>1, <1>12 DEF IInv, Typed, new, back
  <2>2. sess[s].bucket + Bytes(u.buffers) = sess[s].bucket + Bytes(str[s][i].buffers)
    BY <1>11
  <2>3. Quietly(s, i, u, g, sess[s])
    BY <1>1, <1>9, <1>10, <2>1, <2>2 DEF Quietly, Apart
  <2>4. QED
    BY <1>2, <1>3, <2>3, Quiet
<1>13. CASE ~ Refused(s)
  <2> DEFINE ss == Queued(sess[s], f)
  <2>1. sess' = [sess EXCEPT ![s] = ss] /\ new = Append(Path(Peer(s)), f)
    BY <1>1, <1>13 DEF new, back
  <2>2. /\ ss \in SessT /\ ss.die = sess[s].die /\ ss.hand = sess[s].hand
        /\ ss.queue = Append(sess[s].queue, f)
        /\ ss.recv = sess[s].recv /\ ss.charge = sess[s].charge /\ ss.to = sess[s].to
        /\ ss.bucket = sess[s].bucket
    BY <1>2, <1>4, QueuedFields
  <2>3. ss.bucket + Bytes(u.buffers) = sess[s].bucket + Bytes(str[s][i].buffers)
    BY <1>11, <2>2
  <2>4. Asking(s, i, u, g, ss, f)
    BY <1>1, <1>4, <1>9, <1>10, <2>1, <2>2, <2>3 DEF Asking, Apart
  <2> HIDE DEF ss
  <2>5. QED
    BY <1>2, <1>3, <1>4, <2>2, <2>4, Asks
<1>14. QED
  BY <1>12, <1>13

LEMMA CloseEndsKeeps ==
  ASSUME SmuxAssumption, IInv, NEW s \in Side, NEW i \in Stream, CloseEnds(s, i)
  PROVE  IInv'
<1> DEFINE t == str[s][i]
           r == str[Peer(s)][i]
           g == got[s][i]
           h == got[Peer(s)][i]
           n == Bytes(str[s][i].buffers)
           u == [str[s][i] EXCEPT !.closer = "done", !.tabled = FALSE, !.buffers = <<>>]
           x == Result(sess[s], "FIN", i)
           ss == IF n > 0 THEN Return(x, n) ELSE x
<1>0. t.closer = "fin" /\ Recycle(s, i) /\ pipe' = pipe /\ got' = got
  BY DEF CloseEnds
<1>2. /\ t \in StrT /\ r \in StrT /\ g \in Seq(Nat) /\ sess[s] \in SessT
      /\ Good(s, i, t, r, g, sess[s].die, Path(s))
      /\ Good(Peer(s), i, r, t, h, sess[Peer(s)].die, Path(Peer(s)))
  BY Now
<1>3. t.tabled /\ t.open = "open" /\ t.die
  BY <1>0, <1>2 DEF Good, Stages
<1>1. /\ t.closer = "fin" /\ str' = [str EXCEPT ![s][i] = u]
      /\ sess' = [sess EXCEPT ![s] = IF t.tabled /\ n > 0 THEN Return(x, n) ELSE x]
      /\ pipe' = pipe /\ got' = got
  <2>1. str' = [str EXCEPT ![s][i] = u]
    BY <1>0, <1>3 DEF Recycle
  <2>2. sess' = [sess EXCEPT ![s] = IF t.tabled /\ n > 0 THEN Return(x, n) ELSE x]
    BY <1>0 DEF Recycle
  <2>3. QED
    BY <1>0, <2>1, <2>2
<1>4. /\ u \in StrT /\ u.closer = "done" /\ ~ u.tabled /\ u.buffers = <<>>
      /\ u.open = t.open /\ u.die = t.die /\ u.fin = t.fin /\ u.owed = t.owed
      /\ u.numRead = t.numRead /\ u.reader = t.reader /\ u.taken = t.taken
      /\ u.numWritten = t.numWritten /\ u.consumed = t.consumed
      /\ u.window = t.window /\ u.writer = t.writer /\ u.left = t.left
      /\ u.burst = t.burst /\ u.queued = t.queued
  <2> DEFINE e == <<>>
             v == [str[s][i] EXCEPT !.closer = "done", !.tabled = FALSE, !.buffers = e]
  <2>1. e \in Seq(Seq(Nat)) /\ u = v /\ e = <<>>
    OBVIOUS
  <2> HIDE DEF e, u
  <2>0. str[s][i] \in StrT
    BY <1>2
  <2>a. v \in StrT
    BY <2>0, <2>1 DEF StrT
  <2>2. /\ v \in StrT /\ v.closer = "done" /\ ~ v.tabled /\ v.buffers = e
        /\ v.open = t.open /\ v.die = t.die /\ v.fin = t.fin /\ v.owed = t.owed
        /\ v.numRead = t.numRead /\ v.reader = t.reader /\ v.taken = t.taken
        /\ v.numWritten = t.numWritten /\ v.consumed = t.consumed
        /\ v.window = t.window /\ v.writer = t.writer /\ v.left = t.left
        /\ v.burst = t.burst /\ v.queued = t.queued
    BY <2>0, <2>1, <2>a, SMTT(60) DEF StrT
  <2> HIDE DEF v
  <2>3. QED
    BY <2>1, <2>2
<1>5. n \in Nat /\ Bytes(u.buffers) = 0
  <2>1. t.buffers \in Seq(Seq(Nat))
    BY <1>2, StrFields
  <2>2. QED
    BY <1>4, <2>1, BytesCount, BytesEmpty
<1>6. sess' = [sess EXCEPT ![s] = ss]
  BY <1>1, <1>3
<1>7. /\ ss \in SessT /\ ss.die = sess[s].die /\ ss.hand = sess[s].hand
      /\ ss.queue = sess[s].queue /\ ss.recv = sess[s].recv /\ ss.charge = sess[s].charge
      /\ ss.to = sess[s].to /\ ss.bucket = sess[s].bucket + n
  <2>1. /\ x \in SessT /\ x.die = sess[s].die /\ x.hand = sess[s].hand
        /\ x.queue = sess[s].queue /\ x.recv = sess[s].recv /\ x.charge = sess[s].charge
        /\ x.to = sess[s].to /\ x.bucket = sess[s].bucket /\ x.bucket \in Int
    BY <1>2 DEF SessT, Result
  <2> HIDE DEF x, n
  <2>2. LET y == Return(x, n)
        IN  /\ y \in SessT /\ y.die = x.die /\ y.hand = x.hand
            /\ y.queue = x.queue /\ y.recv = x.recv /\ y.charge = x.charge
            /\ y.to = x.to /\ y.bucket = x.bucket + n
    BY <1>5, <2>1, ReturnFields
  <2>3. QED
    BY <1>5, <2>1, <2>2
<1> HIDE DEF t, r, g, h, u, ss, n
<1>8. Good(s, i, u, r, g, sess[s].die, Path(s))
  <2>1. Contents(u, g)
    <3>1. Chained(u.buffers, u.numRead)
      BY <1>4 DEF Chained
    <3>2. QED
      BY <1>2, <1>4, <3>1 DEF Good, Contents
  <2>2. Stages(s, u, g, sess[s].die)
    BY <1>1, <1>2, <1>3, <1>4 DEF Good, Stages
  <2>3. Writes(u) /\ Credit(i, Path(s), u, r)
    BY <1>2, <1>4 DEF Good, Writes, ChunkSize, Credit
  <2>4. Bears(i, Path(s), u, r, g, sess[s].die)
    BY <1>2, <1>4 DEF Good, Bears
  <2>5. Intro(s, i, Path(s), u, r)
    BY <1>1, <1>2, <1>3, <1>4 DEF Good, Intro
  <2>6. QED
    BY <2>1, <2>2, <2>3, <2>4, <2>5 DEF Good
<1>9. Good(Peer(s), i, r, u, h, sess[Peer(s)].die, Path(Peer(s)))
  <2>1. Contents(r, h) /\ Writes(r) /\ Stages(Peer(s), r, h, sess[Peer(s)].die)
    BY <1>2 DEF Good
  <2>2. Credit(i, Path(Peer(s)), r, u) /\ Intro(Peer(s), i, Path(Peer(s)), r, u)
    BY <1>2, <1>4 DEF Good, Credit, Intro
  <2>3. Bears(i, Path(Peer(s)), r, u, h, sess[Peer(s)].die)
    BY <1>1, <1>2, <1>4 DEF Good, Bears
  <2>4. QED
    BY <2>1, <2>2, <2>3 DEF Good
<1>10. Both(s, i, u, g, Path(Peer(s)))
  BY <1>8, <1>9 DEF Both, r, h
<1>11. got' = [got EXCEPT ![s][i] = g]
  BY <1>1, SameHistory DEF IInv, g
<1>12. ss.bucket + Bytes(u.buffers) = sess[s].bucket + Bytes(str[s][i].buffers)
  <2>1. sess[s].bucket \in Int
    BY <1>2, SessFields
  <2>2. QED
    BY <1>5, <1>7, <2>1 DEF n
<1>13. Quietly(s, i, u, g, ss)
  BY <1>1, <1>6, <1>7, <1>10, <1>11, <1>12 DEF Quietly, Apart
<1>14. QED
  BY <1>2, <1>4, <1>7, <1>13, Quiet

-----------------------------------------------------------------------------
(* write_v2.                                                               *)

\* What a writer leaves alone in its stream
Alike(t, u) ==
  /\ u.open = t.open /\ u.tabled = t.tabled /\ u.die = t.die /\ u.fin = t.fin
  /\ u.buffers = t.buffers /\ u.numRead = t.numRead /\ u.reader = t.reader
  /\ u.taken = t.taken /\ u.consumed = t.consumed /\ u.closer = t.closer
  /\ u.owed = t.owed

\* A stream at which writes are allowed
MayWrite(s, i, u) ==
  u.writer \in {"sending", "stall"} => u.open = "open" /\ (s # Client => got[s][i] # <<>>)

LEMMA WriterQuiet ==
  ASSUME SmuxAssumption, IInv, NEW s \in Side, NEW i \in Stream, NEW u \in StrT,
         Alike(str[s][i], u), u.queued = str[s][i].queued, Writes(u), MayWrite(s, i, u)
  PROVE  Both(s, i, u, got[s][i], Path(Peer(s)))
<1> DEFINE t == str[s][i]
           r == str[Peer(s)][i]
           g == got[s][i]
           h == got[Peer(s)][i]
<1>1. /\ Good(s, i, t, r, g, sess[s].die, Path(s))
      /\ Good(Peer(s), i, r, t, h, sess[Peer(s)].die, Path(Peer(s)))
  BY Now
<1>2. /\ u.open = t.open /\ u.tabled = t.tabled /\ u.die = t.die /\ u.fin = t.fin
      /\ u.buffers = t.buffers /\ u.numRead = t.numRead /\ u.reader = t.reader
      /\ u.taken = t.taken /\ u.consumed = t.consumed /\ u.closer = t.closer
      /\ u.owed = t.owed /\ u.queued = t.queued
  BY DEF Alike
<1>3. u.writer \in {"sending", "stall"} => u.open = "open" /\ (s # Client => g # <<>>)
  BY DEF MayWrite
<1> HIDE DEF t, r, g, h
<1>4. Contents(u, g) /\ Credit(i, Path(s), u, r) /\ Bears(i, Path(s), u, r, g, sess[s].die)
  BY <1>1, <1>2 DEF Good, Contents, Credit, Bears
<1>5. Stages(s, u, g, sess[s].die)
  BY <1>1, <1>2, <1>3 DEF Good, Stages
<1>6. Intro(s, i, Path(s), u, r)
  BY <1>1, <1>2 DEF Good, Intro
<1>7. Good(s, i, u, r, g, sess[s].die, Path(s))
  BY <1>4, <1>5, <1>6 DEF Good
<1>8. /\ Bears(i, Path(Peer(s)), r, u, h, sess[Peer(s)].die)
      /\ Credit(i, Path(Peer(s)), r, u) /\ Intro(Peer(s), i, Path(Peer(s)), r, u)
  BY <1>1, <1>2 DEF Good, Bears, Credit, Intro
<1>9. Good(Peer(s), i, r, u, h, sess[Peer(s)].die, Path(Peer(s)))
  BY <1>1, <1>8 DEF Good
<1>10. QED
  BY <1>7, <1>9 DEF Both, r, g, h

LEMMA WriterAsks ==
  ASSUME SmuxAssumption, IInv, NEW s \in Side, NEW i \in Stream, NEW u \in StrT,
         NEW n \in Nat \ {0}, NEW f \in Frames, Is(f, "PSH", i),
         f.data = [k \in 1 .. n |-> str[s][i].queued + k],
         Alike(str[s][i], u), u.queued = str[s][i].queued + n, Writes(u),
         MayWrite(s, i, u), u.writer = "sending"
  PROVE  Both(s, i, u, got[s][i], Append(Path(Peer(s)), f))
<1> DEFINE t == str[s][i]
           r == str[Peer(s)][i]
           g == got[s][i]
           h == got[Peer(s)][i]
           back == Path(Peer(s))
           new == Append(Path(Peer(s)), f)
           a == r.numRead + Bytes(r.buffers)
<1>1. /\ t \in StrT /\ r \in StrT
      /\ Good(s, i, t, r, g, sess[s].die, Path(s))
      /\ Good(Peer(s), i, r, t, h, sess[Peer(s)].die, back)
      /\ back \in Seq(Frames)
  BY Now
<1>2. /\ u.open = t.open /\ u.tabled = t.tabled /\ u.die = t.die /\ u.fin = t.fin
      /\ u.buffers = t.buffers /\ u.numRead = t.numRead /\ u.reader = t.reader
      /\ u.taken = t.taken /\ u.consumed = t.consumed /\ u.closer = t.closer
      /\ u.owed = t.owed /\ u.queued = t.queued + n
  BY DEF Alike
<1>3. u.open = "open" /\ (s # Client => g # <<>>)
  BY DEF MayWrite
<1>4. t.queued \in Nat /\ t.owed \in Nat /\ r.numRead \in Nat
  BY <1>1, StrFields
<1>5. /\ ~ Is(f, "FIN", i) /\ ~ Is(f, "UPD", i) /\ ~ Is(f, "SYN", i)
      /\ FirstByte(f) = t.queued + 1
  <2>1. 1 \in 1 .. n
    OBVIOUS
  <2>2. QED
    BY <2>1 DEF Is, FirstByte
<1>a. f.data = [k \in 1 .. n |-> t.queued + k]
  OBVIOUS
<1> HIDE DEF t, r, g, h, back, a
<1>6. Contents(u, g) /\ Credit(i, Path(s), u, r) /\ Bears(i, Path(s), u, r, g, sess[s].die)
  BY <1>1, <1>2 DEF Good, Contents, Credit, Bears
<1>7. Stages(s, u, g, sess[s].die)
  BY <1>1, <1>2, <1>3 DEF Good, Stages
<1>8. Intro(s, i, Path(s), u, r)
  BY <1>1, <1>2 DEF Good, Intro
<1>9. Good(s, i, u, r, g, sess[s].die, Path(s))
  BY <1>6, <1>7, <1>8 DEF Good
<1>10. new = Append(back, f)
  BY DEF back
<1> HIDE DEF new
<1>11. Credit(i, new, r, u)
  <2>1. Updates(back, i, r.consumed, t.numRead)
    BY <1>1 DEF Good, Credit
  <2>2. Updates(new, i, r.consumed, t.numRead)
    BY <1>1, <1>5, <1>10, <2>1, OthersAppend
  <2>3. QED
    BY <1>2, <2>2 DEF Credit
<1>12. Intro(Peer(s), i, new, r, u)
  <2>1. Intro(Peer(s), i, back, r, t)
    BY <1>1 DEF Good
  <2>2. /\ SynFirst(back, i) => SynFirst(new, i)
        /\ HasSyn(new, i) <=> HasSyn(back, i)
    BY <1>1, <1>5, <1>10, OthersAppend
  <2>3. QED
    BY <1>2, <2>1, <2>2 DEF Intro
<1>13. Bears(i, new, r, u, h, sess[Peer(s)].die)
  <2>1. Bears(i, back, r, t, h, sess[Peer(s)].die) /\ t.owed <= t.queued
    BY <1>1 DEF Good, Writes
  <2>2. r.closer # "done" => Stretch(new, i, a, u.queued)
    <3>1. SUFFICES ASSUME r.closer # "done" PROVE Stretch(new, i, a, u.queued)
      OBVIOUS
    <3>2. Stretch(back, i, a, t.queued)
      BY <2>1, <3>1 DEF Bears, a
    <3>3. Stretch(new, i, a, t.queued + n)
      BY <1>1, <1>a, <1>10, <3>2, StretchAppend
    <3>4. QED
      BY <1>2, <3>3
  <2>3. r.numRead <= u.queued
    BY <1>2, <1>4, <2>1 DEF Bears
  <2>4. (\A k \in DOMAIN back : ~ Is(back[k], "FIN", i)) =>
          \A k \in DOMAIN new : ~ Is(new[k], "FIN", i)
    BY <1>1, <1>5, <1>10, OthersAppend
  <2>5. FinsLast(new, i, u.owed)
    <3>1. FinsLast(back, i, t.owed)
      BY <2>1 DEF Bears
    <3>2. FirstByte(f) > t.owed
      BY <1>4, <1>5, <2>1
    <3>3. FinsLast(new, i, t.owed)
      BY <1>1, <1>10, <3>1, <3>2, OthersAppend
    <3>4. QED
      BY <1>2, <3>3
  <2>6. QED
    BY <1>2, <2>1, <2>2, <2>3, <2>4, <2>5 DEF Bears, a
<1>14. Good(Peer(s), i, r, u, h, sess[Peer(s)].die, new)
  BY <1>1, <1>11, <1>12, <1>13 DEF Good
<1>15. QED
  BY <1>9, <1>10, <1>14 DEF Both, r, g, h, back

LEMMA Sizes ==
  ASSUME SmuxAssumption
  PROVE  /\ FrameSize \in Nat \ {0} /\ ReadSize \in Nat \ {0}
         /\ FirstWindow \in Nat \ {0} /\ StreamBuffer \in Nat \ {0}
         /\ Widest \in Nat /\ FirstWindow <= Widest /\ StreamBuffer <= Widest
BY DEF SmuxAssumption, Widest

LEMMA ChunkFits ==
  ASSUME SmuxAssumption, NEW t \in StrT, t.burst >= 1
  PROVE  ChunkSize(t) \in Nat \ {0} /\ ChunkSize(t) <= t.burst
<1>1. t.burst \in Nat /\ FrameSize \in Nat \ {0}
  BY Sizes, StrFields
<1>2. QED
  BY <1>1 DEF ChunkSize

LEMMA ChunkFrame ==
  ASSUME NEW t \in StrT, NEW n \in Nat, NEW i \in Stream
  PROVE  /\ Chunk(t, i, n) \in Frames /\ Is(Chunk(t, i, n), "PSH", i)
         /\ Chunk(t, i, n).data = [k \in 1 .. n |-> t.queued + k]
<1> DEFINE d == [k \in 1 .. n |-> t.queued + k]
<1>1. t.queued \in Nat
  BY StrFields
<1>2. d \in Seq(Nat)
  BY <1>1
<1>3. Chunk(t, i, n) = [cmd |-> "PSH", sid |-> i, data |-> d]
  BY DEF Chunk, Frame
<1> HIDE DEF d
<1>4. /\ Chunk(t, i, n) \in Frames /\ Is(Chunk(t, i, n), "PSH", i)
      /\ Chunk(t, i, n).data = d
  BY <1>2, <1>3 DEF Frames, Is
<1>5. QED
  BY <1>4 DEF d

LEMMA InWindow ==
  ASSUME NEW q \in Nat, NEW b \in Nat, NEW c \in Nat, NEW w \in Nat, NEW n \in Nat,
         NEW o \in Nat, n <= b, q + b <= c + w, o <= q
  PROVE  q <= c + w /\ q + n <= c + w /\ o <= q + n
OBVIOUS

\* A stream between two chunks of a burst
Ready(s, i, t) ==
  /\ Alike(str[s][i], t)
  /\ t.queued = str[s][i].queued /\ t.queued = t.numWritten
  /\ t.open = "open" /\ (s # Client => got[s][i] # <<>>)

LEMMA NextChunkKeeps ==
  ASSUME SmuxAssumption, IInv, NEW s \in Side, NEW i \in Stream, NEW t \in StrT,
         NextChunk(s, i, t), pipe' = pipe, got' = got, Ready(s, i, t),
         t.burst >= 1, t.numWritten + t.burst <= t.consumed + Widest
  PROVE  IInv'
<1> DEFINE n == ChunkSize(t)
           x == Result(sess[s], "PSH", i)
           g == got[s][i]
<1>1. n \in Nat \ {0} /\ n <= t.burst
  BY ChunkFits
<1>2. /\ t.queued \in Nat /\ t.numWritten \in Nat /\ t.burst \in Nat /\ t.owed \in Nat
      /\ t.consumed \in Nat /\ Widest \in Nat
  BY Sizes, StrFields
<1>3. /\ Alike(str[s][i], t) /\ t.queued = str[s][i].queued /\ t.queued = t.numWritten
      /\ t.open = "open" /\ (s # Client => g # <<>>)
  BY DEF Ready
<1>4. t.owed <= t.queued
  <2>1. Writes(str[s][i])
    BY Now DEF Good
  <2>2. QED
    BY <1>3, <2>1 DEF Writes, Alike
<1>a. /\ t.queued <= t.consumed + Widest /\ t.queued + n <= t.consumed + Widest
      /\ t.owed <= t.queued + n
  <2>1. t.queued + t.burst <= t.consumed + Widest /\ n \in Nat
    BY <1>1, <1>3
  <2> HIDE DEF n
  <2>2. QED
    BY <1>1, <1>2, <1>4, <2>1, InWindow
<1>5. /\ sess[s] \in SessT /\ g \in Seq(Nat) /\ str[s][i] \in StrT
  BY Now
<1>6. /\ x \in SessT /\ x.die = sess[s].die /\ x.hand = sess[s].hand
      /\ x.queue = sess[s].queue /\ x.recv = sess[s].recv /\ x.charge = sess[s].charge
      /\ x.to = sess[s].to /\ x.bucket = sess[s].bucket
  BY <1>5 DEF SessT, Result
<1>7. got' = [got EXCEPT ![s][i] = g]
  BY SameHistory DEF IInv
<1>8. CASE Refused(s)
  <2> DEFINE u == [Counted(t) EXCEPT !.writer = "error"]
  <2>1. str' = [str EXCEPT ![s][i] = u] /\ sess' = [sess EXCEPT ![s] = x]
    BY <1>8 DEF NextChunk
  <2>2. u \in StrT /\ Alike(t, u) /\ u.queued = t.queued /\ u.writer = "error"
    <3>1. t.numWritten + n \in Nat /\ t.burst - n \in Nat
      BY <1>1, <1>2
    <3> HIDE DEF n
    <3>2. u = [t EXCEPT !.numWritten = @ + n, !.burst = @ - n, !.writer = "error"]
      BY DEF Counted, n, StrT
    <3>3. QED
      BY <3>1, <3>2 DEF StrT, Alike
  <2> HIDE DEF u, x
  <2>3. Alike(str[s][i], u) /\ u.queued = str[s][i].queued
    BY <1>3, <2>2 DEF Alike
  <2>4. Writes(u)
    BY <1>a, <1>4, <2>2 DEF Writes, Alike
  <2>5. MayWrite(s, i, u)
    BY <2>2 DEF MayWrite
  <2>6. Both(s, i, u, g, Path(Peer(s)))
    BY <2>2, <2>3, <2>4, <2>5, WriterQuiet
  <2>7. x.bucket + Bytes(u.buffers) = sess[s].bucket + Bytes(str[s][i].buffers)
    BY <1>6, <2>3 DEF Alike
  <2>8. Quietly(s, i, u, g, x)
    BY <1>6, <1>7, <2>1, <2>6, <2>7 DEF Quietly, Apart
  <2>9. QED
    BY <1>5, <1>6, <2>2, <2>8, Quiet
<1>9. CASE ~ Refused(s)
  <2> DEFINE u == [t EXCEPT !.writer = "sending", !.queued = @ + n]
             f == Chunk(t, i, n)
             ss == Queued(x, f)
  <2>1. str' = [str EXCEPT ![s][i] = u] /\ sess' = [sess EXCEPT ![s] = ss]
    BY <1>9 DEF NextChunk
  <2>2. /\ u \in StrT /\ Alike(t, u) /\ u.queued = t.queued + n /\ u.writer = "sending"
        /\ u.numWritten = t.numWritten /\ u.burst = t.burst
    <3>1. t.queued + n \in Nat
      BY <1>1, <1>2
    <3> HIDE DEF n
    <3>2. QED
      BY <3>1 DEF StrT, Alike
  <2>3. /\ f \in Frames /\ Is(f, "PSH", i) /\ f.sid = i
        /\ f.data = [k \in 1 .. n |-> str[s][i].queued + k]
    <3>1. /\ f \in Frames /\ Is(f, "PSH", i)
          /\ f.data = [k \in 1 .. n |-> t.queued + k]
      BY <1>1, ChunkFrame
    <3>2. QED
      BY <1>3, <3>1 DEF Is
  <2>4. /\ ss \in SessT /\ ss.die = x.die /\ ss.hand = x.hand
        /\ ss.queue = Append(x.queue, f)
        /\ ss.recv = x.recv /\ ss.charge = x.charge /\ ss.to = x.to
        /\ ss.bucket = x.bucket
    BY <1>6, <2>3, QueuedFields
  <2>5. ChunkSize(u) = n
    BY <2>2 DEF ChunkSize
  <2> HIDE DEF u, f, x, ss, n
  <2>6. Alike(str[s][i], u) /\ u.queued = str[s][i].queued + n
    BY <1>3, <2>2 DEF Alike
  <2>7. Writes(u)
    <3>1. u.owed = t.owed /\ u.consumed = t.consumed
      BY <2>2 DEF Alike
    <3>2. u.queued <= u.consumed + Widest /\ u.owed <= u.queued
      BY <1>a, <2>2, <3>1
    <3>3. QED
      BY <1>3, <2>2, <2>5, <3>1, <3>2 DEF Writes
  <2>8. MayWrite(s, i, u)
    BY <1>3, <2>2 DEF MayWrite, Alike, g
  <2>9. Both(s, i, u, g, Append(Path(Peer(s)), f))
    BY <1>1, <2>2, <2>3, <2>6, <2>7, <2>8, WriterAsks DEF g
  <2>10. ss.bucket + Bytes(u.buffers) = sess[s].bucket + Bytes(str[s][i].buffers)
    BY <1>6, <2>4, <2>6 DEF Alike
  <2>11. Asking(s, i, u, g, ss, f)
    BY <1>6, <1>7, <2>1, <2>3, <2>4, <2>9, <2>10 DEF Asking, Apart
  <2>12. QED
    BY <1>5, <2>2, <2>3, <2>4, <2>11, Asks
<1>10. QED
  BY <1>8, <1>9

LEMMA Bursts ==
  ASSUME NEW q \in Nat, NEW c \in Nat, NEW w \in Nat, NEW wide \in Nat, NEW l \in Nat,
         w <= wide, l >= 1, w - (q - c) > 0
  PROVE  LET win == w - (q - c)
             b == IF win < l THEN win ELSE l
         IN  b \in Nat /\ b >= 1 /\ l - b \in Nat /\ q + b <= c + wide
OBVIOUS

LEMMA LoopKeeps ==
  ASSUME SmuxAssumption, IInv, NEW s \in Side, NEW i \in Stream, NEW t \in StrT,
         Loop(s, i, t), pipe' = pipe, got' = got, Ready(s, i, t), t.left >= 1
  PROVE  IInv'
<1> DEFINE inflight == t.numWritten - t.consumed
           win == t.window - inflight
           b == IF win < t.left THEN win ELSE t.left
           g == got[s][i]
<1>1. /\ t.queued \in Nat /\ t.numWritten \in Nat /\ t.left \in Nat
      /\ t.consumed \in Nat /\ Widest \in Nat /\ t.window \in Nat /\ t.window <= Widest
  BY Sizes, StrFields
<1>2. /\ Alike(str[s][i], t) /\ t.queued = str[s][i].queued /\ t.queued = t.numWritten
      /\ t.open = "open" /\ (s # Client => g # <<>>)
  BY DEF Ready
<1>3. /\ sess[s] \in SessT /\ g \in Seq(Nat) /\ str[s][i] \in StrT
      /\ str[Peer(s)][i] \in StrT
  BY Now
<1>4. t.consumed <= t.numWritten
  <2>1. str[s][i].consumed <= str[Peer(s)][i].numRead
    BY Now DEF Good, Credit, Updates
  <2>2. str[Peer(s)][i].numRead <= str[s][i].queued
    BY Now DEF Good, Bears
  <2>3. str[Peer(s)][i].numRead \in Nat
    BY <1>3, StrFields
  <2>4. t.consumed = str[s][i].consumed
    BY <1>2 DEF Alike
  <2>5. /\ t.consumed <= str[Peer(s)][i].numRead
        /\ str[Peer(s)][i].numRead <= t.numWritten
    BY <1>2, <2>1, <2>2, <2>4
  <2>6. QED
    BY <1>1, <2>3, <2>5
<1>5. ~ (inflight < 0)
  BY <1>1, <1>4
<1>6. CASE win > 0
  <2> DEFINE u == [t EXCEPT !.burst = b, !.left = @ - b]
  <2>1. NextChunk(s, i, u)
    BY <1>5, <1>6 DEF Loop
  <2>2. b \in Nat /\ b >= 1 /\ t.left - b \in Nat /\ t.numWritten + b <= t.consumed + Widest
    BY <1>1, <1>6, Bursts
  <2> HIDE DEF b
  <2>3. /\ u \in StrT /\ Alike(t, u) /\ u.queued = t.queued /\ u.numWritten = t.numWritten
        /\ u.consumed = t.consumed /\ u.open = t.open /\ u.burst = b
    BY <2>2 DEF StrT, Alike
  <2> HIDE DEF u
  <2>4. Ready(s, i, u)
    BY <1>2, <2>3 DEF Ready, Alike, g
  <2>5. u.burst >= 1 /\ u.numWritten + u.burst <= u.consumed + Widest
    BY <2>2, <2>3
  <2>6. QED
    BY <2>1, <2>3, <2>4, <2>5, NextChunkKeeps
<1>7. CASE ~ (win > 0)
  <2> DEFINE u == [t EXCEPT !.writer = "stall"]
  <2>1. str' = [str EXCEPT ![s][i] = u] /\ sess' = sess
    BY <1>5, <1>7 DEF Loop
  <2>2. /\ u \in StrT /\ Alike(t, u) /\ u.queued = t.queued /\ u.writer = "stall"
        /\ u.numWritten = t.numWritten /\ u.left = t.left /\ u.consumed = t.consumed
        /\ u.owed = t.owed
    BY DEF StrT, Alike
  <2> HIDE DEF u
  <2>3. Alike(str[s][i], u) /\ u.queued = str[s][i].queued
    BY <1>2, <2>2 DEF Alike
  <2>4. Writes(u)
    <3>1. Writes(str[s][i])
      BY Now DEF Good
    <3>2. t.owed <= t.queued /\ t.queued <= t.consumed + Widest
      BY <1>2, <3>1 DEF Writes, Alike
    <3>3. QED
      BY <1>2, <2>2, <3>2 DEF Writes
  <2>5. MayWrite(s, i, u)
    BY <1>2, <2>2 DEF MayWrite, Alike, g
  <2>6. Both(s, i, u, g, Path(Peer(s)))
    BY <2>2, <2>3, <2>4, <2>5, WriterQuiet
  <2>7. sess[s].bucket + Bytes(u.buffers) = sess[s].bucket + Bytes(str[s][i].buffers)
    BY <2>3 DEF Alike
  <2>8. got' = [got EXCEPT ![s][i] = g] /\ sess' = [sess EXCEPT ![s] = sess[s]]
    BY <2>1, SameHistory DEF IInv, Typed
  <2>9. Quietly(s, i, u, g, sess[s])
    BY <2>1, <2>6, <2>7, <2>8 DEF Quietly, Apart
  <2>10. QED
    BY <1>3, <2>2, <2>9, Quiet
<1>8. QED
  BY <1>6, <1>7

LEMMA ErrorKeeps ==
  ASSUME SmuxAssumption, IInv, NEW s \in Side, NEW i \in Stream,
         str' = [str EXCEPT ![s][i].writer = "error"],
         sess' = sess, pipe' = pipe, got' = got
  PROVE  IInv'
<1> DEFINE t == str[s][i]
           u == [str[s][i] EXCEPT !.writer = "error"]
           g == got[s][i]
<1>1. /\ sess[s] \in SessT /\ g \in Seq(Nat) /\ t \in StrT /\ Writes(t)
  BY Now DEF Good
<1>2. /\ u \in StrT /\ Alike(t, u) /\ u.queued = t.queued /\ u.writer = "error"
      /\ u.consumed = t.consumed /\ u.owed = t.owed
  BY <1>1 DEF StrT, Alike
<1> HIDE DEF u
<1>3. Writes(u) /\ MayWrite(s, i, u)
  BY <1>1, <1>2 DEF Writes, MayWrite
<1>4. Both(s, i, u, g, Path(Peer(s)))
  BY <1>2, <1>3, WriterQuiet
<1>5. sess[s].bucket + Bytes(u.buffers) = sess[s].bucket + Bytes(str[s][i].buffers)
  BY <1>2 DEF Alike
<1>6. got' = [got EXCEPT ![s][i] = g] /\ sess' = [sess EXCEPT ![s] = sess[s]]
  BY SameHistory DEF IInv, Typed
<1>7. Quietly(s, i, u, g, sess[s])
  BY <1>4, <1>5, <1>6 DEF Quietly, Apart, u
<1>8. QED
  BY <1>1, <1>2, <1>7, Quiet

LEMMA WriteStartKeeps ==
  ASSUME SmuxAssumption, IInv, NEW s \in Side, NEW i \in Stream, NEW n \in WriteSizes,
         WriteStart(s, i, n)
  PROVE  IInv'
<1> DEFINE t == str[s][i]
           u == [str[s][i] EXCEPT !.left = n]
<1>1. /\ t.open = "open" /\ t.writer = "idle" /\ Spoken(s, i)
      /\ pipe' = pipe /\ got' = got
      /\ IF t.fin \/ t.die
           THEN str' = [str EXCEPT ![s][i].writer = "error"] /\ sess' = sess
           ELSE Loop(s, i, u)
  BY DEF WriteStart
<1>2. t \in StrT /\ Writes(t)
  BY Now DEF Good
<1>3. n \in Nat /\ n >= 1
  BY DEF SmuxAssumption
<1>4. /\ u \in StrT /\ Alike(t, u) /\ u.queued = t.queued /\ u.left = n
      /\ u.numWritten = t.numWritten /\ u.open = t.open
  BY <1>2, <1>3 DEF StrT, Alike
<1> HIDE DEF u
<1>5. Ready(s, i, u) /\ u.left >= 1
  BY <1>1, <1>2, <1>3, <1>4 DEF Ready, Writes, Spoken
<1>6. QED
  BY <1>1, <1>4, <1>5, LoopKeeps, ErrorKeeps

LEMMA WriteFailsKeeps ==
  ASSUME SmuxAssumption, IInv, NEW s \in Side, NEW i \in Stream, WriteFails(s, i)
  PROVE  IInv'
BY ErrorKeeps DEF WriteFails

LEMMA WriteUpdatedKeeps ==
  ASSUME SmuxAssumption, IInv, NEW s \in Side, NEW i \in Stream, WriteUpdated(s, i)
  PROVE  IInv'
<1> DEFINE t == str[s][i]
           u == [str[s][i] EXCEPT !.update = FALSE]
<1>1. t.writer = "stall" /\ Loop(s, i, u) /\ pipe' = pipe /\ got' = got
  BY DEF WriteUpdated
<1>2. t \in StrT /\ Writes(t) /\ Stages(s, t, got[s][i], sess[s].die)
  BY Now DEF Good
<1>3. /\ u \in StrT /\ Alike(t, u) /\ u.queued = t.queued /\ u.left = t.left
      /\ u.numWritten = t.numWritten /\ u.open = t.open
  BY <1>2 DEF StrT, Alike
<1> HIDE DEF u
<1>4. Ready(s, i, u) /\ u.left >= 1
  BY <1>1, <1>2, <1>3 DEF Ready, Writes, Stages
<1>5. QED
  BY <1>1, <1>3, <1>4, LoopKeeps

LEMMA Counting ==
  ASSUME NEW w \in Nat, NEW b \in Nat, NEW n \in Nat, NEW m \in Nat, n <= b, w + b <= m
  PROVE  w + n \in Nat /\ b - n \in Nat /\ (w + n) + (b - n) <= m
OBVIOUS

LEMMA WriteSentKeeps ==
  ASSUME SmuxAssumption, IInv, NEW s \in Side, NEW i \in Stream, WriteSent(s, i)
  PROVE  IInv'
<1> DEFINE o == str[s][i]
           t == Counted(str[s][i])
           n == ChunkSize(str[s][i])
           x == Result(sess[s], "PSH", i)
           g == got[s][i]
           u == [Counted(str[s][i]) EXCEPT !.writer = IF t.left = 0 THEN "idle" ELSE "stall"]
<1>1. /\ t.writer = "sending" /\ pipe' = pipe /\ got' = got
      /\ IF t.burst > 0 THEN NextChunk(s, i, t)
         ELSE str' = [str EXCEPT ![s][i] = u] /\ sess' = [sess EXCEPT ![s] = x]
  BY DEF WriteSent
<1>2. /\ sess[s] \in SessT /\ g \in Seq(Nat) /\ o \in StrT /\ Writes(o)
      /\ Stages(s, o, g, sess[s].die)
  BY Now DEF Good
<1>3. /\ o.numWritten \in Nat /\ o.burst \in Nat /\ o.queued \in Nat /\ o.left \in Nat
      /\ o.consumed \in Nat /\ Widest \in Nat
  BY <1>2, Sizes, StrFields
<1>4. o.writer = "sending"
  BY <1>1, <1>2 DEF Counted, StrT
<1>5. /\ o.burst >= 1 /\ o.queued = o.numWritten + n
      /\ o.numWritten + o.burst <= o.consumed + Widest
      /\ o.owed <= o.queued /\ o.queued <= o.consumed + Widest
      /\ o.open = "open" /\ (s # Client => g # <<>>)
  BY <1>2, <1>4 DEF Writes, Stages
<1>6. n \in Nat /\ n <= o.burst
  BY <1>2, <1>5, ChunkFits
<1>7. /\ o.numWritten + n \in Nat /\ o.burst - n \in Nat
      /\ (o.numWritten + n) + (o.burst - n) <= o.consumed + Widest
  <2>1. o.consumed + Widest \in Nat
    BY <1>3
  <2> HIDE DEF n, o
  <2>2. QED
    BY <1>3, <1>5, <1>6, <2>1, Counting
<1>8. /\ t \in StrT /\ Alike(o, t) /\ t.queued = o.queued /\ t.left = o.left
      /\ t.numWritten = o.numWritten + n /\ t.burst = o.burst - n
      /\ t.consumed = o.consumed /\ t.open = o.open /\ t.owed = o.owed
  <2>1. t = [o EXCEPT !.numWritten = @ + n, !.burst = @ - n]
    BY DEF Counted
  <2> HIDE DEF t, n
  <2>2. QED
    BY <1>2, <1>7, <2>1 DEF StrT, Alike
<1>9. x \in SessT /\ Apart(sess[s], x) /\ x.queue = sess[s].queue
      /\ x.bucket = sess[s].bucket
  BY <1>2 DEF SessT, Result, Apart
<1>10. CASE t.burst > 0
  <2>1. NextChunk(s, i, t) /\ t.burst >= 1
    BY <1>1, <1>7, <1>8, <1>10
  <2>2. Ready(s, i, t)
    BY <1>5, <1>8 DEF Ready
  <2>3. t.numWritten + t.burst <= t.consumed + Widest
    BY <1>7, <1>8
  <2> HIDE DEF t, g
  <2>4. QED
    BY <1>1, <1>8, <2>1, <2>2, <2>3, NextChunkKeeps
<1>11. CASE ~ (t.burst > 0)
  <2>1. str' = [str EXCEPT ![s][i] = u] /\ sess' = [sess EXCEPT ![s] = x]
    BY <1>1, <1>11
  <2>2. /\ u \in StrT /\ Alike(t, u) /\ u.queued = t.queued
        /\ u.writer = IF t.left = 0 THEN "idle" ELSE "stall"
        /\ u.numWritten = t.numWritten /\ u.left = t.left /\ u.consumed = t.consumed
        /\ u.owed = t.owed /\ u.open = t.open
    <3> HIDE DEF t
    <3>1. u = [t EXCEPT !.writer = IF t.left = 0 THEN "idle" ELSE "stall"]
      BY DEF t
    <3> HIDE DEF u
    <3>2. QED
      BY <1>8, <3>1 DEF StrT, Alike
  <2> HIDE DEF u, t, x, n
  <2>3. Alike(o, u) /\ u.queued = o.queued
    BY <1>8, <2>2 DEF Alike
  <2>4. Writes(u)
    <3>1. u.queued = u.numWritten
      BY <1>5, <1>8, <2>2
    <3>2. u.writer = "stall" => u.left >= 1
      BY <1>3, <1>8, <2>2
    <3>3. u.owed <= u.queued /\ u.queued <= u.consumed + Widest
      BY <1>5, <1>8, <2>2
    <3>4. u.writer \in {"idle", "stall"}
      BY <2>2
    <3>5. QED
      BY <3>1, <3>2, <3>3, <3>4 DEF Writes
  <2>5. MayWrite(s, i, u)
    BY <1>5, <1>8, <2>2 DEF MayWrite
  <2>6. Both(s, i, u, g, Path(Peer(s)))
    BY <2>2, <2>3, <2>4, <2>5, WriterQuiet
  <2>7. x.bucket + Bytes(u.buffers) = sess[s].bucket + Bytes(str[s][i].buffers)
    BY <1>9, <2>3 DEF Alike
  <2>8. got' = [got EXCEPT ![s][i] = g]
    BY <1>1, SameHistory DEF IInv
  <2>9. Quietly(s, i, u, g, x)
    BY <1>1, <1>9, <2>1, <2>6, <2>7, <2>8 DEF Quietly
  <2>10. QED
    BY <1>2, <1>9, <2>2, <2>9, Quiet
<1>12. QED
  BY <1>10, <1>11

-----------------------------------------------------------------------------
(* read.                                                                   *)

\* More was read.
LEMMA UpdatesUp ==
  ASSUME NEW path \in Seq(Frames), NEW i, NEW low, NEW high, NEW more \in Nat,
         Updates(path, i, low, high), high <= more
  PROVE  Updates(path, i, low, more)
<1>1. low \in Nat /\ high \in Nat /\ low <= more
  BY DEF Updates
<1>2. ASSUME NEW k \in DOMAIN path, Is(path[k], "UPD", i)
      PROVE  path[k].data \in Nat /\ low <= path[k].data /\ path[k].data <= more
  <2>1. path[k].data \in Nat /\ low <= path[k].data /\ path[k].data <= high
    BY <1>2 DEF Updates
  <2>2. QED
    BY <1>1, <2>1
<1>3. QED
  BY <1>1, <1>2 DEF Updates

LEMMA FirstBytes ==
  ASSUME NEW h \in Seq(Nat), NEW n \in 1 .. Len(h)
  PROVE  SubSeq(h, 1, n) \in Seq(Nat) /\ Len(SubSeq(h, 1, n)) = n
<1>1. 1 \in 1 .. Len(h) + 1 /\ n \in 1 - 1 .. Len(h) /\ n - 1 + 1 = n
  OBVIOUS
<1>2. SubSeq(h, 1, n) \in Seq(Nat) /\ Len(SubSeq(h, 1, n)) = n - 1 + 1
  BY <1>1, SubSeqProperties
<1>3. QED
  BY <1>1, <1>2

\* What a read takes from the buffers b, after m bytes: d, and it leaves the rest.
Parts(b, m, size) ==
  LET front == Head(b)
      n == IF Len(front) < size THEN Len(front) ELSE size
      rest == IF n = Len(front) THEN Tail(b)
              ELSE <<SubSeq(front, n + 1, Len(front))>> \o Tail(b)
      d == SubSeq(front, 1, n)
  IN  /\ n \in Nat /\ n >= 1
      /\ rest \in Seq(Seq(Nat)) /\ Bytes(rest) + n = Bytes(b)
      /\ Chained(rest, m + n)
      /\ d \in Seq(Nat) /\ Len(d) = n
      /\ \A k \in DOMAIN d : d[k] = m + k

LEMMA ReadRest ==
  ASSUME NEW b \in Seq(Seq(Nat)), NEW m \in Nat, NEW size \in Nat \ {0},
         Chained(b, m), b # <<>>
  PROVE  Parts(b, m, size)
<1> DEFINE front == Head(b)
           l == Len(front)
           n == IF l < size THEN l ELSE size
           part == <<SubSeq(front, n + 1, l)>> \o Tail(b)
           rest == IF n = l THEN Tail(b) ELSE part
           d == SubSeq(front, 1, n)
<1>1. /\ Run(front) /\ front[1] = m + 1
      /\ Chained(Tail(b), m + l)
      /\ \A x \in 1 .. l - 1 :
           LET c == <<SubSeq(front, x + 1, l)>> \o Tail(b)
           IN  /\ c \in Seq(Seq(Nat)) /\ Bytes(c) = Bytes(b) - x
               /\ Chained(c, m + x)
  BY ChainedRest
<1>2. l \in Nat /\ l >= 1 /\ DOMAIN front = 1 .. l /\ front \in Seq(Nat)
  BY <1>1, RunStarts DEF Run
<1>3. /\ Tail(b) \in Seq(Seq(Nat)) /\ Bytes(b) = l + Bytes(Tail(b))
      /\ Bytes(b) \in Nat /\ Bytes(Tail(b)) \in Nat
  BY BytesHead, BytesCount
<1>4. n \in Nat /\ n >= 1 /\ n <= l /\ (n # l => n \in 1 .. l - 1)
  BY <1>2
<1>5. \A j \in 1 .. l : front[j] = m + j
  <2>1. \A j \in 1 .. l : front[j] = front[1] + j - 1
    BY <1>1, <1>2 DEF Run
  <2> HIDE DEF front, l
  <2>2. QED
    BY <1>1, <2>1
<1>6. /\ d \in Seq(Nat) /\ Len(d) = n /\ DOMAIN d = 1 .. n
      /\ \A k \in 1 .. n : d[k] = front[k]
  <2> HIDE DEF front, l, n
  <2>0. l = Len(front)
    BY DEF l
  <2>1. n \in Nat /\ n >= 1 /\ n <= l /\ l \in Nat /\ front \in Seq(Nat)
    BY <1>2, <1>4
  <2>2. d \in Seq(Nat) /\ Len(d) = n
    BY <2>0, <2>1, FirstBytes
  <2>3. DOMAIN d = 1 .. n /\ \A k \in 1 .. n : d[k] = front[k]
    BY <2>0, <2>1
  <2>4. QED
    BY <2>2, <2>3
<1> HIDE DEF front, l, d
<1>7. \A k \in DOMAIN d : d[k] = m + k
  <2>1. \A k \in 1 .. n : k \in 1 .. l
    BY <1>2, <1>4
  <2>2. QED
    BY <1>5, <1>6, <2>1
<1>8. rest \in Seq(Seq(Nat)) /\ Bytes(rest) + n = Bytes(b) /\ Chained(rest, m + n)
  <2>1. CASE n = l
    <3>1. rest = Tail(b)
      BY <2>1
    <3> HIDE DEF rest, n
    <3>2. QED
      BY <1>1, <1>2, <1>3, <2>1, <3>1
  <2>2. CASE n # l
    <3>1. rest = part /\ n \in 1 .. l - 1
      BY <1>4, <2>2
    <3> HIDE DEF rest, n
    <3>2. part \in Seq(Seq(Nat)) /\ Bytes(part) = Bytes(b) - n /\ Chained(part, m + n)
      BY <1>1, <3>1
    <3> HIDE DEF part
    <3>3. Bytes(part) + n = Bytes(b)
      BY <1>3, <1>4, <3>2
    <3>4. QED
      BY <3>1, <3>2, <3>3
  <2>3. QED
    BY <2>1, <2>2
<1>9. QED
  BY <1>4, <1>6, <1>7, <1>8, Zenon DEF front, l, d, Parts

LEMMA HistoryGrows ==
  ASSUME NEW g \in Seq(Nat), NEW d \in Seq(Nat), g = [k \in 1 .. Len(g) |-> k],
         \A k \in DOMAIN d : d[k] = Len(g) + k
  PROVE  /\ g \o d \in Seq(Nat) /\ Len(g \o d) = Len(g) + Len(d)
         /\ g \o d = [k \in 1 .. Len(g \o d) |-> k]
<1> DEFINE c == g \o d
           m == Len(g)
           n == Len(d)
           e == [k \in 1 .. Len(c) |-> k]
<1>1. /\ c \in Seq(Nat) /\ Len(c) = m + n /\ m \in Nat /\ n \in Nat
      /\ DOMAIN d = 1 .. n
      /\ \A k \in 1 .. m : c[k] = g[k]
  OBVIOUS
<1>2. ASSUME NEW k \in 1 .. m + n, ~ (k <= m)
      PROVE  k - m \in 1 .. n /\ m + (k - m) = k /\ c[k] = d[k - m]
  BY <1>1, <1>2
<1>3. \A k \in 1 .. m : g[k] = k
  OBVIOUS
<1> HIDE DEF c, m, n
<1>4. \A k \in 1 .. m + n : c[k] = k
  <2>1. SUFFICES ASSUME NEW k \in 1 .. m + n PROVE c[k] = k
    OBVIOUS
  <2>2. CASE k <= m
    BY <1>1, <1>3, <2>2
  <2>3. CASE ~ (k <= m)
    <3>1. k - m \in 1 .. n /\ m + (k - m) = k /\ c[k] = d[k - m]
      BY <1>2, <2>3
    <3>2. d[k - m] = m + (k - m)
      BY <1>1, <3>1 DEF m
    <3>3. QED
      BY <3>1, <3>2
  <2>4. QED
    BY <2>2, <2>3
<1>5. e \in Seq(Nat) /\ Len(e) = Len(c) /\ \A k \in 1 .. Len(c) : e[k] = k
  BY <1>1
<1> HIDE DEF e
<1>6. c = e
  BY <1>1, <1>4, <1>5, SameNumbers
<1>7. QED
  BY <1>1, <1>6 DEF c, m, n, e

\* What a reader leaves alone in its stream, and what it must see to
Taking(s, i, u, g) ==
  LET t == str[s][i]
      r == str[Peer(s)][i]
  IN  /\ u.open = t.open /\ u.tabled = t.tabled /\ u.die = t.die /\ u.fin = t.fin
      /\ u.numWritten = t.numWritten /\ u.consumed = t.consumed
      /\ u.writer = t.writer /\ u.left = t.left /\ u.burst = t.burst
      /\ u.queued = t.queued /\ u.closer = t.closer /\ u.owed = t.owed
      /\ u.numRead + Bytes(u.buffers) = t.numRead + Bytes(t.buffers)
      /\ t.numRead <= u.numRead
      /\ t.closer = "done" => u.buffers = <<>> /\ u.numRead = t.numRead
      /\ got[s][i] # <<>> => g # <<>>
      /\ Contents(u, g)
      /\ u.reader = "eof" /\ ~ sess[s].die /\ u.closer = "no" =>
           r.closer # "no" /\ r.owed <= Len(g)

LEMMA TakingSelf ==
  ASSUME SmuxAssumption, IInv, NEW s \in Side, NEW i \in Stream, NEW u \in StrT,
         NEW g \in Seq(Nat), Taking(s, i, u, g)
  PROVE  Good(s, i, u, str[Peer(s)][i], g, sess[s].die, Path(s))
<1> DEFINE t == str[s][i]
           r == str[Peer(s)][i]
           path == Path(s)
<1>1. /\ u.open = t.open /\ u.tabled = t.tabled /\ u.die = t.die /\ u.fin = t.fin
      /\ u.numWritten = t.numWritten /\ u.consumed = t.consumed
      /\ u.writer = t.writer /\ u.left = t.left /\ u.burst = t.burst
      /\ u.queued = t.queued /\ u.closer = t.closer /\ u.owed = t.owed
      /\ u.numRead + Bytes(u.buffers) = t.numRead + Bytes(t.buffers)
      /\ t.numRead <= u.numRead
      /\ t.closer = "done" => u.buffers = <<>> /\ u.numRead = t.numRead
      /\ got[s][i] # <<>> => g # <<>>
      /\ Contents(u, g)
      /\ u.reader = "eof" /\ ~ sess[s].die /\ u.closer = "no" =>
           r.closer # "no" /\ r.owed <= Len(g)
  BY DEF Taking
<1>2. /\ t \in StrT /\ r \in StrT
      /\ Good(s, i, t, r, got[s][i], sess[s].die, path)
  BY Now
<1>3. u.numRead <= r.queued
  <2>1. CASE t.closer = "done"
    BY <1>1, <1>2, <2>1 DEF Good, Bears
  <2>2. CASE t.closer # "done"
    <3>1. u.numRead + Bytes(u.buffers) <= r.queued
      BY <1>1, <1>2, <2>2 DEF Good, Bears, Stretch
    <3>2. u.numRead \in Nat /\ u.buffers \in Seq(Seq(Nat)) /\ r.queued \in Nat
      BY <1>2, StrFields
    <3>3. Bytes(u.buffers) \in Nat
      BY <3>2, BytesCount
    <3>4. QED
      BY <3>1, <3>2, <3>3
  <2>3. QED
    BY <2>1, <2>2
<1> HIDE DEF t, r, path
<1>4. Stages(s, u, g, sess[s].die)
  BY <1>1, <1>2 DEF Good, Stages
<1>5. Writes(u) /\ Intro(s, i, path, u, r) /\ Credit(i, path, u, r)
  BY <1>1, <1>2 DEF Good, Writes, ChunkSize, Intro, Credit
<1>6. Bears(i, path, u, r, g, sess[s].die)
  BY <1>1, <1>2, <1>3 DEF Good, Bears
<1>7. QED
  BY <1>1, <1>4, <1>5, <1>6 DEF Good, r, path

LEMMA TakingPeer ==
  ASSUME SmuxAssumption, IInv, NEW s \in Side, NEW i \in Stream, NEW u \in StrT,
         NEW g \in Seq(Nat), Taking(s, i, u, g)
  PROVE  Good(Peer(s), i, str[Peer(s)][i], u, got[Peer(s)][i], sess[Peer(s)].die,
              Path(Peer(s)))
<1> DEFINE t == str[s][i]
           r == str[Peer(s)][i]
           h == got[Peer(s)][i]
           path == Path(Peer(s))
<1>1. /\ u.open = t.open /\ u.queued = t.queued /\ u.closer = t.closer /\ u.owed = t.owed
      /\ t.numRead <= u.numRead
  BY DEF Taking
<1>2. /\ t \in StrT /\ r \in StrT /\ path \in Seq(Frames)
      /\ Good(Peer(s), i, r, t, h, sess[Peer(s)].die, path)
  BY Now
<1>3. u.numRead \in Nat
  BY StrFields
<1> HIDE DEF t, r, path, h
<1>4. Credit(i, path, r, u)
  <2>1. Updates(path, i, r.consumed, t.numRead)
    BY <1>2 DEF Good, Credit
  <2>2. Updates(path, i, r.consumed, u.numRead)
    BY <1>1, <1>2, <1>3, <2>1, UpdatesUp
  <2>3. QED
    BY <2>2 DEF Credit
<1>5. Bears(i, path, r, u, h, sess[Peer(s)].die)
  BY <1>1, <1>2 DEF Good, Bears
<1>6. Intro(Peer(s), i, path, r, u)
  BY <1>1, <1>2 DEF Good, Intro
<1>7. QED
  BY <1>2, <1>4, <1>5, <1>6 DEF Good, r, h, path

\* ... and the peer is told.
LEMMA TakingTold ==
  ASSUME SmuxAssumption, IInv, NEW s \in Side, NEW i \in Stream, NEW u \in StrT,
         NEW g \in Seq(Nat), Taking(s, i, u, g),
         NEW f \in Frames, Is(f, "UPD", i), f.data = u.numRead
  PROVE  Good(Peer(s), i, str[Peer(s)][i], u, got[Peer(s)][i], sess[Peer(s)].die,
              Append(Path(Peer(s)), f))
<1> DEFINE r == str[Peer(s)][i]
           h == got[Peer(s)][i]
           path == Path(Peer(s))
           new == Append(path, f)
<1>1. Good(Peer(s), i, r, u, h, sess[Peer(s)].die, path)
  BY TakingPeer
<1>2. path \in Seq(Frames)
  BY Now
<1>3. ~ Is(f, "PSH", i) /\ ~ Is(f, "FIN", i) /\ ~ Is(f, "SYN", i)
  BY DEF Is
<1> HIDE DEF r, h, path
<1>4. Credit(i, new, r, u)
  <2>1. Updates(path, i, r.consumed, u.numRead)
    BY <1>1 DEF Good, Credit
  <2>2. Updates(new, i, r.consumed, u.numRead)
    BY <1>2, <2>1, OthersAppend
  <2>3. QED
    BY <2>2 DEF Credit
<1>5. /\ SynFirst(path, i) => SynFirst(new, i)
      /\ HasSyn(new, i) <=> HasSyn(path, i)
  BY <1>2, <1>3, OthersAppend
<1>6. (\A k \in DOMAIN path : ~ Is(path[k], "FIN", i)) =>
        \A k \in DOMAIN new : ~ Is(new[k], "FIN", i)
  BY <1>2, <1>3, OthersAppend
<1>7. \A o : FinsLast(path, i, o) => FinsLast(new, i, o)
  BY <1>2, <1>3, OthersAppend
<1>8. \A a, b : Stretch(path, i, a, b) => Stretch(new, i, a, b)
  BY <1>2, <1>3, StretchOther
<1> HIDE DEF new
<1>9. Intro(Peer(s), i, new, r, u)
  BY <1>1, <1>5 DEF Good, Intro
<1>10. Bears(i, new, r, u, h, sess[Peer(s)].die)
  BY <1>1, <1>6, <1>7, <1>8 DEF Good, Bears
<1>11. QED
  BY <1>1, <1>4, <1>9, <1>10 DEF Good, r, h, path, new

\* Stream v is t after a read that left rest in the buffers.
Took(t, v, rest, n) ==
  /\ v.open = t.open /\ v.tabled = t.tabled /\ v.die = t.die /\ v.fin = t.fin
  /\ v.numWritten = t.numWritten /\ v.consumed = t.consumed
  /\ v.writer = t.writer /\ v.left = t.left /\ v.burst = t.burst
  /\ v.queued = t.queued /\ v.closer = t.closer /\ v.owed = t.owed
  /\ v.buffers = rest /\ v.numRead = t.numRead + n

LEMMA ReadTakes ==
  ASSUME SmuxAssumption, IInv, NEW s \in Side, NEW i \in Stream,
         str[s][i].reader = "run", str[s][i].buffers # <<>>,
         NEW v \in StrT, NEW n \in Nat, NEW rest \in Seq(Seq(Nat)), NEW d \in Seq(Nat),
         Took(str[s][i], v, rest, n), n >= 1, Len(d) = n,
         Bytes(rest) + n = Bytes(str[s][i].buffers),
         Chained(rest, str[s][i].numRead + n),
         \A k \in DOMAIN d : d[k] = str[s][i].numRead + k,
         NEW g \in Seq(Nat),
         \/ v.reader = "error" /\ v.taken = <<>> /\ g = got[s][i]
         \/ v.reader = "telling" /\ v.taken = d /\ g = got[s][i]
         \/ v.reader = "run" /\ v.taken = <<>> /\ g = got[s][i] \o d
  PROVE  Taking(s, i, v, g)
<1> DEFINE t == str[s][i]
           b == got[s][i]
<1>1. /\ t \in StrT /\ b \in Seq(Nat) /\ Contents(t, b)
      /\ Stages(s, t, b, sess[s].die)
  BY Now DEF Good
<1>2. /\ v.open = t.open /\ v.tabled = t.tabled /\ v.die = t.die /\ v.fin = t.fin
      /\ v.numWritten = t.numWritten /\ v.consumed = t.consumed
      /\ v.writer = t.writer /\ v.left = t.left /\ v.burst = t.burst
      /\ v.queued = t.queued /\ v.closer = t.closer /\ v.owed = t.owed
      /\ v.buffers = rest /\ v.numRead = t.numRead + n
  BY DEF Took
<1>3. t.numRead \in Nat /\ t.taken = <<>> /\ Len(b) + Len(t.taken) = t.numRead
      /\ b = [k \in 1 .. Len(b) |-> k]
  BY <1>1, StrFields DEF Contents
<1>4. Len(b) = t.numRead
  BY <1>1, <1>3
<1>5. Bytes(rest) \in Nat
  BY BytesCount
<1>6. /\ v.numRead + Bytes(v.buffers) = t.numRead + Bytes(t.buffers)
      /\ t.numRead <= v.numRead
  <2> DEFINE m == Bytes(rest)
             o == t.numRead
  <2>1. m + n = Bytes(t.buffers) /\ m \in Nat /\ o \in Nat
    BY <1>3, <1>5
  <2>2. v.numRead = o + n /\ Bytes(v.buffers) = m
    BY <1>2
  <2> HIDE DEF m, o
  <2>3. (o + n) + m = o + (m + n) /\ o <= o + n
    BY <2>1
  <2>4. v.numRead + Bytes(v.buffers) = o + Bytes(t.buffers) /\ o <= v.numRead
    BY <2>1, <2>2, <2>3
  <2>5. QED
    BY <2>4 DEF o
<1>7. t.closer # "done"
  BY <1>1 DEF Stages
<1>8. b \o d \in Seq(Nat) /\ Len(b \o d) = t.numRead + n
      /\ b \o d = [k \in 1 .. Len(b \o d) |-> k]
  <2>1. \A k \in DOMAIN d : d[k] = Len(b) + k
    BY <1>4
  <2> HIDE DEF b
  <2>2. /\ b \o d \in Seq(Nat) /\ Len(b \o d) = Len(b) + Len(d)
        /\ b \o d = [k \in 1 .. Len(b \o d) |-> k]
    BY <1>1, <1>3, <2>1, HistoryGrows, Zenon
  <2>3. QED
    BY <1>4, <2>2
<1>9. Chained(v.buffers, v.numRead)
  BY <1>2
<1>a. \A k \in DOMAIN d : d[k] = Len(b) + k
  BY <1>4
<1> HIDE DEF b, t
<1>10. CASE v.reader = "error" /\ v.taken = <<>> /\ g = b
  <2>1. Len(g) <= v.numRead
    BY <1>2, <1>3, <1>4, <1>10
  <2>2. Contents(v, g)
    BY <1>3, <1>9, <1>10, <2>1 DEF Contents
  <2>3. QED
    BY <1>2, <1>6, <1>7, <1>10, <2>2 DEF Taking, t, b
<1>11. CASE v.reader = "telling" /\ v.taken = d /\ g = b
  <2>1. Len(g) <= v.numRead /\ Len(g) + Len(v.taken) = v.numRead
    <3>1. Len(g) = t.numRead /\ Len(v.taken) = n
      BY <1>4, <1>11
    <3>2. t.numRead <= t.numRead + n
      BY <1>3
    <3>3. QED
      BY <1>2, <3>1, <3>2
  <2>2. Contents(v, g)
    BY <1>3, <1>9, <1>a, <1>11, <2>1 DEF Contents
  <2>3. QED
    BY <1>2, <1>6, <1>7, <1>11, <2>2 DEF Taking, t, b
<1>12. CASE v.reader = "run" /\ v.taken = <<>> /\ g = b \o d
  <2>1. Len(g) <= v.numRead /\ Len(g) = v.numRead /\ g # <<>>
    <3>1. Len(g) = t.numRead + n
      BY <1>8, <1>12
    <3>2. v.numRead = t.numRead + n /\ t.numRead \in Nat /\ n \in Nat /\ n >= 1
      BY <1>2, <1>3
    <3> DEFINE o == t.numRead
    <3> HIDE DEF o
    <3>0. o \in Nat /\ n \in Nat /\ n >= 1
      BY <3>2 DEF o
    <3>a. o + n # 0 /\ o + n <= o + n
      BY <3>0
    <3>3. t.numRead + n # 0 /\ t.numRead + n <= t.numRead + n
      BY <3>a DEF o
    <3>4. g # <<>>
      <4>1. Len(g) # 0
        BY <3>1, <3>3
      <4>2. QED
        BY <4>1
    <3>5. QED
      BY <3>1, <3>2, <3>3, <3>4
  <2>2. Contents(v, g)
    <3>1. Len(g) + Len(v.taken) = v.numRead
      BY <1>12, <2>1
    <3>2. DOMAIN v.taken = {}
      BY <1>12
    <3>3. QED
      BY <1>8, <1>9, <1>12, <2>1, <3>1, <3>2 DEF Contents
  <2>3. QED
    BY <1>2, <1>6, <1>7, <1>12, <2>1, <2>2 DEF Taking, t, b
<1>13. QED
  BY <1>10, <1>11, <1>12 DEF b

LEMMA UpdFrame ==
  ASSUME NEW n \in Nat, NEW i \in Stream
  PROVE  /\ Frame("UPD", i, n) \in Frames /\ Is(Frame("UPD", i, n), "UPD", i)
         /\ Frame("UPD", i, n).data = n /\ Frame("UPD", i, n).sid = i
BY DEF Frame, Frames, Is

LEMMA ReadKeeps ==
  ASSUME SmuxAssumption, IInv, NEW s \in Side, NEW i \in Stream, Read(s, i)
  PROVE  IInv'
<1> DEFINE t == str[s][i]
           front == Head(t.buffers)
           n == IF Len(front) < ReadSize THEN Len(front) ELSE ReadSize
           rest == IF n = Len(front) THEN Tail(t.buffers)
                   ELSE <<SubSeq(front, n + 1, Len(front))>> \o Tail(t.buffers)
           d == SubSeq(front, 1, n)
           c == IF Tells(t, n) THEN 0 ELSE t.incr + n
           u == [str[s][i] EXCEPT !.buffers = rest, !.numRead = @ + n, !.incr = c]
           back == Return(sess[s], n)
           g == got[s][i]
           v1 == [u EXCEPT !.reader = "error"]
           v2 == [u EXCEPT !.reader = "telling", !.taken = d]
           f == Frame("UPD", i, u.numRead)
<1>1. /\ t.open = "open" /\ t.reader = "run" /\ t.buffers # <<>> /\ pipe' = pipe
      /\ \/ /\ str' = [str EXCEPT ![s][i] = v1]
            /\ sess' = [sess EXCEPT ![s] = back] /\ got' = got
         \/ /\ str' = [str EXCEPT ![s][i] = v2]
            /\ sess' = [sess EXCEPT ![s] = Queued(back, f)] /\ got' = got
         \/ /\ str' = [str EXCEPT ![s][i] = u]
            /\ sess' = [sess EXCEPT ![s] = back] /\ got' = [got EXCEPT ![s][i] = g \o d]
  <2>1. /\ t.open = "open" /\ t.reader = "run" /\ t.buffers # <<>> /\ pipe' = pipe
    BY Zenon DEF Read
  <2>2. got' = [got EXCEPT ![s][i] = @ \o d] => got' = [got EXCEPT ![s][i] = g \o d]
    OBVIOUS
  <2>3. \/ /\ str' = [str EXCEPT ![s][i] = v1]
           /\ sess' = [sess EXCEPT ![s] = back] /\ got' = got
        \/ /\ str' = [str EXCEPT ![s][i] = v2]
           /\ sess' = [sess EXCEPT ![s] = Queued(back, f)] /\ got' = got
        \/ /\ str' = [str EXCEPT ![s][i] = u]
           /\ sess' = [sess EXCEPT ![s] = back] /\ got' = [got EXCEPT ![s][i] = @ \o d]
    BY Zenon DEF Read
  <2> HIDE DEF v1, v2, u, back, f, d, g
  <2>4. QED
    BY <2>1, <2>2, <2>3
<1> HIDE DEF front, n, rest, d, c, u, back, v1, v2, f
<1>2. /\ t \in StrT /\ g \in Seq(Nat) /\ sess[s] \in SessT
      /\ Contents(t, g)
  <2>1. /\ t \in StrT /\ g \in Seq(Nat) /\ sess[s] \in SessT
        /\ Good(s, i, t, str[Peer(s)][i], g, sess[s].die, Path(s))
    BY Now
  <2>2. QED
    BY <2>1 DEF Good
<1>3. /\ t.buffers \in Seq(Seq(Nat)) /\ t.numRead \in Nat /\ t.incr \in Nat
      /\ Chained(t.buffers, t.numRead) /\ t.taken = <<>>
  BY <1>1, <1>2, StrFields DEF Contents
<1>4. /\ n \in Nat /\ n >= 1
      /\ rest \in Seq(Seq(Nat)) /\ Bytes(rest) + n = Bytes(t.buffers)
      /\ Chained(rest, t.numRead + n)
      /\ d \in Seq(Nat) /\ Len(d) = n
      /\ \A k \in DOMAIN d : d[k] = t.numRead + k
  <2> DEFINE b == t.buffers
             m == t.numRead
  <2>1. b \in Seq(Seq(Nat)) /\ m \in Nat /\ Chained(b, m) /\ b # <<>>
        /\ ReadSize \in Nat \ {0}
    BY <1>1, <1>3, Sizes
  <2> HIDE DEF b, m
  <2>2. Parts(b, m, ReadSize)
    BY <2>1, ReadRest
  <2>3. QED
    BY <2>2, Zenon DEF Parts, b, m, n, rest, d, front
<1>5. n \in Nat
  BY <1>4
<1>6. t.numRead + n \in Nat /\ c \in Nat
  <2>1. t.numRead \in Nat /\ t.incr \in Nat
    BY <1>3
  <2>2. t.numRead + n \in Nat /\ t.incr + n \in Nat
    BY <1>5, <2>1
  <2>3. QED
    BY <2>2 DEF c
<1>7. u \in StrT /\ Took(t, u, rest, n) /\ u.reader = "run" /\ u.taken = <<>>
  <2>1. u \in StrT
    BY <1>2, <1>4, <1>5, <1>6 DEF StrT, u
  <2>2. Took(t, u, rest, n)
    BY <1>2 DEF StrT, Took, u
  <2>3. u.reader = "run" /\ u.taken = t.taken
    BY <1>1, <1>2 DEF StrT, u
  <2>4. QED
    BY <1>3, <2>1, <2>2, <2>3
<1>8. v1 \in StrT /\ Took(t, v1, rest, n) /\ v1.reader = "error" /\ v1.taken = <<>>
  <2>1. v1 \in StrT /\ v1.reader = "error" /\ v1.taken = u.taken
    BY <1>7 DEF StrT, v1
  <2>2. Took(t, v1, rest, n)
    BY <1>7 DEF StrT, Took, v1
  <2>3. QED
    BY <1>7, <2>1, <2>2
<1>9. /\ v2 \in StrT /\ Took(t, v2, rest, n) /\ v2.reader = "telling" /\ v2.taken = d
      /\ v2.numRead = u.numRead
  <2>1. v2 \in StrT /\ v2.reader = "telling" /\ v2.taken = d /\ v2.numRead = u.numRead
    BY <1>4, <1>7 DEF StrT, v2
  <2>2. Took(t, v2, rest, n)
    BY <1>7 DEF StrT, Took, v2
  <2>3. QED
    BY <2>1, <2>2
<1>10. g \o d \in Seq(Nat)
  BY <1>2, <1>4
<1>a. /\ back \in SessT /\ Apart(sess[s], back) /\ back.queue = sess[s].queue
      /\ back.bucket = sess[s].bucket + n
  <2>1. LET y == Return(sess[s], n)
        IN  /\ y \in SessT /\ y.die = sess[s].die /\ y.hand = sess[s].hand
            /\ y.queue = sess[s].queue /\ y.recv = sess[s].recv
            /\ y.charge = sess[s].charge /\ y.to = sess[s].to
            /\ y.bucket = sess[s].bucket + n
    BY <1>2, <1>4, ReturnFields
  <2>2. QED
    BY <2>1 DEF Apart, back
<1>b. u.numRead \in Nat
  BY <1>7, StrFields
<1>c. /\ f \in Frames /\ Is(f, "UPD", i) /\ f.data = u.numRead /\ f.sid = i
  BY <1>b, UpdFrame DEF f
<1> HIDE DEF g
<1>d. ASSUME NEW v \in StrT, v.buffers = rest
      PROVE  back.bucket + Bytes(v.buffers) = sess[s].bucket + Bytes(str[s][i].buffers)
  <2> DEFINE m == Bytes(rest)
             x == sess[s].bucket
  <2>1. m \in Nat /\ x \in Int /\ m + n = Bytes(str[s][i].buffers)
    BY <1>2, <1>4, BytesCount, SessFields
  <2>2. back.bucket = x + n /\ Bytes(v.buffers) = m
    BY <1>a, <1>d
  <2> HIDE DEF m, x
  <2>3. (x + n) + m = x + (m + n)
    BY <1>4, <2>1
  <2>4. QED
    BY <2>1, <2>2, <2>3 DEF x
<1>e. u.buffers = rest /\ v1.buffers = rest /\ v2.buffers = rest
  BY <1>7, <1>8, <1>9 DEF Took
<1>f. got = [got EXCEPT ![s][i] = g]
  BY SameHistory DEF IInv, g
<1>11. CASE /\ str' = [str EXCEPT ![s][i] = v1]
            /\ sess' = [sess EXCEPT ![s] = back] /\ got' = got
  <2>1. Taking(s, i, v1, g)
    BY <1>1, <1>2, <1>4, <1>8, ReadTakes DEF g
  <2>2. Both(s, i, v1, g, Path(Peer(s)))
    BY <1>2, <1>8, <2>1, TakingSelf, TakingPeer DEF Both
  <2>3. back.bucket + Bytes(v1.buffers) = sess[s].bucket + Bytes(str[s][i].buffers)
    BY <1>8, <1>d, <1>e
  <2>4. Quietly(s, i, v1, g, back)
    BY <1>1, <1>11, <1>a, <1>f, <2>2, <2>3 DEF Quietly
  <2>5. QED
    BY <1>2, <1>8, <1>a, <2>4, Quiet
<1>12. CASE /\ str' = [str EXCEPT ![s][i] = v2]
            /\ sess' = [sess EXCEPT ![s] = Queued(back, f)] /\ got' = got
  <2>1. Taking(s, i, v2, g)
    BY <1>1, <1>2, <1>4, <1>9, ReadTakes DEF g
  <2>2. Both(s, i, v2, g, Append(Path(Peer(s)), f))
    BY <1>2, <1>9, <1>c, <2>1, TakingSelf, TakingTold DEF Both
  <2>3. back.bucket + Bytes(v2.buffers) = sess[s].bucket + Bytes(str[s][i].buffers)
    BY <1>9, <1>d, <1>e
  <2> DEFINE ss == Queued(back, f)
  <2>4. /\ ss \in SessT /\ Apart(sess[s], ss) /\ ss.queue = Append(sess[s].queue, f)
        /\ ss.bucket = back.bucket
    <3>1. LET y == Queued(back, f)
          IN  /\ y \in SessT /\ y.die = back.die /\ y.hand = back.hand
              /\ y.queue = Append(back.queue, f)
              /\ y.recv = back.recv /\ y.charge = back.charge /\ y.to = back.to
              /\ y.bucket = back.bucket
      BY <1>a, <1>c, QueuedFields
    <3>2. QED
      BY <1>a, <3>1 DEF Apart
  <2> HIDE DEF ss
  <2>5. Asking(s, i, v2, g, ss, f)
    BY <1>1, <1>12, <1>c, <1>f, <2>2, <2>3, <2>4 DEF Asking, ss
  <2>6. QED
    BY <1>2, <1>9, <1>c, <2>4, <2>5, Asks
<1>13. CASE /\ str' = [str EXCEPT ![s][i] = u]
            /\ sess' = [sess EXCEPT ![s] = back] /\ got' = [got EXCEPT ![s][i] = g \o d]
  <2>1. Taking(s, i, u, g \o d)
    BY <1>1, <1>2, <1>4, <1>7, <1>10, ReadTakes DEF g
  <2>2. Both(s, i, u, g \o d, Path(Peer(s)))
    BY <1>7, <1>10, <2>1, TakingSelf, TakingPeer DEF Both
  <2>3. back.bucket + Bytes(u.buffers) = sess[s].bucket + Bytes(str[s][i].buffers)
    BY <1>7, <1>d, <1>e
  <2>4. Quietly(s, i, u, g \o d, back)
    BY <1>1, <1>13, <1>a, <2>2, <2>3 DEF Quietly
  <2>5. QED
    BY <1>7, <1>10, <1>a, <2>4, Quiet
<1>14. QED
  BY <1>1, <1>11, <1>12, <1>13

Reading(t, u) ==
  /\ u.open = t.open /\ u.tabled = t.tabled /\ u.die = t.die /\ u.fin = t.fin
  /\ u.numWritten = t.numWritten /\ u.consumed = t.consumed
  /\ u.writer = t.writer /\ u.left = t.left /\ u.burst = t.burst
  /\ u.queued = t.queued /\ u.closer = t.closer /\ u.owed = t.owed
  /\ u.buffers = t.buffers /\ u.numRead = t.numRead

\* A reader goes on, and leaves the buffers alone.
Staying(s, i, u, g, ss) ==
  LET t == str[s][i]
      r == str[Peer(s)][i]
  IN  /\ str' = [str EXCEPT ![s][i] = u] /\ got' = [got EXCEPT ![s][i] = g]
      /\ pipe' = pipe /\ sess' = [sess EXCEPT ![s] = ss]
      /\ Apart(sess[s], ss) /\ ss.queue = sess[s].queue /\ ss.bucket = sess[s].bucket
      /\ Reading(t, u)
      /\ got[s][i] # <<>> => g # <<>>
      /\ Contents(u, g)
      /\ u.reader = "eof" /\ ~ sess[s].die /\ u.closer = "no" =>
           r.closer # "no" /\ r.owed <= Len(g)

LEMMA SameContents ==
  ASSUME NEW t \in StrT, NEW u \in StrT, NEW g \in Seq(Nat), Contents(t, g),
         t.reader \in {"run", "wait"}, u.taken = t.taken, Reading(t, u)
  PROVE  Contents(u, g)
<1>1. /\ g = [k \in 1 .. Len(g) |-> k] /\ Len(g) <= u.numRead
      /\ Len(g) + Len(u.taken) = u.numRead /\ u.taken = <<>>
      /\ Chained(u.buffers, u.numRead)
  BY DEF Contents, Reading
<1>2. DOMAIN u.taken = {}
  BY <1>1
<1>3. QED
  BY <1>1, <1>2 DEF Contents

LEMMA Stays ==
  ASSUME SmuxAssumption, IInv, NEW s \in Side, NEW i \in Stream, NEW u \in StrT,
         NEW g \in Seq(Nat), NEW ss \in SessT, Staying(s, i, u, g, ss)
  PROVE  IInv'
<1> DEFINE t == str[s][i]
<1>1. t \in StrT /\ Stages(s, t, got[s][i], sess[s].die)
  BY Now DEF Good
<1>2. t.numRead \in Nat
  BY <1>1, StrFields
<1>3. u.buffers = t.buffers /\ u.numRead = t.numRead /\ u.closer = t.closer
  BY DEF Staying, Reading
<1>4. /\ u.numRead + Bytes(u.buffers) = t.numRead + Bytes(t.buffers)
      /\ t.numRead <= u.numRead
      /\ t.closer = "done" => u.buffers = <<>> /\ u.numRead = t.numRead
  BY <1>1, <1>2, <1>3 DEF Stages
<1>5. Taking(s, i, u, g)
  BY <1>4 DEF Staying, Reading, Taking
<1>6. Both(s, i, u, g, Path(Peer(s)))
  BY <1>5, TakingSelf, TakingPeer DEF Both
<1>7. ss.bucket + Bytes(u.buffers) = sess[s].bucket + Bytes(str[s][i].buffers)
  <2>1. ss.bucket = sess[s].bucket
    BY DEF Staying
  <2>2. QED
    BY <1>3, <2>1
<1>8. Quietly(s, i, u, g, ss)
  BY <1>6, <1>7 DEF Staying, Quietly
<1>9. QED
  BY <1>8, Quiet

LEMMA ReadToldKeeps ==
  ASSUME SmuxAssumption, IInv, NEW s \in Side, NEW i \in Stream, ReadTold(s, i)
  PROVE  IInv'
<1> DEFINE t == str[s][i]
           g == got[s][i]
           e == <<>>
           x == Result(sess[s], "UPD", i)
           u1 == [str[s][i] EXCEPT !.reader = "run", !.taken = e]
           u2 == [str[s][i] EXCEPT !.reader = "error", !.taken = e]
<1>1. /\ t.reader = "telling" /\ pipe' = pipe /\ sess' = [sess EXCEPT ![s] = x]
      /\ \/ str' = [str EXCEPT ![s][i] = u1] /\ got' = [got EXCEPT ![s][i] = g \o t.taken]
         \/ str' = [str EXCEPT ![s][i] = u2] /\ got' = got
  BY DEF ReadTold
<1>2. /\ t \in StrT /\ g \in Seq(Nat) /\ sess[s] \in SessT /\ Contents(t, g)
      /\ t.taken \in Seq(Nat) /\ t.numRead \in Nat
  BY Now, StrFields DEF Good
<1>3. e \in Seq(Nat) /\ e = <<>> /\ Len(e) = 0 /\ DOMAIN e = {}
  OBVIOUS
<1>4. x \in SessT /\ Apart(sess[s], x) /\ x.queue = sess[s].queue
      /\ x.bucket = sess[s].bucket
  BY <1>2 DEF SessT, Result, Apart
<1>5. /\ g \o t.taken \in Seq(Nat) /\ Len(g \o t.taken) = Len(g) + Len(t.taken)
      /\ g \o t.taken = [k \in 1 .. Len(g \o t.taken) |-> k]
      /\ Len(g) + Len(t.taken) = t.numRead
  <2> DEFINE d == t.taken
  <2>1. /\ g = [k \in 1 .. Len(g) |-> k] /\ \A k \in DOMAIN d : d[k] = Len(g) + k
        /\ Len(g) + Len(d) = t.numRead
    BY <1>1, <1>2 DEF Contents
  <2>2. d \in Seq(Nat)
    BY <1>2
  <2> HIDE DEF d, g
  <2>3. /\ g \o d \in Seq(Nat) /\ Len(g \o d) = Len(g) + Len(d)
        /\ g \o d = [k \in 1 .. Len(g \o d) |-> k]
    BY <1>2, <2>1, <2>2, HistoryGrows, Zenon
  <2>4. QED
    BY <2>1, <2>3 DEF d
<1> DEFINE c == g \o t.taken
<1> HIDE DEF e
<1>6. /\ u1 \in StrT /\ u1.reader = "run" /\ u1.taken = e /\ Reading(t, u1)
      /\ u2 \in StrT /\ u2.reader = "error" /\ u2.taken = e /\ Reading(t, u2)
  <2>1. t \in StrT
    BY <1>2
  <2>2. u1 \in StrT /\ u2 \in StrT
    BY <1>3, <2>1 DEF StrT
  <2>3. u1.reader = "run" /\ u1.taken = e /\ Reading(t, u1)
    BY <2>1 DEF StrT, Reading
  <2>4. u2.reader = "error" /\ u2.taken = e /\ Reading(t, u2)
    BY <2>1 DEF StrT, Reading
  <2>5. QED
    BY <2>2, <2>3, <2>4
<1> HIDE DEF x
<1>7. CASE str' = [str EXCEPT ![s][i] = u1] /\ got' = [got EXCEPT ![s][i] = c]
  <2>1. /\ u1 \in StrT /\ u1.reader = "run" /\ u1.taken = e /\ Reading(t, u1)
        /\ u1.buffers = t.buffers /\ u1.numRead = t.numRead
    BY <1>6 DEF Reading
  <2> HIDE DEF u1
  <2>2. c \in Seq(Nat) /\ Len(c) = t.numRead /\ c = [k \in 1 .. Len(c) |-> k]
    BY <1>5
  <2>3. got[s][i] # <<>> => c # <<>>
    BY <1>2
  <2> HIDE DEF c
  <2>4. Contents(u1, c)
    <3>1. Chained(u1.buffers, u1.numRead)
      BY <1>2, <2>1 DEF Contents
    <3>2. Len(c) <= u1.numRead /\ Len(c) + Len(u1.taken) = u1.numRead
      BY <1>2, <1>3, <2>1, <2>2
    <3>3. u1.taken = <<>> /\ DOMAIN u1.taken = {}
      BY <1>3, <2>1
    <3>4. QED
      BY <2>2, <3>1, <3>2, <3>3 DEF Contents
  <2>5. Staying(s, i, u1, c, x)
    BY <1>1, <1>4, <1>7, <2>1, <2>3, <2>4 DEF Staying
  <2>6. QED
    BY <1>4, <2>1, <2>2, <2>5, Stays
<1>8. CASE str' = [str EXCEPT ![s][i] = u2] /\ got' = got
  <2>1. /\ u2 \in StrT /\ u2.reader = "error" /\ u2.taken = e /\ Reading(t, u2)
        /\ u2.buffers = t.buffers /\ u2.numRead = t.numRead
    BY <1>6 DEF Reading
  <2> HIDE DEF u2
  <2>2. Contents(u2, g)
    BY <1>2, <1>3, <2>1 DEF Contents
  <2>3. got' = [got EXCEPT ![s][i] = g]
    BY <1>8, SameHistory DEF IInv
  <2>4. Staying(s, i, u2, g, x)
    BY <1>1, <1>4, <1>8, <2>1, <2>2, <2>3 DEF Staying
  <2>5. QED
    BY <1>2, <1>4, <2>1, <2>4, Stays
<1>9. QED
  BY <1>1, <1>7, <1>8 DEF c

LEMMA ReadNothingKeeps ==
  ASSUME SmuxAssumption, IInv, NEW s \in Side, NEW i \in Stream, ReadNothing(s, i)
  PROVE  IInv'
<1> DEFINE t == str[s][i]
           g == got[s][i]
           o == IF t.die THEN "eof" ELSE "wait"
           u == [str[s][i] EXCEPT !.reader = o]
<1>1. /\ t.reader = "run" /\ str' = [str EXCEPT ![s][i] = u]
      /\ sess' = sess /\ pipe' = pipe /\ got' = got
  BY DEF ReadNothing
<1>2. /\ t \in StrT /\ g \in Seq(Nat) /\ sess[s] \in SessT /\ Contents(t, g)
      /\ Stages(s, t, g, sess[s].die)
  BY Now DEF Good
<1>3. o \in {"eof", "wait"} /\ (o = "eof" => t.die)
  OBVIOUS
<1> HIDE DEF o
<1>4. u \in StrT /\ u.reader = o /\ u.taken = t.taken /\ Reading(t, u)
  <2>1. t \in StrT
    BY <1>2
  <2>2. u \in StrT
    BY <1>3, <2>1 DEF StrT
  <2>3. QED
    BY <2>1, <2>2 DEF StrT, Reading
<1> HIDE DEF u
<1>5. Contents(u, g)
  BY <1>1, <1>2, <1>4, SameContents
<1>6. u.reader = "eof" /\ ~ sess[s].die => u.closer # "no"
  BY <1>2, <1>3, <1>4 DEF Stages, Reading
<1>7. got' = [got EXCEPT ![s][i] = g] /\ sess' = [sess EXCEPT ![s] = sess[s]]
  BY <1>1, SameHistory DEF IInv, Typed
<1>8. Staying(s, i, u, g, sess[s])
  BY <1>1, <1>4, <1>5, <1>6, <1>7 DEF Staying, Apart, u
<1>9. QED
  BY <1>2, <1>4, <1>8, Stays

\* A reader that waited
LEMMA Wakes ==
  ASSUME SmuxAssumption, IInv, NEW s \in Side, NEW i \in Stream, NEW u \in StrT,
         str[s][i].reader = "wait", Reading(str[s][i], u), u.taken = str[s][i].taken,
         u.reader = "eof" => str[s][i].fin /\ str[s][i].buffers = <<>>,
         str' = [str EXCEPT ![s][i] = u], sess' = sess, pipe' = pipe, got' = got
  PROVE  IInv'
<1> DEFINE t == str[s][i]
           r == str[Peer(s)][i]
           g == got[s][i]
<1>1. /\ t \in StrT /\ g \in Seq(Nat) /\ sess[s] \in SessT
      /\ Good(s, i, t, r, g, sess[s].die, Path(s))
  BY Now
<1>2. Contents(t, g) /\ Bears(i, Path(s), t, r, g, sess[s].die)
  BY <1>1 DEF Good
<1>3. t.numRead \in Nat /\ Len(g) \in Nat
  <2>1. t.numRead \in Nat
    BY <1>1, StrFields
  <2>2. Len(g) \in Nat
    BY <1>1
  <2>3. QED
    BY <2>1, <2>2
<1>4. Len(g) = t.numRead
  <2>1. t.taken = <<>> /\ Len(g) + Len(t.taken) = t.numRead
    BY <1>2 DEF Contents
  <2>2. Len(g) + 0 = t.numRead
    BY <2>1
  <2>3. QED
    BY <1>3, <2>2
<1>5. Contents(u, g)
  BY <1>1, <1>2, SameContents
<1>6. u.reader = "eof" /\ u.closer = "no" => r.closer # "no" /\ r.owed <= Len(g)
  <2>1. SUFFICES ASSUME u.reader = "eof", u.closer = "no"
                 PROVE  r.closer # "no" /\ r.owed <= Len(g)
    OBVIOUS
  <2>2. t.fin /\ t.buffers = <<>> /\ t.closer # "done"
    BY <2>1 DEF Reading
  <2>3. r.closer # "no" /\ r.owed <= t.numRead + Bytes(<<>>)
    BY <1>2, <2>2 DEF Bears
  <2>4. QED
    BY <1>3, <1>4, <2>3, BytesEmpty
<1>7. got' = [got EXCEPT ![s][i] = g] /\ sess' = [sess EXCEPT ![s] = sess[s]]
  BY SameHistory DEF IInv, Typed
<1>8. Staying(s, i, u, g, sess[s])
  BY <1>5, <1>6, <1>7 DEF Staying, Apart
<1>9. QED
  BY <1>1, <1>8, Stays

LEMMA ReadWakesKeeps ==
  ASSUME SmuxAssumption, IInv, NEW s \in Side, NEW i \in Stream, ReadWakes(s, i)
  PROVE  IInv'
<1> DEFINE t == str[s][i]
           o == FinEnds(t)
           u1 == [t EXCEPT !.reader = "run", !.event = FALSE]
           u2 == [t EXCEPT !.reader = o]
           u3 == [t EXCEPT !.reader = "error"]
<1>1. /\ t.reader = "wait" /\ sess' = sess /\ pipe' = pipe /\ got' = got
      /\ \/ str' = [str EXCEPT ![s][i] = u1]
         \/ t.fin /\ str' = [str EXCEPT ![s][i] = u2]
         \/ str' = [str EXCEPT ![s][i] = u3]
  BY DEF ReadWakes
<1>2. t \in StrT
  BY Now
<1>3. o \in {"run", "eof"} /\ (o = "eof" => t.buffers = <<>>)
  BY DEF FinEnds
<1> HIDE DEF o
<1>4. u1 \in StrT /\ Reading(t, u1) /\ u1.taken = t.taken /\ u1.reader = "run"
  BY <1>2 DEF StrT, Reading
<1>5. u2 \in StrT /\ Reading(t, u2) /\ u2.taken = t.taken /\ u2.reader = o
  BY <1>2, <1>3 DEF StrT, Reading
<1>6. u3 \in StrT /\ Reading(t, u3) /\ u3.taken = t.taken /\ u3.reader = "error"
  BY <1>2 DEF StrT, Reading
<1> HIDE DEF u1, u2, u3
<1>7. QED
  BY <1>1, <1>3, <1>4, <1>5, <1>6, Wakes

-----------------------------------------------------------------------------
(* The loops of a session.                                                 *)

\* No stream changes, and the frames of each keep their order.
Carrying ==
  /\ str' = str /\ got' = got
  /\ pipe' \in [Side -> Seq(Frames)] /\ sess' \in [Side -> SessT]
  /\ \A t \in Side :
       /\ Len(sess'[t].hand) <= 1
       /\ sess[t].die => sess'[t].die
       /\ IF sess'[t].recv = "charge" THEN sess'[t].to \in Stream
          ELSE sess'[t].charge = 0
       /\ sess'[t].bucket - sess'[t].charge = sess[t].bucket - sess[t].charge
       /\ \A j \in Stream : Keeps(Path(t), Path(t)', Cmds, j)

LEMMA Carries ==
  ASSUME SmuxAssumption, IInv, Carrying
  PROVE  IInv'
<1>0. /\ str' = str /\ got' = got
      /\ pipe' \in [Side -> Seq(Frames)] /\ sess' \in [Side -> SessT]
      /\ \A t \in Side :
           /\ Len(sess'[t].hand) <= 1
           /\ sess[t].die => sess'[t].die
           /\ IF sess'[t].recv = "charge" THEN sess'[t].to \in Stream
              ELSE sess'[t].charge = 0
           /\ sess'[t].bucket - sess'[t].charge = sess[t].bucket - sess[t].charge
           /\ \A j \in Stream : Keeps(Path(t), Path(t)', Cmds, j)
  BY DEF Carrying
<1>1. /\ Typed
      /\ \A t \in Side : Loops(t)
      /\ \A t \in Side, j \in Stream :
           Good(t, j, str[t][j], str[Peer(t)][j], got[t][j], sess[t].die, Path(t))
  BY DEF IInv, GoodAt
<1>2. Typed'
  BY <1>0, <1>1 DEF Typed
<1>3. \A t \in Side : Path(t) \in Seq(Frames) /\ Path(t)' \in Seq(Frames)
  <2>1. SUFFICES ASSUME NEW t \in Side
                 PROVE  Path(t) \in Seq(Frames) /\ Path(t)' \in Seq(Frames)
    OBVIOUS
  <2>2. Path(t) \in Seq(Frames) /\ Peer(t) \in Side
    BY <1>1, PathTypes, Ends
  <2>3. pipe'[t] \in Seq(Frames) /\ sess'[Peer(t)] \in SessT
    BY <1>0, <2>2
  <2>4. sess'[Peer(t)].hand \in Seq(Frames) /\ sess'[Peer(t)].queue \in Seq(Frames)
    BY <2>3, SessFields
  <2>5. QED
    BY <2>2, <2>3, <2>4, Concat DEF Path
<1>4. ASSUME NEW t \in Side PROVE Loops(t)'
  <2>1. Buffered(t)' = Buffered(t)
    BY <1>0, BufferedSame
  <2>2. sess'[t].bucket - sess'[t].charge = ReceiveBuffer - Buffered(t)'
    BY <1>0, <1>1, <2>1 DEF Loops
  <2>3. QED
    BY <1>0, <2>2 DEF Loops
<1>5. ASSUME NEW t \in Side, NEW j \in Stream PROVE GoodAt(t, j)'
  <2>1. Good(t, j, str[t][j], str[Peer(t)][j], got[t][j], sess[t].die, Path(t))
    BY <1>1
  <2>2. Keeps(Path(t), Path(t)', Cmds, j) /\ (sess[t].die => sess'[t].die)
    BY <1>0
  <2>3. Path(t) \in Seq(Frames) /\ Path(t)' \in Seq(Frames)
    BY <1>3
  <2>4. Good(t, j, str[t][j], str[Peer(t)][j], got[t][j], sess'[t].die, Path(t)')
    BY <2>1, <2>2, <2>3, Untouched, Zenon
  <2>5. QED
    BY <1>0, <2>4 DEF GoodAt
<1>6. QED
  BY <1>2, <1>4, <1>5 DEF IInv

\* A step of a session alone, to ss
Alone(s, ss) ==
  /\ str' = str /\ got' = got /\ pipe' = pipe
  /\ sess' = [sess EXCEPT ![s] = ss]
  /\ Len(ss.hand) <= 1
  /\ sess[s].die => ss.die
  /\ IF ss.recv = "charge" THEN ss.to \in Stream ELSE ss.charge = 0
  /\ ss.bucket - ss.charge = sess[s].bucket - sess[s].charge
  /\ \A j \in Stream :
       Keeps(Path(Peer(s)), pipe[Peer(s)] \o (ss.hand \o ss.queue), Cmds, j)

LEMMA AloneKeeps ==
  ASSUME SmuxAssumption, IInv, NEW s \in Side, NEW ss \in SessT, Alone(s, ss)
  PROVE  IInv'
<1>0. /\ str' = str /\ got' = got /\ pipe' = pipe
      /\ sess' = [sess EXCEPT ![s] = ss]
      /\ Len(ss.hand) <= 1
      /\ sess[s].die => ss.die
      /\ IF ss.recv = "charge" THEN ss.to \in Stream ELSE ss.charge = 0
      /\ ss.bucket - ss.charge = sess[s].bucket - sess[s].charge
      /\ \A j \in Stream :
           Keeps(Path(Peer(s)), pipe[Peer(s)] \o (ss.hand \o ss.queue), Cmds, j)
  BY DEF Alone
<1>1. Typed /\ \A t \in Side : Loops(t)
  BY DEF IInv
<1>2. /\ Peer(s) \in Side /\ Peer(s) # s /\ Peer(Peer(s)) = s
      /\ \A t \in Side : t = s \/ t = Peer(s)
  BY Ends
<1>3. sess \in [Side -> SessT] /\ pipe \in [Side -> Seq(Frames)]
  BY <1>1 DEF Typed
<1>4. /\ sess' \in [Side -> SessT] /\ sess'[s] = ss /\ sess'[Peer(s)] = sess[Peer(s)]
  BY <1>0, <1>2, <1>3
<1>5. Path(s)' = Path(s)
  BY <1>0, <1>4 DEF Path
<1>6. Path(Peer(s))' = pipe[Peer(s)] \o (ss.hand \o ss.queue)
  BY <1>0, <1>2, <1>4 DEF Path
<1>7. \A j \in Stream : Keeps(Path(s), Path(s)', Cmds, j)
  BY <1>1, <1>5, PathTypes, KeepsSame
<1>8. \A j \in Stream : Keeps(Path(Peer(s)), Path(Peer(s))', Cmds, j)
  BY <1>0, <1>6
<1>9. Carrying
  <2>1. /\ Len(sess'[s].hand) <= 1
        /\ sess[s].die => sess'[s].die
        /\ IF sess'[s].recv = "charge" THEN sess'[s].to \in Stream
           ELSE sess'[s].charge = 0
        /\ sess'[s].bucket - sess'[s].charge = sess[s].bucket - sess[s].charge
        /\ \A j \in Stream : Keeps(Path(s), Path(s)', Cmds, j)
    BY <1>0, <1>4, <1>7
  <2>2. LET p == Peer(s)
        IN  /\ Len(sess'[p].hand) <= 1
            /\ sess[p].die => sess'[p].die
            /\ IF sess'[p].recv = "charge" THEN sess'[p].to \in Stream
               ELSE sess'[p].charge = 0
            /\ sess'[p].bucket - sess'[p].charge = sess[p].bucket - sess[p].charge
            /\ \A j \in Stream : Keeps(Path(p), Path(p)', Cmds, j)
    BY <1>1, <1>2, <1>4, <1>8 DEF Loops
  <2>3. pipe' \in [Side -> Seq(Frames)]
    BY <1>0, <1>3
  <2>4. QED
    BY <1>0, <1>2, <1>4, <2>1, <2>2, <2>3 DEF Carrying
<1>10. QED
  BY <1>9, Carries

\* What is asked for at s is on the path to its peer.
LEMMA PathFrom ==
  ASSUME SmuxAssumption, IInv, NEW s \in Side
  PROVE  /\ sess[s] \in SessT /\ Loops(s) /\ Peer(s) \in Side
         /\ pipe[Peer(s)] \in Seq(Frames)
         /\ sess[s].hand \in Seq(Frames) /\ sess[s].queue \in Seq(Frames)
         /\ Path(Peer(s)) \in Seq(Frames)
         /\ Path(Peer(s)) = pipe[Peer(s)] \o (sess[s].hand \o sess[s].queue)
<1>1. Peer(s) \in Side /\ Peer(Peer(s)) = s
  BY Ends
<1>2. Typed /\ Loops(s)
  BY DEF IInv
<1>3. QED
  BY <1>1, <1>2, PathTypes DEF Path, Typed

\* ... where the frames, the tokens and the charge stay
LEMMA StillKeeps ==
  ASSUME SmuxAssumption, IInv, NEW s \in Side, NEW ss \in SessT,
         str' = str, got' = got, pipe' = pipe, sess' = [sess EXCEPT ![s] = ss],
         ss.hand = sess[s].hand, ss.queue = sess[s].queue, ss.die = sess[s].die,
         ss.bucket = sess[s].bucket, ss.charge = sess[s].charge,
         \/ sess[s].recv # "charge" /\ ss.recv # "charge"
         \/ ss.recv = sess[s].recv /\ ss.to = sess[s].to
  PROVE  IInv'
<1>1. Loops(s) /\ Path(Peer(s)) = pipe[Peer(s)] \o (ss.hand \o ss.queue)
      /\ Path(Peer(s)) \in Seq(Frames)
  BY PathFrom
<1>2. \A j \in Stream :
        Keeps(Path(Peer(s)), pipe[Peer(s)] \o (ss.hand \o ss.queue), Cmds, j)
  BY <1>1, KeepsSame
<1>3. IF ss.recv = "charge" THEN ss.to \in Stream ELSE ss.charge = 0
  BY <1>1 DEF Loops
<1>4. Len(ss.hand) <= 1
  BY <1>1 DEF Loops
<1>5. Alone(s, ss)
  BY <1>2, <1>3, <1>4 DEF Alone
<1>6. QED
  BY <1>5, AloneKeeps

LEMMA RecvBlocksKeeps ==
  ASSUME SmuxAssumption, IInv, NEW s \in Side, RecvBlocks(s)
  PROVE  IInv'
<1> DEFINE x == sess[s]
           ss == [sess[s] EXCEPT !.recv = "blocked"]
<1>1. /\ x.recv = "run" /\ sess' = [sess EXCEPT ![s] = ss]
      /\ str' = str /\ pipe' = pipe /\ got' = got
  BY DEF RecvBlocks
<1>2. x \in SessT
  BY PathFrom
<1>3. /\ ss \in SessT /\ ss.hand = x.hand /\ ss.queue = x.queue /\ ss.die = x.die
      /\ ss.bucket = x.bucket /\ ss.charge = x.charge /\ ss.recv = "blocked"
  BY <1>2 DEF SessT
<1> HIDE DEF ss
<1>4. QED
  BY <1>1, <1>3, StillKeeps

LEMMA RecvWakesKeeps ==
  ASSUME SmuxAssumption, IInv, NEW s \in Side, RecvWakes(s)
  PROVE  IInv'
<1> DEFINE x == sess[s]
           ss == [sess[s] EXCEPT !.recv = "run", !.permit = FALSE]
<1>1. /\ x.recv = "blocked" /\ sess' = [sess EXCEPT ![s] = ss]
      /\ str' = str /\ pipe' = pipe /\ got' = got
  BY DEF RecvWakes
<1>2. x \in SessT
  BY PathFrom
<1>3. /\ ss \in SessT /\ ss.hand = x.hand /\ ss.queue = x.queue /\ ss.die = x.die
      /\ ss.bucket = x.bucket /\ ss.charge = x.charge /\ ss.recv = "run"
  BY <1>2 DEF SessT
<1> HIDE DEF ss
<1>4. QED
  BY <1>1, <1>3, StillKeeps

LEMMA RecvFailsKeeps ==
  ASSUME SmuxAssumption, IInv, NEW s \in Side, RecvFails(s)
  PROVE  IInv'
<1> DEFINE x == sess[s]
           ss == [sess[s] EXCEPT !.recv = "stopped", !.readError = TRUE]
<1>1. /\ x.recv = "run" /\ sess' = [sess EXCEPT ![s] = ss]
      /\ str' = str /\ pipe' = pipe /\ got' = got
  BY DEF RecvFails
<1>2. x \in SessT
  BY PathFrom
<1>3. /\ ss \in SessT /\ ss.hand = x.hand /\ ss.queue = x.queue /\ ss.die = x.die
      /\ ss.bucket = x.bucket /\ ss.charge = x.charge /\ ss.recv = "stopped"
  BY <1>2 DEF SessT
<1> HIDE DEF ss
<1>4. QED
  BY <1>1, <1>3, StillKeeps

LEMMA SendFailsKeeps ==
  ASSUME SmuxAssumption, IInv, NEW s \in Side, SendFails(s)
  PROVE  IInv'
<1> DEFINE x == sess[s]
           ss == [sess[s] EXCEPT !.writeError = TRUE]
<1>1. /\ sess' = [sess EXCEPT ![s] = ss]
      /\ str' = str /\ pipe' = pipe /\ got' = got
  BY DEF SendFails
<1>2. x \in SessT
  BY PathFrom
<1>3. /\ ss \in SessT /\ ss.hand = x.hand /\ ss.queue = x.queue /\ ss.die = x.die
      /\ ss.bucket = x.bucket /\ ss.charge = x.charge /\ ss.recv = x.recv /\ ss.to = x.to
  BY <1>2 DEF SessT
<1> HIDE DEF ss
<1>4. QED
  BY <1>1, <1>3, StillKeeps

LEMMA PingKeeps ==
  ASSUME SmuxAssumption, IInv, NEW s \in Side, Ping(s)
  PROVE  IInv'
<1> DEFINE x == sess[s]
           y == [sess[s] EXCEPT !.permit = TRUE]
           f == Frame("NOP", 0, <<>>)
           p == Peer(s)
<1>1. /\ sess' = [sess EXCEPT ![s] = IF Refused(s) THEN y ELSE Queued(y, f)]
      /\ str' = str /\ pipe' = pipe /\ got' = got
  BY DEF Ping
<1>2. /\ x \in SessT /\ Loops(s) /\ pipe[p] \in Seq(Frames)
      /\ x.hand \in Seq(Frames) /\ x.queue \in Seq(Frames) /\ Path(p) \in Seq(Frames)
      /\ Path(p) = pipe[p] \o (x.hand \o x.queue)
  BY PathFrom
<1>3. /\ y \in SessT /\ y.hand = x.hand /\ y.queue = x.queue /\ y.die = x.die
      /\ y.bucket = x.bucket /\ y.charge = x.charge /\ y.recv = x.recv /\ y.to = x.to
  BY <1>2 DEF SessT
<1>4. f \in Frames /\ \A j \in Stream : ~ Touches(f, Cmds, j)
  BY DEF Frame, Frames, Touches, Cmds
<1> HIDE DEF y, f
<1>5. CASE Refused(s)
  BY <1>1, <1>3, <1>5, StillKeeps
<1>6. CASE ~ Refused(s)
  <2> DEFINE ss == Queued(y, f)
  <2>1. /\ ss \in SessT /\ ss.die = y.die /\ ss.hand = y.hand
        /\ ss.queue = Append(y.queue, f) /\ ss.recv = y.recv /\ ss.charge = y.charge
        /\ ss.to = y.to /\ ss.bucket = y.bucket
    BY <1>3, <1>4, QueuedFields
  <2>2. sess' = [sess EXCEPT ![s] = ss]
    BY <1>1, <1>6
  <2> HIDE DEF ss
  <2>3. pipe[p] \o (ss.hand \o ss.queue) = Append(Path(p), f)
    <3>1. pipe[p] \o (x.hand \o Append(x.queue, f))
            = Append(pipe[p] \o (x.hand \o x.queue), f)
      <4> HIDE DEF x, p
      <4>1. QED
        BY <1>2, <1>4, PathAsks, ZenonT(40)
    <3>2. ss.hand = x.hand /\ ss.queue = Append(x.queue, f)
      BY <1>3, <2>1
    <3>3. QED
      BY <1>2, <3>1, <3>2
  <2>4. \A j \in Stream : Keeps(Path(p), pipe[p] \o (ss.hand \o ss.queue), Cmds, j)
    BY <1>2, <1>4, <2>3, KeepsAppend
  <2>5. /\ Len(ss.hand) <= 1
        /\ IF ss.recv = "charge" THEN ss.to \in Stream ELSE ss.charge = 0
    BY <1>2, <1>3, <2>1 DEF Loops
  <2>6. Alone(s, ss)
    BY <1>1, <1>3, <2>1, <2>2, <2>4, <2>5 DEF Alone
  <2>7. QED
    BY <2>1, <2>6, AloneKeeps
<1>7. QED
  BY <1>5, <1>6

LEMMA SendTakesKeeps ==
  ASSUME SmuxAssumption, IInv, NEW s \in Side, SendTakes(s)
  PROVE  IInv'
<1> DEFINE x == sess[s]
           p == Peer(s)
           k == HeapTop(x.queue)
           a == <<x.queue[k]>>
           b == RemoveAt(x.queue, k)
           ss == [sess[s] EXCEPT !.hand = a, !.queue = b]
<1>1. /\ x.hand = <<>> /\ x.queue # <<>>
      /\ sess' = [sess EXCEPT ![s] = ss]
      /\ str' = str /\ pipe' = pipe /\ got' = got
  <2>1. /\ x.hand = <<>> /\ x.queue # <<>>
        /\ str' = str /\ pipe' = pipe /\ got' = got
    BY DEF SendTakes
  <2>2. sess' = [sess EXCEPT ![s] = ss]
    BY DEF SendTakes
  <2>3. QED
    BY <2>1, <2>2
<1>2. /\ x \in SessT /\ Loops(s) /\ pipe[p] \in Seq(Frames) /\ x.queue \in Seq(Frames)
      /\ Path(p) = pipe[p] \o (x.hand \o x.queue)
  BY PathFrom
<1>3. k \in DOMAIN x.queue /\ \A j \in DOMAIN x.queue : j < k => Overtakes(x.queue[k], x.queue[j])
  BY <1>1, <1>2, TopOfHeap
<1> HIDE DEF k
<1>4. b \in Seq(Frames)
      /\ \A j \in Stream : Keeps(pipe[p] \o (<<>> \o x.queue), pipe[p] \o (a \o b), Cmds, j)
  BY <1>2, <1>3, KeepsTaken
<1>5. a \in Seq(Frames) /\ Len(a) <= 1
  BY <1>2, <1>3
<1> HIDE DEF a, b
<1>6. /\ ss \in SessT /\ ss.hand = a /\ ss.queue = b /\ ss.die = x.die
      /\ ss.bucket = x.bucket /\ ss.charge = x.charge /\ ss.recv = x.recv /\ ss.to = x.to
  <2>1. x \in SessT
    BY <1>2
  <2>2. QED
    BY <1>4, <1>5, <2>1 DEF SessT
<1> HIDE DEF ss
<1>7. \A j \in Stream : Keeps(Path(p), pipe[p] \o (ss.hand \o ss.queue), Cmds, j)
  BY <1>1, <1>2, <1>4, <1>6
<1>8. IF ss.recv = "charge" THEN ss.to \in Stream ELSE ss.charge = 0
  BY <1>2, <1>6 DEF Loops
<1>9. Len(ss.hand) <= 1
  BY <1>5, <1>6
<1>a. Alone(s, ss)
  BY <1>1, <1>6, <1>7, <1>8, <1>9 DEF Alone
<1>10. QED
  BY <1>6, <1>a, AloneKeeps

\* A frame is handed on.
LEMMA HandedOn ==
  ASSUME NEW q \in Seq(Frames), NEW f \in Frames, NEW b \in Seq(Frames)
  PROVE  Append(q, f) \o (<<>> \o b) = q \o (<<f>> \o b)
<1> DEFINE c == <<>> \o b
           d == <<f>> \o b
<1>1. c = b /\ c \in Seq(Frames)
  OBVIOUS
<1>2. d \in Seq(Frames) /\ Len(d) = Len(b) + 1 /\ d[1] = f
      /\ \A k \in 1 .. Len(b) : d[k + 1] = b[k]
  OBVIOUS
<1> DEFINE x == Append(q, f)
<1>3. x \in Seq(Frames) /\ Len(x) = Len(q) + 1 /\ x[Len(q) + 1] = f
      /\ \A k \in 1 .. Len(q) : x[k] = q[k]
  OBVIOUS
<1> HIDE DEF c, d, x
<1>4. /\ x \o b \in Seq(Frames) /\ Len(x \o b) = Len(x) + Len(b)
      /\ \A k \in 1 .. Len(x) : (x \o b)[k] = x[k]
      /\ \A k \in 1 .. Len(b) : (x \o b)[Len(x) + k] = b[k]
  BY <1>3, Concat, Zenon
<1>5. /\ q \o d \in Seq(Frames) /\ Len(q \o d) = Len(q) + Len(d)
      /\ \A k \in 1 .. Len(q) : (q \o d)[k] = q[k]
      /\ \A k \in 1 .. Len(d) : (q \o d)[Len(q) + k] = d[k]
  BY <1>2, Concat, Zenon
<1>6. Len(q) \in Nat /\ Len(b) \in Nat
  OBVIOUS
<1> DEFINE m == Len(q)
           n == Len(b)
<1> HIDE DEF m, n
<1>7. ASSUME NEW k \in 1 .. m + n + 1
      PROVE  (x \o b)[k] = (q \o d)[k]
  <2>1. CASE k <= m
    <3>1. k \in 1 .. m /\ k \in 1 .. m + 1
      BY <1>6, <2>1 DEF m, n
    <3>2. QED
      BY <1>3, <1>4, <1>5, <3>1 DEF m
  <2>2. CASE k = m + 1
    <3>1. k \in 1 .. m + 1 /\ 1 \in 1 .. n + 1
      BY <1>6, <2>2 DEF m, n
    <3>2. (x \o b)[k] = f
      BY <1>3, <1>4, <2>2, <3>1 DEF m
    <3>3. (q \o d)[m + 1] = d[1]
      BY <1>2, <1>5, <3>1 DEF m, n
    <3>4. QED
      BY <1>2, <2>2, <3>2, <3>3
  <2>3. CASE k > m + 1
    <3> DEFINE l == k - m - 1
    <3>1. l \in 1 .. n /\ (m + 1) + l = k /\ l + 1 \in 1 .. n + 1 /\ m + (l + 1) = k
      BY <1>6, <2>3 DEF m, n
    <3> HIDE DEF l
    <3>2. (x \o b)[k] = b[l]
      BY <1>3, <1>4, <3>1 DEF m, n
    <3>3. (q \o d)[k] = d[l + 1]
      BY <1>2, <1>5, <3>1 DEF m, n
    <3>4. d[l + 1] = b[l]
      BY <1>2, <3>1 DEF n
    <3>5. QED
      BY <3>2, <3>3, <3>4
  <2>4. k <= m \/ k = m + 1 \/ k > m + 1
    <3>1. m \in Nat /\ k \in Int
      BY <1>6 DEF m
    <3>2. QED
      BY <3>1
  <2>5. QED
    BY <2>1, <2>2, <2>3, <2>4
<1>8. /\ x \o b \in Seq(Frames) /\ q \o d \in Seq(Frames)
      /\ Len(x \o b) = m + n + 1 /\ Len(q \o d) = m + n + 1
  BY <1>2, <1>3, <1>4, <1>5, <1>6 DEF m, n
<1>9. x \o b = q \o d
  <2> DEFINE v == x \o b
             w == q \o d
  <2>1. /\ v \in Seq(Frames) /\ w \in Seq(Frames) /\ Len(v) = m + n + 1
        /\ Len(w) = m + n + 1 /\ \A k \in 1 .. m + n + 1 : v[k] = w[k]
    BY <1>7, <1>8
  <2> HIDE DEF v, w
  <2>2. v = w
    BY <2>1
  <2>3. QED
    BY <2>2 DEF v, w
<1>10. QED
  BY <1>1, <1>9 DEF c, d, x

LEMMA SendWritesKeeps ==
  ASSUME SmuxAssumption, IInv, NEW s \in Side, SendWrites(s)
  PROVE  IInv'
<1> DEFINE x == sess[s]
           p == Peer(s)
           f == x.hand[1]
           rs == IF sess[s].hand[1].cmd = "NOP" THEN sess[s].results
                 ELSE sess[s].results \cup {<<sess[s].hand[1].cmd, sess[s].hand[1].sid>>}
           ss == [sess[s] EXCEPT !.hand = <<>>, !.results = rs]
<1>1. /\ x.hand # <<>> /\ pipe' = [pipe EXCEPT ![p] = Append(pipe[p], f)]
      /\ sess' = [sess EXCEPT ![s] = ss]
      /\ str' = str /\ got' = got
  BY DEF SendWrites
<1>2. /\ x \in SessT /\ Loops(s) /\ pipe[p] \in Seq(Frames) /\ x.hand \in Seq(Frames)
      /\ x.queue \in Seq(Frames) /\ Path(p) \in Seq(Frames) /\ p \in Side
      /\ Path(p) = pipe[p] \o (x.hand \o x.queue)
  BY PathFrom
<1>3. x.hand = <<f>> /\ f \in Frames
  <2>1. x.hand \in Seq(Frames) /\ x.hand # <<>> /\ Len(x.hand) <= 1
    BY <1>1, <1>2 DEF Loops
  <2>2. QED
    BY <2>1
<1>4. rs \in SUBSET ({"SYN", "FIN", "UPD", "PSH"} \X Stream)
  <2>1. x.results \in SUBSET ({"SYN", "FIN", "UPD", "PSH"} \X Stream)
    BY <1>2, SessFields
  <2>2. f.cmd = "NOP" \/ (f.cmd \in {"SYN", "FIN", "UPD", "PSH"} /\ f.sid \in Stream)
    BY <1>3 DEF Frames
  <2>3. QED
    BY <2>1, <2>2
<1> HIDE DEF f, rs
<1>5. /\ ss \in SessT /\ ss.hand = <<>> /\ Len(ss.hand) <= 1
      /\ ss.queue = x.queue /\ ss.die = x.die
      /\ ss.bucket = x.bucket /\ ss.charge = x.charge /\ ss.recv = x.recv /\ ss.to = x.to
  <2> DEFINE e == <<>>
             v == [sess[s] EXCEPT !.hand = e, !.results = rs]
  <2>1. e \in Seq(Frames) /\ ss = v /\ e = <<>> /\ Len(e) <= 1
    OBVIOUS
  <2> HIDE DEF e, ss
  <2>2. x \in SessT
    BY <1>2
  <2>3. /\ v \in SessT /\ v.hand = e /\ v.queue = x.queue /\ v.die = x.die
        /\ v.bucket = x.bucket /\ v.charge = x.charge /\ v.recv = x.recv /\ v.to = x.to
    BY <1>4, <2>1, <2>2 DEF SessT
  <2> HIDE DEF v
  <2>4. QED
    BY <2>1, <2>3
<1> HIDE DEF ss
<1>6. /\ sess \in [Side -> SessT] /\ pipe \in [Side -> Seq(Frames)]
      /\ \A t \in Side : Loops(t)
      /\ \A t \in Side : t = s \/ t = p
      /\ p # s /\ Peer(p) = s
  BY Ends DEF IInv, Typed
<1>7. /\ sess' \in [Side -> SessT] /\ sess'[s] = ss /\ sess'[p] = sess[p]
      /\ pipe' \in [Side -> Seq(Frames)] /\ pipe'[s] = pipe[s]
      /\ pipe'[p] = Append(pipe[p], f)
  <2>1. Append(pipe[p], f) \in Seq(Frames)
    BY <1>2, <1>3
  <2>2. sess' \in [Side -> SessT] /\ sess'[s] = ss /\ sess'[p] = sess[p]
    BY <1>1, <1>5, <1>6
  <2>3. /\ pipe' \in [Side -> Seq(Frames)] /\ pipe'[s] = pipe[s]
        /\ pipe'[p] = Append(pipe[p], f)
    BY <1>1, <1>2, <1>6, <2>1
  <2>4. QED
    BY <2>2, <2>3
<1>8. Path(s)' = Path(s)
  BY <1>7 DEF Path
<1>9. Path(p)' = Path(p)
  <2>1. Path(p)' = Append(pipe[p], f) \o (<<>> \o x.queue)
    BY <1>5, <1>6, <1>7 DEF Path
  <2>2. Path(p) = pipe[p] \o (<<f>> \o x.queue)
    BY <1>2, <1>3
  <2>3. QED
    BY <1>2, <1>3, <2>1, <2>2, HandedOn
<1>10. \A t \in Side, j \in Stream : Keeps(Path(t), Path(t)', Cmds, j)
  <2>1. Typed
    BY DEF IInv
  <2>2. Path(s) \in Seq(Frames)
    BY <2>1, PathTypes
  <2>3. \A j \in Stream : Keeps(Path(s), Path(s), Cmds, j) /\ Keeps(Path(p), Path(p), Cmds, j)
    BY <1>2, <2>2, KeepsSame
  <2>4. QED
    BY <1>6, <1>8, <1>9, <2>3
<1>11. ASSUME NEW t \in Side
       PROVE  /\ Len(sess'[t].hand) <= 1
              /\ sess[t].die => sess'[t].die
              /\ IF sess'[t].recv = "charge" THEN sess'[t].to \in Stream
                 ELSE sess'[t].charge = 0
              /\ sess'[t].bucket - sess'[t].charge = sess[t].bucket - sess[t].charge
  <2>1. CASE t = s
    BY <1>2, <1>5, <1>7, <2>1 DEF Loops
  <2>2. CASE t = p
    BY <1>6, <1>7, <2>2 DEF Loops
  <2>3. QED
    BY <1>6, <2>1, <2>2
<1>12. Carrying
  BY <1>1, <1>7, <1>10, <1>11 DEF Carrying
<1>13. QED
  BY <1>12, Carries

-----------------------------------------------------------------------------
(* A frame arrives.                                                        *)

LEMMA FirstOf ==
  ASSUME NEW q \in Seq(Frames), q # <<>>, NEW c \in Seq(Frames)
  PROVE  /\ q \o c # <<>> /\ (q \o c)[1] = Head(q) /\ Head(q) \in Frames
         /\ Tail(q) \in Seq(Frames) /\ Tail(q) \o c = Tail(q \o c)
<1> DEFINE d == q \o c
           b == Tail(q)
           m == Len(q)
           n == Len(c)
<1>1. /\ m \in Nat /\ n \in Nat /\ m >= 1 /\ Head(q) = q[1] /\ q[1] \in Frames
      /\ b \in Seq(Frames) /\ Len(b) = m - 1 /\ \A k \in 1 .. m - 1 : b[k] = q[k + 1]
  OBVIOUS
<1> HIDE DEF m, n, b
<1>2. /\ d \in Seq(Frames) /\ Len(d) = m + n /\ (\A k \in 1 .. m : d[k] = q[k])
      /\ \A k \in 1 .. n : d[m + k] = c[k]
  BY Concat DEF m, n
<1>3. /\ b \o c \in Seq(Frames) /\ Len(b \o c) = Len(b) + n
      /\ (\A k \in 1 .. Len(b) : (b \o c)[k] = b[k])
      /\ \A k \in 1 .. n : (b \o c)[Len(b) + k] = c[k]
  BY <1>1, Concat, Zenon DEF n
<1> HIDE DEF d
<1>4. /\ d # <<>> /\ Tail(d) \in Seq(Frames) /\ Len(Tail(d)) = m + n - 1
      /\ \A k \in 1 .. m + n - 1 : Tail(d)[k] = d[k + 1]
  <2>1. d \in Seq(Frames) /\ Len(d) = m + n /\ m + n >= 1 /\ m + n \in Nat
    BY <1>1, <1>2
  <2>2. PICK l : l = m + n
    OBVIOUS
  <2>3. /\ d # <<>> /\ Tail(d) \in Seq(Frames) /\ Len(Tail(d)) = l - 1
        /\ \A k \in 1 .. l - 1 : Tail(d)[k] = d[k + 1]
    <3>1. d \in Seq(Frames) /\ Len(d) = l /\ l >= 1 /\ l \in Nat
      BY <2>1, <2>2
    <3>2. QED
      BY <3>1
  <2>4. QED
    BY <1>1, <2>2, <2>3
<1> DEFINE v == b \o c
           w == Tail(d)
<1> HIDE DEF v, w
<1>5. ASSUME NEW k \in 1 .. m + n - 1
      PROVE  v[k] = w[k]
  <2>1. m \in Nat /\ n \in Nat /\ k \in Nat /\ k >= 1 /\ k <= m + n - 1
    BY <1>1
  <2>2. CASE k <= m - 1
    <3>1. k \in 1 .. m - 1 /\ k + 1 \in 1 .. m
      BY <2>1, <2>2
    <3>2. QED
      BY <1>1, <1>2, <1>3, <1>4, <3>1 DEF v, w
  <2>3. CASE k > m - 1
    <3> DEFINE l == k - (m - 1)
    <3>1. l \in 1 .. n /\ (m - 1) + l = k /\ m + l = k + 1
      BY <2>1, <2>3
    <3> HIDE DEF l
    <3>2. v[k] = c[l] /\ w[k] = c[l]
      BY <1>1, <1>2, <1>3, <1>4, <3>1 DEF v, w
    <3>3. QED
      BY <3>2
  <2>4. QED
    BY <2>1, <2>2, <2>3
<1>6. /\ v \in Seq(Frames) /\ w \in Seq(Frames)
      /\ Len(v) = m + n - 1 /\ Len(w) = m + n - 1
  BY <1>1, <1>3, <1>4 DEF v, w
<1>7. v = w
  BY <1>5, <1>6
<1>8. d[1] = q[1]
  BY <1>1, <1>2
<1>9. QED
  BY <1>1, <1>4, <1>7, <1>8 DEF v, w, d, b

\* The paths when a frame is taken from one
LEMMA Arrival ==
  ASSUME SmuxAssumption, IInv, NEW s \in Side, NEW cmd, Takes(s, cmd),
         \A t \in Side : sess'[t].hand = sess[t].hand /\ sess'[t].queue = sess[t].queue
  PROVE  /\ got' = got /\ pipe' \in [Side -> Seq(Frames)]
         /\ Path(s) \in Seq(Frames) /\ Path(s) # <<>>
         /\ Path(s)[1] = Head(pipe[s]) /\ Path(s)[1] \in Frames /\ Path(s)[1].cmd = cmd
         /\ Path(s)' = Tail(Path(s)) /\ Path(Peer(s))' = Path(Peer(s))
<1>1. /\ pipe[s] # <<>> /\ Head(pipe[s]).cmd = cmd
      /\ pipe' = [pipe EXCEPT ![s] = Tail(pipe[s])] /\ got' = got
  BY DEF Takes
<1>2. Typed /\ Peer(s) \in Side /\ Peer(s) # s
  BY Ends DEF IInv
<1>3. pipe \in [Side -> Seq(Frames)] /\ pipe[s] \in Seq(Frames)
  BY <1>2 DEF Typed
<1> DEFINE c == sess[Peer(s)].hand \o sess[Peer(s)].queue
           q == pipe[s]
<1>4. c \in Seq(Frames)
  BY <1>2, PathTypes, Concat
<1>5. Path(s) = q \o c
  BY DEF Path
<1>6. sess'[Peer(s)].hand \o sess'[Peer(s)].queue = c
  BY <1>2
<1>7. Path(s)' = pipe'[s] \o c
  BY <1>6 DEF Path
<1>8. Path(Peer(s))' = pipe'[Peer(s)]
        \o (sess'[Peer(Peer(s))].hand \o sess'[Peer(Peer(s))].queue)
  BY DEF Path
<1> HIDE DEF c
<1>9. /\ q \o c # <<>> /\ (q \o c)[1] = Head(q) /\ Head(q) \in Frames
      /\ Tail(q) \in Seq(Frames) /\ Tail(q) \o c = Tail(q \o c) /\ q \o c \in Seq(Frames)
  BY <1>1, <1>3, <1>4, FirstOf, Concat
<1>10. /\ pipe' \in [Side -> Seq(Frames)] /\ pipe'[s] = Tail(q)
       /\ pipe'[Peer(s)] = pipe[Peer(s)]
  BY <1>1, <1>2, <1>3, <1>9
<1>11. Path(Peer(s))' = Path(Peer(s))
  <2>1. Peer(Peer(s)) = s
    BY Ends
  <2>2. QED
    BY <1>8, <1>10, <2>1 DEF Path
<1>12. QED
  BY <1>1, <1>5, <1>7, <1>9, <1>10, <1>11

LEMMA RecvNopKeeps ==
  ASSUME SmuxAssumption, IInv, NEW s \in Side, RecvNop(s)
  PROVE  IInv'
<1>1. Takes(s, "NOP") /\ sess' = sess /\ str' = str
  BY DEF RecvNop
<1> DEFINE path == Path(s)
           p == Peer(s)
<1>2. /\ got' = got /\ pipe' \in [Side -> Seq(Frames)]
      /\ path \in Seq(Frames) /\ path # <<>> /\ path[1].cmd = "NOP"
      /\ Path(s)' = Tail(path) /\ Path(p)' = Path(p)
  BY <1>1, Arrival
<1>3. /\ \A t \in Side : t = s \/ t = p
      /\ \A t \in Side : Loops(t)
      /\ sess' \in [Side -> SessT]
      /\ Path(p) \in Seq(Frames)
  BY <1>1, Ends, PathFrom DEF IInv, Typed
<1>4. \A j \in Stream : ~ Touches(path[1], Cmds, j)
  BY <1>2 DEF Touches, Cmds
<1>5. \A j \in Stream : Keeps(path, Tail(path), Cmds, j) /\ Keeps(Path(p), Path(p), Cmds, j)
  BY <1>2, <1>3, <1>4, KeepsTail, KeepsSame
<1>6. \A t \in Side, j \in Stream : Keeps(Path(t), Path(t)', Cmds, j)
  BY <1>2, <1>3, <1>5
<1>7. ASSUME NEW t \in Side
      PROVE  /\ Len(sess'[t].hand) <= 1
             /\ sess[t].die => sess'[t].die
             /\ IF sess'[t].recv = "charge" THEN sess'[t].to \in Stream
                ELSE sess'[t].charge = 0
             /\ sess'[t].bucket - sess'[t].charge = sess[t].bucket - sess[t].charge
  BY <1>1, <1>3 DEF Loops
<1>8. Carrying
  BY <1>1, <1>2, <1>3, <1>6, <1>7 DEF Carrying
<1>9. QED
  BY <1>8, Carries

\* The peer of a stream that becomes u looks at little of it.
LEMMA PeerLooks ==
  ASSUME NEW p, NEW i, NEW r, NEW t, NEW u, NEW h, NEW dead, NEW path,
         Good(p, i, r, t, h, dead, path),
         u.open = t.open, u.queued = t.queued, u.closer = t.closer, u.owed = t.owed,
         u.numRead = t.numRead
  PROVE  Good(p, i, r, u, h, dead, path)
<1>1. Bears(i, path, r, u, h, dead)
  BY DEF Good, Bears
<1>2. Intro(p, i, path, r, u) /\ Credit(i, path, r, u)
  BY DEF Good, Intro, Credit
<1>3. QED
  BY <1>1, <1>2 DEF Good

\* A frame arrives for stream i at s, which becomes u, and the session ss.
Arriving(s, i, u, ss) ==
  /\ Path(s)[1].sid = i
  /\ str' = [str EXCEPT ![s][i] = u] /\ sess' = [sess EXCEPT ![s] = ss]
  /\ ss.hand = sess[s].hand /\ ss.queue = sess[s].queue /\ ss.die = sess[s].die
  /\ IF ss.recv = "charge" THEN ss.to \in Stream ELSE ss.charge = 0
  /\ ss.bucket - ss.charge + Bytes(u.buffers)
       = sess[s].bucket - sess[s].charge + Bytes(str[s][i].buffers)
  /\ u.open = str[s][i].open /\ u.queued = str[s][i].queued
  /\ u.closer = str[s][i].closer /\ u.owed = str[s][i].owed
  /\ u.numRead = str[s][i].numRead
  /\ Good(s, i, u, str[Peer(s)][i], got[s][i], sess[s].die, Tail(Path(s)))

LEMMA Arrives ==
  ASSUME SmuxAssumption, IInv, NEW s \in Side, NEW i \in Stream, NEW cmd, Takes(s, cmd),
         NEW u \in StrT, NEW ss \in SessT, Arriving(s, i, u, ss)
  PROVE  IInv'
<1> DEFINE p == Peer(s)
           path == Path(s)
<1>1. /\ str' = [str EXCEPT ![s][i] = u] /\ sess' = [sess EXCEPT ![s] = ss]
      /\ ss.hand = sess[s].hand /\ ss.queue = sess[s].queue /\ ss.die = sess[s].die
      /\ IF ss.recv = "charge" THEN ss.to \in Stream ELSE ss.charge = 0
      /\ ss.bucket - ss.charge + Bytes(u.buffers)
           = sess[s].bucket - sess[s].charge + Bytes(str[s][i].buffers)
      /\ path[1].sid = i
  BY DEF Arriving
<1>2. /\ \A t \in Side : t = s \/ t = p
      /\ p \in Side /\ p # s
      /\ \A t \in Side : Loops(t)
      /\ sess \in [Side -> SessT]
      /\ Path(p) \in Seq(Frames)
  BY Ends, PathFrom DEF IInv, Typed
<1>3. sess' \in [Side -> SessT] /\ sess'[s] = ss /\ sess'[p] = sess[p]
  BY <1>1, <1>2
<1>4. \A t \in Side : sess'[t].hand = sess[t].hand /\ sess'[t].queue = sess[t].queue
  BY <1>1, <1>2, <1>3
<1>5. /\ got' = got /\ pipe' \in [Side -> Seq(Frames)]
      /\ path \in Seq(Frames) /\ path # <<>>
      /\ Path(s)' = Tail(path) /\ Path(p)' = Path(p)
  BY <1>4, Arrival
<1>6. \A t \in Side, j \in Stream : j # i => Keeps(Path(t), Path(t)', Cmds, j)
  <2>1. \A j \in Stream : j # i => ~ Touches(path[1], Cmds, j)
    BY <1>1 DEF Touches
  <2>2. \A j \in Stream : j # i => Keeps(path, Tail(path), Cmds, j)
    BY <1>5, <2>1, KeepsTail
  <2>3. \A j \in Stream : Keeps(Path(p), Path(p), Cmds, j)
    BY <1>2, KeepsSame
  <2>4. QED
    BY <1>2, <1>5, <2>2, <2>3
<1>7. ASSUME NEW t \in Side
      PROVE  /\ Len(sess'[t].hand) <= 1
             /\ sess[t].die => sess'[t].die
             /\ IF sess'[t].recv = "charge" THEN sess'[t].to \in Stream
                ELSE sess'[t].charge = 0
             /\ t # s => sess'[t].bucket - sess'[t].charge = sess[t].bucket - sess[t].charge
  <2>1. CASE t = s
    BY <1>1, <1>2, <1>3, <2>1 DEF Loops
  <2>2. CASE t = p
    BY <1>2, <1>3, <2>2 DEF Loops
  <2>3. QED
    BY <1>2, <2>1, <2>2
<1>8. /\ Good(s, i, u, str[p][i], got[s][i], sess'[s].die, Path(s)')
      /\ Good(p, i, str[p][i], u, got[p][i], sess'[p].die, Path(p)')
  <2>1. Good(s, i, u, str[p][i], got[s][i], sess[s].die, Tail(path))
    BY DEF Arriving
  <2>2. Good(p, i, str[p][i], str[s][i], got[p][i], sess[p].die, Path(p))
    BY Now
  <2>3. /\ u.open = str[s][i].open /\ u.queued = str[s][i].queued
        /\ u.closer = str[s][i].closer /\ u.owed = str[s][i].owed
        /\ u.numRead = str[s][i].numRead
    BY DEF Arriving
  <2>4. Good(p, i, str[p][i], u, got[p][i], sess[p].die, Path(p))
    BY <2>2, <2>3, PeerLooks
  <2>5. QED
    BY <1>1, <1>3, <1>5, <2>1, <2>4
<1>9. got' = [got EXCEPT ![s][i] = got[s][i]] /\ got[s][i] \in Seq(Nat)
  BY <1>5, SameHistory DEF IInv, Typed
<1>10. Moving(s, i, u, got[s][i])
  BY <1>1, <1>3, <1>5, <1>6, <1>7, <1>8, <1>9 DEF Moving
<1>11. QED
  BY <1>9, <1>10, Moves

\* A frame that is no SYN arrives, and data only when the stream is done: what
\* held with it holds without it.
LEMMA Without ==
  ASSUME NEW s, NEW i, NEW t, NEW r, NEW g, NEW dead,
         NEW path \in Seq(Frames), path # <<>>, path[1].sid = i,
         Good(s, i, t, r, g, dead, path), path[1].cmd # "SYN",
         path[1].cmd = "PSH" => t.closer = "done"
  PROVE  Good(s, i, t, r, g, dead, Tail(path))
<1> DEFINE new == Tail(path)
<1>1. ~ Is(path[1], "SYN", i)
  BY DEF Is
<1>2. \A o : FinsLast(path, i, o) => FinsLast(new, i, o)
  BY OthersTail
<1>3. \A low, high : Updates(path, i, low, high) => Updates(new, i, low, high)
  BY OthersTail
<1>4. SynFirst(path, i) => SynFirst(new, i)
  BY OthersTail
<1>5. HasSyn(new, i) <=> HasSyn(path, i)
  BY <1>1, OthersTail
<1>6. (\A k \in DOMAIN path : ~ Is(path[k], "FIN", i)) =>
        \A k \in DOMAIN new : ~ Is(new[k], "FIN", i)
  BY OthersTail
<1>7. ASSUME t.closer # "done", NEW a, NEW b, Stretch(path, i, a, b)
      PROVE  Stretch(new, i, a, b)
  <2>1. ~ Touches(path[1], {"PSH"}, i)
    BY <1>7 DEF Touches
  <2>2. Keeps(path, new, {"PSH"}, i)
    BY <2>1, KeepsTail
  <2>3. QED
    BY <1>7, <2>2, StretchKeeps
<1> HIDE DEF new
<1>8. Contents(t, g) /\ Stages(s, t, g, dead) /\ Writes(t)
  BY DEF Good
<1>9. Bears(i, new, t, r, g, dead)
  <2>1. Bears(i, path, t, r, g, dead)
    BY DEF Good
  <2>2. t.closer # "done" => Stretch(new, i, t.numRead + Bytes(t.buffers), r.queued)
    BY <1>7, <2>1 DEF Bears
  <2>3. QED
    BY <1>2, <1>6, <2>1, <2>2 DEF Bears
<1>10. Intro(s, i, new, t, r)
  BY <1>4, <1>5 DEF Good, Intro
<1>11. Credit(i, new, t, r)
  BY <1>3 DEF Good, Credit
<1>12. QED
  BY <1>8, <1>9, <1>10, <1>11 DEF Good, new

LEMMA SameStream ==
  ASSUME Typed, NEW s \in Side, NEW i \in Stream
  PROVE  str = [str EXCEPT ![s][i] = str[s][i]] /\ sess = [sess EXCEPT ![s] = sess[s]]
BY DEF Typed

\* A frame that finds no stream, or one that is done
LEMMA Dropped ==
  ASSUME SmuxAssumption, IInv, NEW s \in Side, NEW i \in Stream, NEW cmd, Takes(s, cmd),
         Path(s)[1].sid = i, cmd # "SYN", cmd = "PSH" => str[s][i].closer = "done",
         str' = str, sess' = sess
  PROVE  IInv'
<1> DEFINE t == str[s][i]
           r == str[Peer(s)][i]
           g == got[s][i]
           path == Path(s)
<1>1. path \in Seq(Frames) /\ path # <<>> /\ path[1].cmd = cmd
  BY Arrival
<1>2. /\ t \in StrT /\ sess[s] \in SessT /\ Loops(s)
      /\ Good(s, i, t, r, g, sess[s].die, path)
  BY Now
<1>3. path[1].cmd # "SYN" /\ path[1].sid = i /\ (path[1].cmd = "PSH" => t.closer = "done")
  BY <1>1
<1>4. Good(s, i, t, r, g, sess[s].die, Tail(path))
  <2> HIDE DEF t, r, g, path
  <2>1. QED
    BY <1>1, <1>2, <1>3, Without
<1>5. str' = [str EXCEPT ![s][i] = t] /\ sess' = [sess EXCEPT ![s] = sess[s]]
  BY SameStream DEF IInv
<1>6. Arriving(s, i, t, sess[s])
  BY <1>2, <1>3, <1>4, <1>5 DEF Arriving, Loops
<1>7. QED
  BY <1>2, <1>6, Arrives

LEMMA RecvFinKeeps ==
  ASSUME SmuxAssumption, IInv, NEW s \in Side, RecvFin(s)
  PROVE  IInv'
<1> DEFINE path == Path(s)
           i == Head(pipe[s]).sid
           t == str[s][i]
           r == str[Peer(s)][i]
           g == got[s][i]
           u == [str[s][i] EXCEPT !.fin = TRUE, !.event = TRUE]
<1>1. /\ Takes(s, "FIN") /\ sess' = sess
      /\ str' = IF t.tabled THEN [str EXCEPT ![s][i] = u] ELSE str
  BY DEF RecvFin
<1>2. /\ path \in Seq(Frames) /\ path # <<>> /\ path[1] \in Frames
      /\ path[1].cmd = "FIN" /\ path[1].sid = i
  BY <1>1, Arrival
<1>3. i \in Stream
  BY <1>2 DEF Frames
<1> HIDE DEF i
<1>4. CASE ~ t.tabled
  BY <1>1, <1>2, <1>3, <1>4, Dropped
<1>5. CASE t.tabled
  <2>1. /\ t \in StrT /\ r \in StrT /\ sess[s] \in SessT /\ Loops(s)
        /\ Good(s, i, t, r, g, sess[s].die, path)
    BY <1>3, Now
  <2>2. Good(s, i, t, r, g, sess[s].die, Tail(path))
    <3> HIDE DEF t, r, g, path
    <3>1. QED
      BY <1>2, <2>1, Without
  <2>3. /\ u \in StrT /\ u.fin /\ u.open = t.open /\ u.tabled = t.tabled /\ u.die = t.die
        /\ u.buffers = t.buffers /\ u.numRead = t.numRead /\ u.reader = t.reader
        /\ u.taken = t.taken /\ u.numWritten = t.numWritten /\ u.consumed = t.consumed
        /\ u.writer = t.writer /\ u.left = t.left /\ u.burst = t.burst
        /\ u.queued = t.queued /\ u.closer = t.closer /\ u.owed = t.owed
    <3>1. t \in StrT
      BY <2>1
    <3>2. QED
      BY <3>1 DEF StrT
  <2>4. sess' = [sess EXCEPT ![s] = sess[s]]
    BY <1>1, <1>3, SameStream DEF IInv
  <2>5. str' = [str EXCEPT ![s][i] = u]
    BY <1>1, <1>5
  <2> HIDE DEF t, r, g, u, path
  <2>6. r.closer # "no"
    <3>1. Is(path[1], "FIN", i) /\ 1 \in DOMAIN path
      BY <1>2 DEF Is
    <3>2. QED
      BY <2>1, <3>1 DEF Good, Bears
  <2>7. t.closer # "done" => r.owed <= t.numRead + Bytes(t.buffers)
    <3>1. SUFFICES ASSUME t.closer # "done"
                   PROVE  r.owed <= t.numRead + Bytes(t.buffers)
      OBVIOUS
    <3>2. /\ Stretch(path, i, t.numRead + Bytes(t.buffers), r.queued)
          /\ FinsLast(path, i, r.owed)
      BY <2>1, <3>1 DEF Good, Bears
    <3>3. r.owed \in Nat
      BY <2>1, StrFields
    <3>4. r.owed <= r.queued
      <4>1. Writes(str[Peer(s)][i])
        BY <1>3, Now DEF Good
      <4>2. QED
        BY <4>1 DEF Writes, r
    <3>5. Is(path[1], "FIN", i)
      BY <1>2 DEF Is
    <3>6. QED
      BY <1>2, <3>2, <3>3, <3>4, <3>5, FinArrives
  <2>8. Good(s, i, u, r, g, sess[s].die, Tail(path))
    <3> DEFINE new == Tail(path)
    <3> HIDE DEF new
    <3>0. Good(s, i, t, r, g, sess[s].die, new)
      BY <2>2 DEF new
    <3>1. Contents(u, g)
      BY <3>0, <2>3 DEF Good, Contents
    <3>2. Stages(s, u, g, sess[s].die)
      BY <3>0, <2>3 DEF Good, Stages
    <3>3. Writes(u) /\ Intro(s, i, new, u, r) /\ Credit(i, new, u, r)
      BY <3>0, <2>3 DEF Good, Writes, ChunkSize, Intro, Credit
    <3>4. Bears(i, new, u, r, g, sess[s].die)
      BY <3>0, <2>3, <2>6, <2>7 DEF Good, Bears
    <3>5. QED
      BY <3>1, <3>2, <3>3, <3>4 DEF Good, new
  <2>9. sess[s].bucket - sess[s].charge + Bytes(u.buffers)
          = sess[s].bucket - sess[s].charge + Bytes(t.buffers)
    BY <2>3
  <2>10. Arriving(s, i, u, sess[s])
    BY <1>2, <2>1, <2>3, <2>4, <2>5, <2>8, <2>9 DEF Arriving, Loops, t, r, g, path
  <2>11. QED
    BY <1>1, <1>3, <2>1, <2>3, <2>10, Arrives
<1>6. QED
  BY <1>4, <1>5

LEMMA RecvUpdKeeps ==
  ASSUME SmuxAssumption, IInv, NEW s \in Side, RecvUpd(s)
  PROVE  IInv'
<1> DEFINE path == Path(s)
           f == Head(pipe[s])
           i == Head(pipe[s]).sid
           t == str[s][i]
           r == str[Peer(s)][i]
           g == got[s][i]
           u == [str[s][i] EXCEPT !.consumed = f.data, !.window = StreamBuffer,
                                  !.update = TRUE]
<1>1. /\ Takes(s, "UPD") /\ sess' = sess
      /\ str' = IF t.tabled THEN [str EXCEPT ![s][i] = u] ELSE str
  BY Zenon DEF RecvUpd
<1>2. /\ path \in Seq(Frames) /\ path # <<>> /\ path[1] \in Frames
      /\ path[1].cmd = "UPD" /\ path[1].sid = i /\ path[1] = f
  BY <1>1, Arrival
<1>3. i \in Stream /\ f.data \in Nat
  BY <1>2 DEF Frames
<1> HIDE DEF i, f
<1>4. CASE ~ t.tabled
  BY <1>1, <1>2, <1>3, <1>4, Dropped
<1>5. CASE t.tabled
  <2>1. /\ t \in StrT /\ r \in StrT /\ sess[s] \in SessT /\ Loops(s)
        /\ Good(s, i, t, r, g, sess[s].die, path)
    BY <1>3, Now
  <2>2. Good(s, i, t, r, g, sess[s].die, Tail(path))
    <3> HIDE DEF t, r, g, path
    <3>1. QED
      BY <1>2, <2>1, Without
  <2>3. /\ u \in StrT /\ u.consumed = f.data
        /\ u.open = t.open /\ u.tabled = t.tabled /\ u.die = t.die /\ u.fin = t.fin
        /\ u.buffers = t.buffers /\ u.numRead = t.numRead /\ u.reader = t.reader
        /\ u.taken = t.taken /\ u.numWritten = t.numWritten
        /\ u.writer = t.writer /\ u.left = t.left /\ u.burst = t.burst
        /\ u.queued = t.queued /\ u.closer = t.closer /\ u.owed = t.owed
    <3>1. t \in StrT
      BY <2>1
    <3>2. QED
      BY <1>3, <3>1 DEF StrT
  <2>4. sess' = [sess EXCEPT ![s] = sess[s]]
    BY <1>1, <1>3, SameStream DEF IInv
  <2>5. str' = [str EXCEPT ![s][i] = u]
    BY <1>1, <1>5
  <2> HIDE DEF t, r, g, u, path
  <2>6. /\ t.consumed <= f.data
        /\ Updates(Tail(path), i, f.data, r.numRead)
    <3>1. Is(path[1], "UPD", i)
      BY <1>2 DEF Is
    <3>2. Updates(path, i, t.consumed, r.numRead)
      BY <2>1 DEF Good, Credit
    <3>3. QED
      BY <1>2, <3>1, <3>2, OthersTail
  <2>7. Writes(u)
    <3>1. Writes(t) /\ t.consumed \in Nat /\ u.consumed \in Nat /\ t.consumed <= u.consumed
      BY <1>3, <2>1, <2>3, <2>6, StrFields DEF Good
    <3>2. Widest \in Nat
      BY DEF Widest, SmuxAssumption
    <3>3. /\ t.queued \in Nat /\ t.numWritten \in Nat /\ t.burst \in Nat
      BY <2>1, StrFields
    <3>4. u.queued <= u.consumed + Widest
      <4>1. t.queued <= t.consumed + Widest
        BY <3>1 DEF Writes
      <4>2. QED
        BY <2>3, <3>1, <3>2, <3>3, <4>1
    <3>5. u.writer = "sending" => u.numWritten + u.burst <= u.consumed + Widest
      <4>1. t.writer = "sending" => t.numWritten + t.burst <= t.consumed + Widest
        BY <3>1 DEF Writes
      <4>2. QED
        BY <2>3, <3>1, <3>2, <3>3, <4>1
    <3>6. QED
      BY <2>3, <3>1, <3>4, <3>5 DEF Writes, ChunkSize
  <2>8. Good(s, i, u, r, g, sess[s].die, Tail(path))
    <3> DEFINE new == Tail(path)
    <3> HIDE DEF new
    <3>0. Good(s, i, t, r, g, sess[s].die, new)
      BY <2>2 DEF new
    <3>1. Contents(u, g)
      BY <3>0, <2>3 DEF Good, Contents
    <3>2. Stages(s, u, g, sess[s].die)
      BY <3>0, <2>3 DEF Good, Stages
    <3>3. Intro(s, i, new, u, r)
      BY <3>0, <2>3 DEF Good, Intro
    <3>4. Bears(i, new, u, r, g, sess[s].die)
      BY <3>0, <2>3 DEF Good, Bears
    <3>5. Credit(i, new, u, r)
      BY <2>3, <2>6 DEF Credit, new
    <3>6. QED
      BY <2>7, <3>1, <3>2, <3>3, <3>4, <3>5 DEF Good, new
  <2>9. sess[s].bucket - sess[s].charge + Bytes(u.buffers)
          = sess[s].bucket - sess[s].charge + Bytes(t.buffers)
    BY <2>3
  <2>10. Arriving(s, i, u, sess[s])
    BY <1>2, <2>1, <2>3, <2>4, <2>5, <2>8, <2>9 DEF Arriving, Loops, t, r, g, path
  <2>11. QED
    BY <1>1, <1>3, <2>1, <2>3, <2>10, Arrives
<1>6. QED
  BY <1>4, <1>5

LEMMA RecvSynKeeps ==
  ASSUME SmuxAssumption, IInv, NEW s \in Side, RecvSyn(s)
  PROVE  IInv'
<1> DEFINE path == Path(s)
           i == Head(pipe[s]).sid
           t == str[s][i]
           r == str[Peer(s)][i]
           g == got[s][i]
           u == [str[s][i] EXCEPT !.tabled = TRUE]
           new == Tail(path)
<1>1. Takes(s, "SYN") /\ sess' = sess /\ str' = [str EXCEPT ![s][i] = u]
  BY DEF RecvSyn
<1>2. /\ path \in Seq(Frames) /\ path # <<>> /\ path[1] \in Frames
      /\ path[1].cmd = "SYN" /\ path[1].sid = i
  BY <1>1, Arrival
<1>3. i \in Stream
  BY <1>2 DEF Frames
<1> HIDE DEF i
<1>4. /\ t \in StrT /\ r \in StrT /\ sess[s] \in SessT /\ Loops(s)
      /\ Good(s, i, t, r, g, sess[s].die, path)
  BY <1>3, Now
<1>5. /\ u \in StrT /\ u.tabled /\ u.open = t.open /\ u.die = t.die /\ u.fin = t.fin
      /\ u.buffers = t.buffers /\ u.numRead = t.numRead /\ u.reader = t.reader
      /\ u.taken = t.taken /\ u.numWritten = t.numWritten /\ u.consumed = t.consumed
      /\ u.writer = t.writer /\ u.left = t.left /\ u.burst = t.burst
      /\ u.queued = t.queued /\ u.closer = t.closer /\ u.owed = t.owed
  <2>1. t \in StrT
    BY <1>4
  <2>2. QED
    BY <2>1 DEF StrT
<1>6. sess' = [sess EXCEPT ![s] = sess[s]]
  BY <1>1, <1>3, SameStream DEF IInv
<1> HIDE DEF t, r, g, u, path
<1>7. Is(path[1], "SYN", i) /\ 1 \in DOMAIN path
  BY <1>2 DEF Is
<1>8. SynFirst(path, i) /\ s # Client /\ r.open # "no" /\ ~ t.tabled /\ t.closer # "done"
  BY <1>4, <1>7 DEF Good, Intro, HasSyn
<1>9. /\ \A o : FinsLast(path, i, o) => FinsLast(new, i, o)
      /\ \A low, high : Updates(path, i, low, high) => Updates(new, i, low, high)
      /\ SynFirst(new, i) /\ ~ HasSyn(new, i)
      /\ (\A k \in DOMAIN path : ~ Is(path[k], "FIN", i)) =>
           \A k \in DOMAIN new : ~ Is(new[k], "FIN", i)
  <2> HIDE DEF new
  <2>1. \A o : FinsLast(path, i, o) => FinsLast(new, i, o)
    BY <1>2, OthersTail DEF new
  <2>2. \A low, high : Updates(path, i, low, high) => Updates(new, i, low, high)
    BY <1>2, OthersTail DEF new
  <2>3. SynFirst(new, i) /\ ~ HasSyn(new, i)
    BY <1>2, <1>7, <1>8, OthersTail DEF new
  <2>4. (\A k \in DOMAIN path : ~ Is(path[k], "FIN", i)) =>
          \A k \in DOMAIN new : ~ Is(new[k], "FIN", i)
    BY <1>2, OthersTail DEF new
  <2>5. QED
    BY <2>1, <2>2, <2>3, <2>4
<1>10. \A a, b : Stretch(path, i, a, b) => Stretch(new, i, a, b)
  <2>1. ~ Touches(path[1], {"PSH"}, i)
    BY <1>2 DEF Touches
  <2>2. Keeps(path, new, {"PSH"}, i)
    BY <1>2, <2>1, KeepsTail
  <2>3. QED
    BY <2>2, StretchKeeps
<1> HIDE DEF new
<1>11. Good(s, i, u, r, g, sess[s].die, new)
  <2>1. Contents(u, g)
    BY <1>4, <1>5 DEF Good, Contents
  <2>2. Stages(s, u, g, sess[s].die)
    BY <1>4, <1>5, <1>8 DEF Good, Stages
  <2>3. Writes(u)
    BY <1>4, <1>5 DEF Good, Writes, ChunkSize
  <2>4. Intro(s, i, new, u, r)
    BY <1>5, <1>8, <1>9 DEF Intro
  <2>5. Bears(i, new, u, r, g, sess[s].die)
    <3>1. Bears(i, path, t, r, g, sess[s].die)
      BY <1>4 DEF Good
    <3>2. QED
      BY <1>5, <1>9, <1>10, <3>1 DEF Bears
  <2>6. Credit(i, new, u, r)
    BY <1>4, <1>5, <1>9 DEF Good, Credit
  <2>7. QED
    BY <2>1, <2>2, <2>3, <2>4, <2>5, <2>6 DEF Good
<1>12. sess[s].bucket - sess[s].charge + Bytes(u.buffers)
         = sess[s].bucket - sess[s].charge + Bytes(t.buffers)
  BY <1>5
<1>13. Arriving(s, i, u, sess[s])
  BY <1>1, <1>2, <1>4, <1>5, <1>6, <1>11, <1>12 DEF Arriving, Loops, t, r, g, path, new
<1>14. QED
  BY <1>1, <1>3, <1>4, <1>5, <1>13, Arrives

\* Data comes only for a stream that is in the table, or was.
LEMMA DataFindsStream ==
  ASSUME SmuxAssumption, IInv, NEW s \in Side, NEW i \in Stream,
         Path(s) # <<>>, Is(Path(s)[1], "PSH", i), ~ str[s][i].tabled
  PROVE  str[s][i].closer = "done"
<1> DEFINE t == str[s][i]
           r == str[Peer(s)][i]
           g == got[s][i]
           h == got[Peer(s)][i]
           path == Path(s)
           d == sess[s].die
           e == sess[Peer(s)].die
           back == Path(Peer(s))
<1>1. /\ path \in Seq(Frames) /\ t \in StrT /\ r \in StrT
      /\ g \in Seq(Nat) /\ h \in Seq(Nat)
      /\ Good(s, i, t, r, g, d, path) /\ Good(Peer(s), i, r, t, h, e, back)
  BY Now
<1>2. s = Client \/ Peer(s) = Client
  BY Ends DEF SmuxAssumption
<1> SUFFICES ASSUME t.closer # "done" PROVE FALSE
  OBVIOUS
<1>3. path # <<>> /\ Is(path[1], "PSH", i) /\ ~ t.tabled
  OBVIOUS
<1>0. Peer(s) # s
  BY Ends
<1>x. t.numRead \in Nat /\ t.queued \in Nat /\ r.queued \in Nat /\ r.numRead \in Nat
      /\ t.buffers \in Seq(Seq(Nat))
  BY <1>1, StrFields
<1>n. Bytes(t.buffers) \in Nat
  BY <1>x, BytesCount
<1> HIDE DEF t, r, g, h, path, d, e, back
<1>4. Stretch(path, i, t.numRead + Bytes(t.buffers), r.queued)
  BY <1>1 DEF Good, Bears
<1>5. r.queued >= 1
  <2> DEFINE a == t.numRead + Bytes(t.buffers)
  <2> HIDE DEF a
  <2>1. /\ Run(path[1].data) /\ a + Len(path[1].data) <= r.queued
    BY <1>1, <1>3, <1>4, StretchTail DEF a
  <2>2. Len(path[1].data) \in Nat /\ Len(path[1].data) >= 1
    BY <2>1, RunStarts
  <2>3. a \in Nat
    BY <1>x, <1>n DEF a
  <2>4. QED
    BY <1>x, <2>1, <2>2, <2>3
<1>6. r.open = "open"
  BY <1>1, <1>x, <1>5 DEF Good, Stages
<1>7. CASE s # Client
  <2>1. HasSyn(path, i) /\ SynFirst(path, i)
    BY <1>1, <1>3, <1>6, <1>7 DEF Good, Intro
  <2>2. Touches(path[1], {"PSH", "FIN"}, i)
    BY <1>3 DEF Is, Touches
  <2>3. QED
    BY <1>1, <1>3, <2>1, <2>2, OthersTail
<1>8. CASE s = Client
  <2>1. h # <<>>
    BY <1>0, <1>1, <1>5, <1>8, <1>x DEF Good, Stages
  <2>2. Len(h) \in Nat /\ Len(h) >= 1
    BY <1>1, <2>1
  <2>3. Len(h) <= r.numRead /\ r.numRead <= t.queued
    BY <1>1 DEF Good, Contents, Bears
  <2>4. t.queued >= 1
    BY <1>x, <2>2, <2>3
  <2>5. t.open = "open"
    BY <1>1, <1>x, <2>4 DEF Good, Stages
  <2>6. QED
    BY <1>1, <1>3, <2>5 DEF Good, Stages
<1>9. QED
  BY <1>7, <1>8

LEMMA RecvPshKeeps ==
  ASSUME SmuxAssumption, IInv, NEW s \in Side, RecvPsh(s)
  PROVE  IInv'
<1> DEFINE path == Path(s)
           f == Head(pipe[s])
           i == f.sid
           d == f.data
           t == str[s][i]
           r == str[Peer(s)][i]
           g == got[s][i]
           u == [str[s][i] EXCEPT !.buffers = Append(str[s][i].buffers, d)]
           ss == [sess[s] EXCEPT !.recv = "charge", !.charge = Len(d), !.to = i]
           new == Tail(path)
<1>1. /\ Takes(s, "PSH")
      /\ IF t.tabled THEN /\ str' = [str EXCEPT ![s][i] = u]
                          /\ sess' = [sess EXCEPT ![s] = ss]
         ELSE str' = str /\ sess' = sess
  BY DEF RecvPsh
<1>2. /\ sess[s] \in SessT /\ sess[s].recv = "run"
      /\ sess \in [Side -> SessT]
  BY <1>1, PathFrom DEF Takes, IInv, Typed
<1>3. \A v \in Side : sess'[v].hand = sess[v].hand /\ sess'[v].queue = sess[v].queue
  <2>1. ss.hand = sess[s].hand /\ ss.queue = sess[s].queue
    BY <1>2 DEF SessT
  <2> HIDE DEF ss
  <2>2. QED
    BY <1>1, <1>2, <2>1
<1>4. /\ path \in Seq(Frames) /\ path # <<>> /\ path[1] \in Frames
      /\ path[1].cmd = "PSH" /\ path[1] = f
  BY <1>1, <1>3, Arrival
<1> HIDE DEF f
<1>5. i \in Stream /\ d \in Seq(Nat) /\ Is(path[1], "PSH", i)
  BY <1>4 DEF Frames, Is
<1>6. path[1].sid = i /\ path[1].data = d
  BY <1>4
<1> HIDE DEF i, d
<1>7. CASE ~ t.tabled
  <2>1. t.closer = "done"
    BY <1>4, <1>5, <1>7, DataFindsStream
  <2>2. QED
    BY <1>1, <1>5, <1>6, <1>7, <2>1, Dropped
<1>8. CASE t.tabled
  <2>1. /\ t \in StrT /\ r \in StrT /\ Loops(s) /\ g \in Seq(Nat)
        /\ Good(s, i, t, r, g, sess[s].die, path)
    BY <1>5, Now
  <2>2. t.buffers \in Seq(Seq(Nat)) /\ t.numRead \in Nat /\ r.queued \in Nat /\ r.owed \in Nat
    BY <2>1, StrFields
  <2>3. Append(t.buffers, d) \in Seq(Seq(Nat))
    BY <1>5, <2>2
  <2> DEFINE b == Append(t.buffers, d)
  <2> HIDE DEF b
  <2>4. /\ u \in StrT /\ u.buffers = b
        /\ u.open = t.open /\ u.tabled = t.tabled /\ u.die = t.die /\ u.fin = t.fin
        /\ u.numRead = t.numRead /\ u.reader = t.reader /\ u.consumed = t.consumed
        /\ u.taken = t.taken /\ u.numWritten = t.numWritten
        /\ u.writer = t.writer /\ u.left = t.left /\ u.burst = t.burst
        /\ u.queued = t.queued /\ u.closer = t.closer /\ u.owed = t.owed
    <3>1. t \in StrT /\ b \in Seq(Seq(Nat)) /\ u = [t EXCEPT !.buffers = b]
      BY <2>1, <2>3 DEF b
    <3> HIDE DEF u, t
    <3>2. QED
      BY <3>1 DEF StrT
  <2>5. /\ ss \in SessT /\ ss.recv = "charge" /\ ss.charge = Len(d) /\ ss.to = i
        /\ ss.hand = sess[s].hand /\ ss.queue = sess[s].queue /\ ss.die = sess[s].die
        /\ ss.bucket = sess[s].bucket
    <3>1. Len(d) \in Nat /\ i \in Nat
      BY <1>5 DEF Stream, SmuxAssumption
    <3>2. QED
      BY <1>2, <3>1 DEF SessT
  <2>6. str' = [str EXCEPT ![s][i] = u] /\ sess' = [sess EXCEPT ![s] = ss]
    BY <1>1, <1>8
  <2> HIDE DEF t, r, g, u, ss, path, new
  <2>7. t.closer # "done"
    BY <1>8, <2>1 DEF Good, Stages
  <2> DEFINE a == t.numRead + Bytes(t.buffers)
  <2> HIDE DEF a
  <2>8. Stretch(path, i, a, r.queued)
    BY <2>1, <2>7 DEF Good, Bears, a
  <2>9. /\ Run(d) /\ d[1] = a + 1 /\ Stretch(new, i, a + Len(d), r.queued)
    <3>1. Run(path[1].data) /\ FirstByte(path[1]) = a + 1
          /\ Stretch(Tail(path), i, a + Len(path[1].data), r.queued)
      BY <1>4, <1>5, <2>8, StretchTail
    <3>2. QED
      BY <1>6, <3>1 DEF FirstByte, new
  <2>10. Bytes(b) = Bytes(t.buffers) + Len(d) /\ Bytes(t.buffers) \in Nat /\ Len(d) \in Nat
    BY <1>5, <2>2, BytesAppend, BytesCount DEF b
  <2>11. Chained(u.buffers, u.numRead)
    <3>1. Chained(t.buffers, t.numRead)
      BY <2>1 DEF Good, Contents
    <3>2. d[1] = t.numRead + Bytes(t.buffers) + 1
      BY <2>9 DEF a
    <3>3. Chained(Append(t.buffers, d), t.numRead)
      BY <2>2, <2>9, <3>1, <3>2, ChainedAppend
    <3>4. QED
      BY <2>4, <3>3 DEF b
  <2>12. u.numRead + Bytes(u.buffers) = a + Len(d)
    BY <2>2, <2>4, <2>10 DEF a
  <2>13. /\ \A o : FinsLast(path, i, o) => FinsLast(new, i, o)
         /\ \A low, high : Updates(path, i, low, high) => Updates(new, i, low, high)
         /\ SynFirst(path, i) => SynFirst(new, i)
         /\ HasSyn(new, i) <=> HasSyn(path, i)
         /\ (\A k \in DOMAIN path : ~ Is(path[k], "FIN", i)) =>
              \A k \in DOMAIN new : ~ Is(new[k], "FIN", i)
    <3>1. ~ Is(path[1], "SYN", i)
      BY <1>4 DEF Is
    <3>2. \A o : FinsLast(path, i, o) => FinsLast(new, i, o)
      BY <1>4, OthersTail DEF new
    <3>3. \A low, high : Updates(path, i, low, high) => Updates(new, i, low, high)
      BY <1>4, OthersTail DEF new
    <3>4. SynFirst(path, i) => SynFirst(new, i)
      BY <1>4, OthersTail DEF new
    <3>5. HasSyn(new, i) <=> HasSyn(path, i)
      BY <1>4, <3>1, OthersTail DEF new
    <3>6. (\A k \in DOMAIN path : ~ Is(path[k], "FIN", i)) =>
            \A k \in DOMAIN new : ~ Is(new[k], "FIN", i)
      BY <1>4, OthersTail DEF new
    <3>7. QED
      BY <3>2, <3>3, <3>4, <3>5, <3>6
  <2>14. Good(s, i, u, r, g, sess[s].die, new)
    <3>1. Contents(u, g)
      BY <2>1, <2>4, <2>11 DEF Good, Contents
    <3>2. Stages(s, u, g, sess[s].die)
      BY <2>1, <2>4, <2>7 DEF Good, Stages
    <3>3. Writes(u)
      BY <2>1, <2>4 DEF Good, Writes, ChunkSize
    <3>4. Intro(s, i, new, u, r)
      BY <2>1, <2>4, <2>13 DEF Good, Intro
    <3>5. Credit(i, new, u, r)
      BY <2>1, <2>4, <2>13 DEF Good, Credit
    <3>6. Bears(i, new, u, r, g, sess[s].die)
      <4>1. Bears(i, path, t, r, g, sess[s].die)
        BY <2>1 DEF Good
      <4>2. Stretch(new, i, u.numRead + Bytes(u.buffers), r.queued)
        BY <2>9, <2>12
      <4>3. t.fin => r.owed <= u.numRead + Bytes(u.buffers)
        <5>1. t.fin => r.owed <= a
          BY <2>7, <4>1 DEF Bears, a
        <5>2. a \in Nat
          BY <2>2, <2>10 DEF a
        <5>3. QED
          BY <2>2, <2>10, <2>12, <5>1, <5>2
      <4>4. QED
        BY <2>4, <2>13, <4>1, <4>2, <4>3 DEF Bears
    <3>7. QED
      BY <3>1, <3>2, <3>3, <3>4, <3>5, <3>6 DEF Good
  <2>15. ss.bucket - ss.charge + Bytes(u.buffers)
           = sess[s].bucket - sess[s].charge + Bytes(t.buffers)
    <3>1. sess[s].bucket \in Int /\ sess[s].charge = 0
      BY <1>2, <2>1, SessFields DEF Loops
    <3>2. ss.bucket = sess[s].bucket /\ ss.charge = Len(d)
          /\ Bytes(u.buffers) = Bytes(t.buffers) + Len(d)
      BY <2>4, <2>5, <2>10
    <3>3. QED
      BY <2>10, <3>1, <3>2
  <2>16. Arriving(s, i, u, ss)
    BY <1>5, <1>6, <2>4, <2>5, <2>6, <2>14, <2>15 DEF Arriving, t, r, g, path, new
  <2>17. QED
    BY <1>1, <1>5, <2>4, <2>5, <2>16, Arrives
<1>9. QED
  BY <1>7, <1>8

LEMMA RecvChargesKeeps ==
  ASSUME SmuxAssumption, IInv, NEW s \in Side, RecvCharges(s)
  PROVE  IInv'
<1> DEFINE i == sess[s].to
           p == Peer(s)
           x == sess[s]
           t == str[s][i]
           r == str[p][i]
           g == got[s][i]
           u == [str[s][i] EXCEPT !.event = TRUE]
           b == sess[s].bucket - sess[s].charge
           ss == [sess[s] EXCEPT !.recv = "run", !.charge = 0, !.to = 0, !.bucket = b]
<1>1. /\ x.recv = "charge" /\ str' = [str EXCEPT ![s][i] = u]
      /\ sess' = [sess EXCEPT ![s] = ss] /\ pipe' = pipe /\ got' = got
  BY DEF RecvCharges
<1>2. /\ sess \in [Side -> SessT] /\ x \in SessT /\ Typed /\ Loops(s) /\ p \in Side
      /\ pipe \in [Side -> Seq(Frames)]
      /\ \A v \in Side : v = s \/ v = p
      /\ \A v \in Side : Loops(v)
      /\ p # s /\ Peer(p) = s
      /\ Path(s) \in Seq(Frames) /\ Path(p) \in Seq(Frames)
  BY Ends, PathFrom, PathTypes DEF IInv, Typed
<1>3. i \in Stream /\ b \in Int
  <2>1. i \in Stream
    BY <1>1, <1>2 DEF Loops
  <2>2. sess[s].bucket \in Int /\ sess[s].charge \in Nat
    BY <1>2, SessFields
  <2>3. QED
    BY <2>1, <2>2
<1> HIDE DEF b
<1>4. /\ ss \in SessT /\ ss.recv = "run" /\ ss.charge = 0 /\ ss.bucket = b
      /\ ss.hand = x.hand /\ ss.queue = x.queue /\ ss.die = x.die
  BY <1>2, <1>3 DEF SessT
<1> HIDE DEF i, ss
<1>5. /\ t \in StrT /\ g \in Seq(Nat)
      /\ Good(s, i, t, r, g, x.die, Path(s))
  BY <1>3, Now
<1>6. u \in StrT /\ u.reader = t.reader /\ u.taken = t.taken /\ Reading(t, u)
  <2>1. t \in StrT
    BY <1>5
  <2>2. u \in StrT
    BY <2>1 DEF StrT
  <2>3. QED
    BY <2>1, <2>2 DEF StrT, Reading
<1>7. t.numRead \in Nat
  BY <1>5, StrFields
<1> HIDE DEF u
<1>8. Taking(s, i, u, g)
  <2> HIDE DEF t, g, r, x
  <2>1. /\ u.numRead + Bytes(u.buffers) = t.numRead + Bytes(t.buffers)
        /\ t.numRead <= u.numRead
        /\ t.closer = "done" => u.buffers = <<>> /\ u.numRead = t.numRead
    BY <1>5, <1>6, <1>7 DEF Reading, Good, Stages
  <2>2. Contents(u, g)
    BY <1>5, <1>6 DEF Reading, Good, Contents
  <2>3. u.reader = "eof" /\ ~ x.die /\ u.closer = "no" => r.closer # "no" /\ r.owed <= Len(g)
    BY <1>5, <1>6 DEF Reading, Good, Bears
  <2>4. Reading(t, u)
    BY <1>6
  <2>5. QED
    BY <2>1, <2>2, <2>3, <2>4 DEF Taking, Reading, t, g, r, x
<1>9. Both(s, i, u, g, Path(p))
  BY <1>3, <1>5, <1>6, <1>8, TakingSelf, TakingPeer DEF Both
<1>10. sess' \in [Side -> SessT] /\ sess'[s] = ss /\ sess'[p] = sess[p]
  BY <1>1, <1>2, <1>4
<1>11. Path(s)' = Path(s) /\ Path(p)' = Path(p)
  BY <1>1, <1>2, <1>4, <1>10 DEF Path
<1>12. \A v \in Side, j \in Stream : Keeps(Path(v), Path(v)', Cmds, j)
  BY <1>2, <1>11, KeepsSame
<1>13. ASSUME NEW v \in Side
       PROVE  /\ Len(sess'[v].hand) <= 1
              /\ sess[v].die => sess'[v].die
              /\ IF sess'[v].recv = "charge" THEN sess'[v].to \in Stream
                 ELSE sess'[v].charge = 0
              /\ v # s => sess'[v].bucket - sess'[v].charge = sess[v].bucket - sess[v].charge
  <2>1. CASE v = s
    BY <1>2, <1>4, <1>10, <2>1 DEF Loops
  <2>2. CASE v = p
    BY <1>2, <1>10, <2>2 DEF Loops
  <2>3. QED
    BY <1>2, <2>1, <2>2
<1>14. sess'[s].bucket - sess'[s].charge + Bytes(u.buffers)
         = sess[s].bucket - sess[s].charge + Bytes(t.buffers)
  <2>1. u.buffers = t.buffers
    BY <1>6 DEF Reading
  <2>2. sess'[s].bucket - sess'[s].charge = b
    BY <1>3, <1>4, <1>10
  <2>3. b = sess[s].bucket - sess[s].charge
    BY DEF b
  <2>4. QED
    BY <2>1, <2>2, <2>3
<1>15. /\ Good(s, i, u, str[p][i], g, sess'[s].die, Path(s)')
       /\ Good(p, i, str[p][i], u, got[p][i], sess'[p].die, Path(p)')
  BY <1>4, <1>9, <1>10, <1>11 DEF Both
<1>16. got' = [got EXCEPT ![s][i] = g]
  BY <1>1, <1>2, <1>3, SameHistory
<1>17. pipe' \in [Side -> Seq(Frames)]
  BY <1>1, <1>2
<1>18. Moving(s, i, u, g)
  BY <1>1, <1>10, <1>12, <1>13, <1>14, <1>15, <1>16, <1>17 DEF Moving
<1>19. QED
  BY <1>3, <1>5, <1>6, <1>18, Moves

-----------------------------------------------------------------------------
(* close_session.                                                          *)

\* A stream when its session closes
Killed(t) == IF t.tabled THEN [t EXCEPT !.die = TRUE, !.event = TRUE] ELSE t

LEMMA KilledFields ==
  ASSUME NEW t \in StrT
  PROVE  LET u == Killed(t)
         IN  /\ u \in StrT
             /\ u.open = t.open /\ u.tabled = t.tabled /\ u.fin = t.fin
             /\ u.buffers = t.buffers /\ u.numRead = t.numRead /\ u.reader = t.reader
             /\ u.taken = t.taken /\ u.numWritten = t.numWritten
             /\ u.consumed = t.consumed /\ u.writer = t.writer /\ u.left = t.left
             /\ u.burst = t.burst /\ u.queued = t.queued /\ u.closer = t.closer
             /\ u.owed = t.owed
             /\ t.die => u.die
<1> DEFINE u == [t EXCEPT !.die = TRUE, !.event = TRUE]
<1>1. /\ u \in StrT
      /\ u.open = t.open /\ u.tabled = t.tabled /\ u.fin = t.fin
      /\ u.buffers = t.buffers /\ u.numRead = t.numRead /\ u.reader = t.reader
      /\ u.taken = t.taken /\ u.numWritten = t.numWritten
      /\ u.consumed = t.consumed /\ u.writer = t.writer /\ u.left = t.left
      /\ u.burst = t.burst /\ u.queued = t.queued /\ u.closer = t.closer
      /\ u.owed = t.owed /\ u.die
  BY DEF StrT
<1> HIDE DEF u
<1>2. Killed(t) = u \/ Killed(t) = t
  BY DEF Killed, u
<1>3. QED
  BY <1>1, <1>2

LEMMA KilledGood ==
  ASSUME NEW s, NEW i, NEW t \in StrT, NEW u \in StrT, u = Killed(t),
         NEW r, NEW g, NEW dead, NEW path, Good(s, i, t, r, g, dead, path)
  PROVE  Good(s, i, u, r, g, TRUE, path)
<1>1. /\ u.open = t.open /\ u.tabled = t.tabled /\ u.fin = t.fin
      /\ u.buffers = t.buffers /\ u.numRead = t.numRead /\ u.reader = t.reader
      /\ u.taken = t.taken /\ u.numWritten = t.numWritten
      /\ u.consumed = t.consumed /\ u.writer = t.writer /\ u.left = t.left
      /\ u.burst = t.burst /\ u.queued = t.queued /\ u.closer = t.closer
      /\ u.owed = t.owed
      /\ t.die => u.die
  BY KilledFields
<1>2. Contents(u, g)
  BY <1>1 DEF Good, Contents
<1>3. Stages(s, u, g, TRUE)
  BY <1>1 DEF Good, Stages
<1>4. Writes(u)
  BY <1>1 DEF Good, Writes, ChunkSize
<1>5. Bears(i, path, u, r, g, TRUE)
  BY <1>1 DEF Good, Bears
<1>6. Intro(s, i, path, u, r) /\ Credit(i, path, u, r)
  BY <1>1 DEF Good, Intro, Credit
<1>7. QED
  BY <1>2, <1>3, <1>4, <1>5, <1>6 DEF Good

LEMMA DeadKeeps ==
  ASSUME SmuxAssumption, IInv, NEW s \in Side, Dead(s), pipe' = pipe, got' = got
  PROVE  IInv'
<1> DEFINE p == Peer(s)
           ss == [sess[s] EXCEPT !.die = TRUE]
<1>1. /\ sess' = [sess EXCEPT ![s] = ss]
      /\ str' = [str EXCEPT ![s] = [i \in Stream |-> Killed(str[s][i])]]
  BY Zenon DEF Dead, Killed
<1>2. /\ Typed /\ p \in Side /\ p # s /\ Peer(p) = s
      /\ \A v \in Side : v = s \/ v = p
      /\ \A v \in Side : Loops(v)
      /\ sess \in [Side -> SessT] /\ sess[s] \in SessT
      /\ str \in [Side -> [Stream -> StrT]]
  BY Ends, PathFrom DEF IInv, Typed
<1>3. /\ ss \in SessT /\ ss.die = TRUE /\ ss.hand = sess[s].hand
      /\ ss.queue = sess[s].queue /\ ss.recv = sess[s].recv
      /\ ss.charge = sess[s].charge /\ ss.to = sess[s].to /\ ss.bucket = sess[s].bucket
  BY <1>2 DEF SessT
<1> HIDE DEF ss
<1>4. sess' \in [Side -> SessT] /\ sess'[s] = ss /\ sess'[p] = sess[p]
  BY <1>1, <1>2, <1>3
<1>5. \A j \in Stream : str[s][j] \in StrT /\ Killed(str[s][j]) \in StrT
  BY <1>2, KilledFields
<1>6. /\ str' \in [Side -> [Stream -> StrT]]
      /\ \A j \in Stream : str'[s][j] = Killed(str[s][j])
      /\ str'[p] = str[p]
  BY <1>1, <1>2, <1>5
<1>7. Typed'
  BY <1>2, <1>4, <1>6 DEF Typed
<1>8. Path(s)' = Path(s) /\ Path(p)' = Path(p)
  BY <1>2, <1>3, <1>4 DEF Path
<1>9. ASSUME NEW v \in Side PROVE Loops(v)'
  <2>1. Buffered(v)' = Buffered(v)
    <3>1. \A j \in Stream : str'[v][j].buffers = str[v][j].buffers
      BY <1>2, <1>5, <1>6, KilledFields
    <3>2. QED
      BY <3>1, BufferedSame
  <2>2. /\ sess'[v].hand = sess[v].hand /\ sess'[v].recv = sess[v].recv
        /\ sess'[v].to = sess[v].to /\ sess'[v].charge = sess[v].charge
        /\ sess'[v].bucket = sess[v].bucket
    BY <1>2, <1>3, <1>4
  <2>3. QED
    BY <1>2, <2>1, <2>2 DEF Loops
<1>10. ASSUME NEW j \in Stream PROVE GoodAt(s, j)' /\ GoodAt(p, j)'
  <2> DEFINE t == str[s][j]
             u == Killed(str[s][j])
             r == str[p][j]
  <2>1. /\ t \in StrT /\ u \in StrT
        /\ Good(s, j, t, r, got[s][j], sess[s].die, Path(s))
        /\ Good(p, j, r, t, got[p][j], sess[p].die, Path(p))
    BY <1>5, Now
  <2>2. Good(s, j, u, r, got[s][j], TRUE, Path(s))
    BY <2>1, KilledGood
  <2>3. /\ u.open = t.open /\ u.queued = t.queued /\ u.closer = t.closer
        /\ u.owed = t.owed /\ u.numRead = t.numRead
    BY <2>1, KilledFields
  <2> HIDE DEF u
  <2>4. Good(p, j, r, u, got[p][j], sess[p].die, Path(p))
    BY <2>1, <2>3, PeerLooks
  <2>5. str'[s][j] = u /\ str'[p][j] = r /\ sess'[s].die = TRUE /\ sess'[p].die = sess[p].die
    BY <1>3, <1>4, <1>6 DEF u
  <2>6. QED
    BY <1>2, <1>8, <2>2, <2>4, <2>5 DEF GoodAt
<1>11. QED
  BY <1>2, <1>7, <1>9, <1>10 DEF IInv

-----------------------------------------------------------------------------
(* The theorems.                                                           *)

LEMMA Same ==
  ASSUME SmuxAssumption, IInv, UNCHANGED vars
  PROVE  IInv'
BY DEF IInv, vars, Typed, Loops, Buffered, GoodAt, Path

LEMMA StreamKeeps ==
  ASSUME SmuxAssumption, IInv, NEW s \in Side, NEW i \in Stream,
         Open(s, i) \/ Close(s, i) \/ Write(s, i) \/ Reader(s, i)
  PROVE  IInv'
<1>1. CASE Open(s, i)
  BY <1>1, OpenStartKeeps, OpenChecksKeeps, OpenInsertsKeeps, OpenFailsKeeps, AcceptKeeps
     DEF Open
<1>2. CASE Close(s, i)
  BY <1>2, CloseStartKeeps, CloseEndsKeeps DEF Close
<1>3. CASE Write(s, i)
  BY <1>3, WriteStartKeeps, WriteSentKeeps, WriteFailsKeeps, WriteUpdatedKeeps DEF Write
<1>4. CASE Reader(s, i)
  BY <1>4, ReadKeeps, ReadToldKeeps, ReadNothingKeeps, ReadWakesKeeps DEF Reader
<1>5. QED
  BY <1>1, <1>2, <1>3, <1>4

LEMMA SessionKeeps ==
  ASSUME SmuxAssumption, IInv, NEW s \in Side,
         \/ Send(s) \/ Recv(s) \/ RecvFails(s) \/ KeepAlive(s) \/ CloseSession(s)
  PROVE  IInv'
<1>1. CASE Send(s)
  BY <1>1, SendTakesKeeps, SendWritesKeeps, SendFailsKeeps DEF Send
<1>2. CASE Recv(s)
  BY <1>2, RecvBlocksKeeps, RecvWakesKeeps, RecvChargesKeeps, RecvSynKeeps, RecvNopKeeps,
     RecvFinKeeps, RecvPshKeeps, RecvUpdKeeps DEF Recv
<1>3. CASE RecvFails(s)
  BY <1>3, RecvFailsKeeps
<1>4. CASE KeepAlive(s) \/ CloseSession(s)
  BY <1>4, PingKeeps, DeadKeeps DEF KeepAlive, TimeOut, CloseSession
<1>5. QED
  BY <1>1, <1>2, <1>3, <1>4

LEMMA StepKeeps ==
  ASSUME SmuxAssumption, IInv, [Next]_vars
  PROVE  IInv'
<1>1. CASE UNCHANGED vars
  BY <1>1, Same
<1>2. CASE Next
  BY <1>2, StreamKeeps, SessionKeeps DEF Next
<1>3. QED
  BY <1>1, <1>2

LEMMA NothingBuffered ==
  ASSUME SmuxAssumption, NEW s \in Side, \A i \in Stream : str[s][i].buffers = <<>>
  PROVE  Buffered(s) = 0
<1> DEFINE z == [i \in Stream |-> Bytes(str[s][i].buffers)]
<1>1. Streams \in Nat /\ Stream = 1 .. Streams
  BY DEF SmuxAssumption, Stream
<1>2. z = [i \in 1 .. Streams |-> 0]
  BY <1>1, BytesEmpty
<1>3. z \in Seq(Nat) /\ \A n \in 1 .. Len(z) : z[n] = 0
  <2> HIDE DEF z
  <2>1. QED
    BY <1>1, <1>2
<1>4. SumOf(z) = 0
  <2> HIDE DEF z
  <2>1. QED
    BY <1>3, SumZeros
<1>5. QED
  BY <1>4 DEF Buffered

\* A stream before it is opened, on an empty path
LEMMA FreshGood ==
  ASSUME SmuxAssumption, NEW s \in Side, NEW i \in Stream, NEW t \in StrT, NEW r \in StrT,
         NEW path, path = <<>>, NEW g, g = <<>>,
         \A x \in {t, r} :
           /\ x.open = "no" /\ ~ x.tabled /\ ~ x.die /\ ~ x.fin
           /\ x.buffers = <<>> /\ x.numRead = 0 /\ x.reader = "run" /\ x.taken = <<>>
           /\ x.numWritten = 0 /\ x.consumed = 0 /\ x.writer = "idle"
           /\ x.queued = 0 /\ x.closer = "no" /\ x.owed = 0
  PROVE  Good(s, i, t, r, g, FALSE, path)
<1>1. DOMAIN path = {} /\ Len(path) = 0 /\ Len(g) = 0 /\ DOMAIN g = {}
      /\ g = [k \in 1 .. Len(g) |-> k]
  OBVIOUS
<1>2. /\ t.open = "no" /\ ~ t.tabled /\ ~ t.die /\ ~ t.fin
      /\ t.buffers = g /\ t.numRead = 0 /\ t.reader = "run" /\ t.taken = g
      /\ t.numWritten = 0 /\ t.consumed = 0 /\ t.writer = "idle"
      /\ t.queued = 0 /\ t.closer = "no" /\ t.owed = 0
      /\ r.open = "no" /\ r.numRead = 0 /\ r.queued = 0 /\ r.closer = "no" /\ r.owed = 0
      /\ g = <<>>
  OBVIOUS
<1>3. Chained(g, 0) /\ Bytes(g) = 0
  BY <1>1, BytesEmpty DEF Chained
<1>4. Contents(t, g)
  BY <1>1, <1>2, <1>3 DEF Contents
<1>5. Stages(s, t, g, FALSE)
  BY <1>2 DEF Stages
<1>6. Writes(t)
  <2>1. Widest \in Nat
    BY DEF Widest, SmuxAssumption
  <2>2. QED
    BY <1>2, <2>1 DEF Writes
<1>7. Bears(i, path, t, r, g, FALSE)
  <2>1. Stretch(path, i, 0, 0)
    BY <1>1 DEF Stretch
  <2>2. FinsLast(path, i, r.owed)
    BY <1>1 DEF FinsLast
  <2>3. t.numRead + Bytes(t.buffers) = 0
    BY <1>2, <1>3
  <2>4. QED
    BY <1>1, <1>2, <2>1, <2>2, <2>3 DEF Bears
<1>8. Intro(s, i, path, t, r)
  BY <1>1, <1>2 DEF Intro, SynFirst, HasSyn
<1>9. Credit(i, path, t, r)
  BY <1>1, <1>2 DEF Credit, Updates
<1>10. QED
  BY <1>4, <1>5, <1>6, <1>7, <1>8, <1>9 DEF Good

LEMMA InitKeeps ==
  ASSUME SmuxAssumption, Init
  PROVE  IInv
<1> DEFINE e == <<>>
           x == [die |-> FALSE, readError |-> FALSE, writeError |-> FALSE,
                 bucket |-> ReceiveBuffer, permit |-> FALSE,
                 recv |-> "run", charge |-> 0, to |-> 0, queue |-> e, hand |-> e,
                 results |-> {}]
           t == [open |-> "no", tabled |-> FALSE, die |-> FALSE, fin |-> FALSE,
                 buffers |-> e, numRead |-> 0, incr |-> 0, event |-> FALSE,
                 reader |-> "run", taken |-> e,
                 numWritten |-> 0, consumed |-> 0, window |-> FirstWindow,
                 update |-> FALSE, writer |-> "idle", left |-> 0, burst |-> 0,
                 queued |-> 0, closer |-> "no", owed |-> 0]
<1>1. /\ sess = [s \in Side |-> x]
      /\ str = [s \in Side |-> [i \in Stream |-> t]]
      /\ pipe = [s \in Side |-> e]
      /\ got = [s \in Side |-> [i \in Stream |-> e]]
  BY DEF Init
<1>2. /\ e \in Seq(Frames) /\ e \in Seq(Nat) /\ e \in Seq(Seq(Nat)) /\ Len(e) = 0
      /\ e \o (e \o e) = e /\ e = <<>>
  OBVIOUS
<1>3. ReceiveBuffer \in Nat /\ FirstWindow \in Nat
  BY DEF SmuxAssumption
<1> HIDE DEF e
<1>4. x \in SessT
  BY <1>2, <1>3 DEF SessT
<1>5. t \in StrT
  BY <1>2 DEF StrT
<1>6. /\ x.hand = e /\ x.queue = e /\ x.recv = "run" /\ x.charge = 0 /\ x.die = FALSE
      /\ x.bucket = ReceiveBuffer
  OBVIOUS
<1>7. /\ t.open = "no" /\ ~ t.tabled /\ ~ t.die /\ ~ t.fin
      /\ t.buffers = e /\ t.numRead = 0 /\ t.reader = "run" /\ t.taken = e
      /\ t.numWritten = 0 /\ t.consumed = 0 /\ t.writer = "idle"
      /\ t.queued = 0 /\ t.closer = "no" /\ t.owed = 0
  OBVIOUS
<1> HIDE DEF x, t
<1>8. Typed
  BY <1>1, <1>2, <1>4, <1>5 DEF Typed
<1>9. ASSUME NEW s \in Side PROVE Loops(s)
  <2>1. Buffered(s) = 0
    BY <1>1, <1>2, <1>7, NothingBuffered
  <2>2. Len(x.hand) <= 1
    BY <1>2, <1>6
  <2>3. QED
    BY <1>1, <1>3, <1>6, <2>1, <2>2 DEF Loops
<1>10. ASSUME NEW s \in Side, NEW i \in Stream PROVE GoodAt(s, i)
  <2>1. Peer(s) \in Side
    BY Ends
  <2>2. Path(s) = <<>>
    BY <1>1, <1>2, <1>6, <2>1 DEF Path
  <2>3. Good(s, i, t, t, e, FALSE, Path(s))
    BY <1>2, <1>5, <1>7, <2>2, FreshGood
  <2>4. str[s][i] = t /\ str[Peer(s)][i] = t /\ got[s][i] = e /\ sess[s].die = FALSE
    BY <1>1, <1>6, <2>1
  <2>5. QED
    BY <2>3, <2>4 DEF GoodAt
<1>11. QED
  BY <1>8, <1>9, <1>10 DEF IInv

\* The invariant of the two sessions holds whatever their streams, windows and
\* buffers: no frame, byte or token is lost between the tasks (smux.rs).
THEOREM SmuxInvariant == Spec => []IInv
<1>1. Init => IInv
  BY SmuxAssumption, InitKeeps
<1>2. IInv /\ [Next]_vars => IInv'
  BY SmuxAssumption, StepKeeps
<1>3. QED
  BY <1>1, <1>2, PTL DEF Spec

\* The token bucket and what is buffered always make up the receive buffer
\* (return_tokens, stream_closed, recv_loop).
THEOREM TokensAreConserved == Spec => []TokensConserved
<1>1. IInv => TokensConserved
  BY DEF IInv, Loops, TokensConserved
<1>2. QED
  BY <1>1, SmuxInvariant, PTL

\* What is read is a prefix of what the peer wrote, and an end of file in a live
\* session comes after everything written before the close (try_read, close).
THEOREM StreamsAreWhole == Spec => []WholeStream
<1>1. ASSUME IInv PROVE WholeStream
  <2>1. SUFFICES ASSUME NEW s \in Side, NEW i \in Stream
                 PROVE  /\ got[s][i] = [k \in 1 .. Len(got[s][i]) |-> k]
                        /\ Len(got[s][i]) <= str[Peer(s)][i].queued
                        /\ str[s][i].reader = "eof" /\ ~sess[s].die
                             /\ str[s][i].closer = "no" =>
                             /\ str[Peer(s)][i].closer # "no"
                             /\ Len(got[s][i]) >= str[Peer(s)][i].owed
    BY DEF WholeStream
  <2> DEFINE t == str[s][i]
             r == str[Peer(s)][i]
             g == got[s][i]
  <2>2. /\ t \in StrT /\ r \in StrT /\ g \in Seq(Nat)
        /\ Contents(t, g) /\ Bears(i, Path(s), t, r, g, sess[s].die)
    BY <1>1, SmuxAssumption, Now DEF Good
  <2>3. /\ t.numRead \in Nat /\ r.queued \in Nat /\ r.owed \in Nat /\ Len(g) \in Nat
    BY <2>2, StrFields
  <2>4. g = [k \in 1 .. Len(g) |-> k] /\ Len(g) <= t.numRead /\ t.numRead <= r.queued
    BY <2>2 DEF Contents, Bears
  <2>5. Len(g) <= r.queued
    BY <2>3, <2>4
  <2>6. t.reader = "eof" /\ ~ sess[s].die /\ t.closer = "no" =>
          r.closer # "no" /\ r.owed <= Len(g)
    BY <2>2 DEF Bears
  <2>7. QED
    BY <2>3, <2>4, <2>5, <2>6
<1>2. QED
  BY <1>1, SmuxInvariant, PTL

\* A writer never sees more consumed than it wrote, and never has more in the
\* peer's buffers than the window it was granted (write_v2).
THEOREM WindowsAreKept == Spec => []WindowKept
<1>1. ASSUME IInv PROVE WindowKept
  <2>1. SUFFICES ASSUME NEW s \in Side, NEW i \in Stream
                 PROVE  str[s][i].writer # "overrun" /\ Bytes(str[s][i].buffers) <= Widest
    BY DEF WindowKept, Widest
  <2> DEFINE t == str[s][i]
             r == str[Peer(s)][i]
             p == Peer(s)
  <2>2. /\ t \in StrT /\ r \in StrT
        /\ Good(s, i, t, r, got[s][i], sess[s].die, Path(s))
        /\ Good(p, i, r, t, got[p][i], sess[p].die, Path(p))
    BY <1>1, SmuxAssumption, Now
  <2>3. /\ t.numRead \in Nat /\ r.queued \in Nat /\ r.consumed \in Nat
        /\ t.buffers \in Seq(Seq(Nat)) /\ Bytes(t.buffers) \in Nat /\ Widest \in Nat
    BY <2>2, SmuxAssumption, StrFields, BytesCount DEF Widest
  <2> HIDE DEF t, r, p
  <2>4. /\ t.writer # "overrun"
        /\ r.queued <= r.consumed + Widest
        /\ r.consumed <= t.numRead
        /\ t.closer = "done" => t.buffers = <<>>
        /\ t.closer # "done" => t.numRead + Bytes(t.buffers) <= r.queued
    BY <2>2 DEF Good, Writes, Credit, Updates, Stages, Bears, Stretch
  <2>5. Bytes(t.buffers) <= Widest
    <3>1. CASE t.closer = "done"
      BY <2>3, <2>4, <3>1, BytesEmpty
    <3>2. CASE t.closer # "done"
      <4>1. t.numRead + Bytes(t.buffers) <= r.queued
        BY <2>4, <3>2
      <4>2. r.queued <= r.consumed + Widest /\ r.consumed <= t.numRead
        BY <2>4
      <4> DEFINE b == Bytes(t.buffers)
      <4> HIDE DEF b
      <4>3. b \in Nat /\ t.numRead + b <= r.queued
        BY <2>3, <4>1 DEF b
      <4>4. b <= Widest
        BY <2>3, <4>2, <4>3
      <4>5. QED
        BY <4>4 DEF b
    <3>3. QED
      BY <3>1, <3>2
  <2>6. QED
    BY <2>4, <2>5 DEF t
<1>2. QED
  BY <1>1, SmuxInvariant, PTL
=============================================================================

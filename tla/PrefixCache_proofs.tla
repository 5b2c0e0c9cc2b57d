------------------------- MODULE PrefixCache_proofs -------------------------
(***************************************************************************)
(* For any requests, prompts, pool and retention of the drafter: the books *)
(* of the block pool balance, a lane that stores nothing costs the others  *)
(* no more than it has in use, and the cache implements PrefixStore.       *)
(*                                                                         *)
(* The argument.  Every block is in the queue once or held by the requests *)
(* that its reference count says, and in the queue the blocks without a    *)
(* hash come first (PoolOk).  A row of the table names a block once, and   *)
(* only blocks that carry the checkpoint of their own place (RowOk).  So a *)
(* block that is evicted is one that no request works on; and a block is   *)
(* evicted only when no block without a hash is left in the queue, which   *)
(* bounds what a lane that stores nothing can evict (CostOk).              *)
(*                                                                         *)
(* The hit.  A pass over the groups brings it to a place where all of MLA  *)
(* and the Mamba state are found, or makes it shorter, and none of the     *)
(* passes skips such a place (PassIs, ReconcileIs); so the passes end at   *)
(* the one that PrefixStore names (HitIsResume).                           *)
(***************************************************************************)
EXTENDS PrefixCache, CommonLemmas, FiniteSetTheorems, TLAPS

----------------------------------------------------------------------------
(* Selecting from a sequence                                               *)

\* y is what is in S of the first n elements of s, in their order.
Selects(y, s, S, n) ==
  /\ \A i \in 1..Len(y) : y[i] \in S /\ \E k \in 1..n : y[i] = s[k]
  /\ \A k \in 1..n : s[k] \in S => \E i \in 1..Len(y) : y[i] = s[k]
  /\ \A i, j \in 1..Len(y) : i < j => \E k, l \in 1..n : k < l /\ y[i] = s[k] /\ y[j] = s[l]

\* One element more to select from.
LEMMA SelectsMore ==
  ASSUME NEW T, NEW s \in Seq(T), NEW S, NEW n \in 1..Len(s), NEW y \in Seq(T), Selects(y, s, S, n - 1)
  PROVE  LET z == IF s[n] \in S THEN Append(y, s[n]) ELSE y
         IN  z \in Seq(T) /\ Selects(z, s, S, n)
<1> DEFINE z == Append(y, s[n])
<1>0. Len(y) \in Nat /\ s[n] \in T /\ n \in Nat /\ n \in 1..n /\ 1..(n - 1) \subseteq 1..n
      /\ (\A k \in 1..n : k = n \/ k \in 1..(n - 1))
  OBVIOUS
<1>1. CASE s[n] \notin S
  BY <1>0, <1>1 DEF Selects
<1>2. CASE s[n] \in S
  <2>1. z \in Seq(T) /\ Len(z) = Len(y) + 1 /\ (\A i \in 1..Len(y) : z[i] = y[i]) /\ z[Len(y) + 1] = s[n]
    BY <1>0
  <2> HIDE DEF z
  <2>2. \A i \in 1..Len(z) : i \in 1..Len(y) \/ i = Len(y) + 1
    BY <1>0, <2>1
  <2>3. \A i \in 1..Len(y) : i \in 1..Len(z)
    BY <1>0, <2>1
  <2>3a. Len(y) + 1 \in 1..Len(z)
    BY <1>0, <2>1
  <2>4. \A i \in 1..Len(z) : z[i] \in S /\ \E k \in 1..n : z[i] = s[k]
    <3>1. \A i \in 1..Len(y) : y[i] \in S /\ \E k \in 1..n : y[i] = s[k]
      BY <1>0 DEF Selects
    <3> QED BY <1>0, <1>2, <2>1, <2>2, <3>1
  <2>5. \A k \in 1..n : s[k] \in S => \E i \in 1..Len(z) : z[i] = s[k]
    BY <1>0, <1>2, <2>1, <2>3, <2>3a DEF Selects
  <2>6. ASSUME NEW i \in 1..Len(z), NEW j \in 1..Len(z), i < j
        PROVE  \E k, l \in 1..n : k < l /\ z[i] = s[k] /\ z[j] = s[l]
    <3>1. i \in 1..Len(y)
      BY <1>0, <2>1, <2>6
    <3>2. CASE j \in 1..Len(y)
      BY <1>0, <2>1, <2>6, <3>1, <3>2 DEF Selects
    <3>3. CASE j = Len(y) + 1
      <4>1. PICK k \in 1..(n - 1) : y[i] = s[k]
        BY <3>1 DEF Selects
      <4>2. k < n /\ k \in 1..n
        BY <1>0
      <4> QED BY <1>0, <2>1, <3>1, <3>3, <4>1, <4>2
    <3> QED BY <2>2, <3>2, <3>3
  <2>7. Selects(z, s, S, n)
    BY <2>4, <2>5, <2>6 DEF Selects
  <2> QED BY <1>2, <2>1, <2>7 DEF z
<1> QED BY <1>1, <1>2

\* Only selects.
LEMMA OnlyIs ==
  ASSUME NEW T, NEW s \in Seq(T), NEW S
  PROVE  Only(s, S) \in Seq(T) /\ Selects(Only(s, S), s, S, Len(s))
<1> DEFINE m == Len(s)
           F == [n \in 1..m |-> [x \in Seq(T) |-> IF s[n] \in S THEN Append(x, s[n]) ELSE x]]
<1>1. m \in Nat /\ F \in [1..m -> [Seq(T) -> Seq(T)]] /\ << >> \in Seq(T)
  <2>1. \A n \in 1..m, x \in Seq(T) : Append(x, s[n]) \in Seq(T)
    OBVIOUS
  <2>2. m \in Nat /\ << >> \in Seq(T)
    OBVIOUS
  <2> QED BY <2>1, <2>2
<1>2. \A n \in 1..m, x \in Seq(T) : F[n][x] = IF s[n] \in S THEN Append(x, s[n]) ELSE x
  OBVIOUS
<1> HIDE DEF F
<1>3. PICK h : Iterates(h, m, Seq(T), << >>, F)
  BY <1>1, Iterated
<1>4. h = [n \in 0..m |-> IF n = 0 THEN << >> ELSE IF s[n] \in S THEN Append(h[n - 1], s[n]) ELSE h[n - 1]]
  <2>1. h \in [0..m -> Seq(T)] /\ h = [n \in 0..m |-> IF n = 0 THEN << >> ELSE F[n][h[n - 1]]]
    BY <1>3 DEF Iterates
  <2>2. ASSUME NEW n \in 1..m
        PROVE  F[n][h[n - 1]] = IF s[n] \in S THEN Append(h[n - 1], s[n]) ELSE h[n - 1]
    <3>1. n - 1 \in 0..m
      BY <1>1
    <3> QED BY <1>2, <2>1, <3>1
  <2>3. \A n \in 0..m : n = 0 \/ n \in 1..m
    BY <1>1
  <2> QED BY <2>1, <2>2, <2>3
<1> DEFINE f[n \in 0..Len(s)] ==
             IF n = 0 THEN << >> ELSE IF s[n] \in S THEN Append(f[n - 1], s[n]) ELSE f[n - 1]
<1>5. f = [n \in 0..m |-> IF n = 0 THEN << >> ELSE IF s[n] \in S THEN Append(f[n - 1], s[n]) ELSE f[n - 1]]
  BY <1>4
<1>6. Only(s, S) = f[m]
  BY DEF Only
<1> HIDE DEF f
<1> DEFINE B == {n \in 0..m : f[n] \in Seq(T) /\ Selects(f[n], s, S, n)}
<1>7. 0 \in B
  <2>1. f[0] = << >> /\ 0 \in 0..m
    BY <1>1, <1>5
  <2>2. f[0] \in Seq(T) /\ Len(f[0]) = 0 /\ 1..0 = {}
    BY <1>1, <2>1
  <2> QED BY <2>1, <2>2 DEF Selects
<1>8. ASSUME NEW n \in 1..m, n - 1 \in B PROVE n \in B
  <2>1. f[n - 1] \in Seq(T) /\ Selects(f[n - 1], s, S, n - 1)
    BY <1>8
  <2>2. f[n] = IF s[n] \in S THEN Append(f[n - 1], s[n]) ELSE f[n - 1]
    <3>1. n \in 0..m /\ n # 0
      BY <1>1
    <3> QED BY <1>5, <3>1
  <2>3. f[n] \in Seq(T) /\ Selects(f[n], s, S, n)
    BY <2>1, <2>2, SelectsMore
  <2> QED BY <1>1, <2>3
<1>9. m \in B
  <2>1. m \in 0..m
    BY <1>1
  <2> HIDE DEF B, m
  <2>2. \A n \in 0..m : n \in B
    BY <1>1, <1>7, <1>8, UpTo
  <2> QED BY <2>1, <2>2
<1> QED BY <1>6, <1>9

----------------------------------------------------------------------------
(* The pool.  u[b] is the set of the requests that hold block b.           *)

Checkpoint == Groups \X Seq(Segments)
PoolType == [hash : [Blocks -> Checkpoint \cup {None}], ref : [Blocks -> Nat], free : Seq(Blocks)]

\* The queue: each block once; blocks without a hash go first.
Unique(s) == \A i, j \in 1..Len(s) : s[i] = s[j] => i = j
Sorted(s, h) == \A i, j \in 1..Len(s) : i < j /\ h[s[i]] # None => h[s[j]] # None
Occurs(s, b) == \E i \in 1..Len(s) : s[i] = b

PoolOk(o, u) ==
  /\ o \in PoolType /\ u \in [Blocks -> SUBSET Reqs]
  /\ \A b \in Blocks : o.ref[b] = Cardinality(u[b])
  /\ Unique(o.free) /\ Sorted(o.free, o.hash)
  /\ \A b \in Blocks : Occurs(o.free, b) <=> u[b] = {}

\* The reference count with one holder more and with one less.
LEMMA CountIs ==
  ASSUME NEW X \in SUBSET Reqs
  PROVE  /\ Cardinality(X) \in Nat /\ (Cardinality(X) = 0 <=> X = {})
         /\ \A r \in Reqs : /\ r \notin X => Cardinality(X \cup {r}) = Cardinality(X) + 1
                            /\ r \in X => Cardinality(X \ {r}) = Cardinality(X) - 1
<1>1. IsFiniteSet(X)
  BY PrefixCacheAssumption, FS_Subset
<1> QED BY <1>1, FS_CardinalityType, FS_EmptySet, FS_AddElement, FS_RemoveElement

\* The front of the queue.
LEMMA TakeOk ==
  ASSUME NEW o, NEW u, PoolOk(o, u), Len(o.free) > 0, NEW r \in Reqs
  PROVE  LET b == Head(o.free)
             n == Take(o)
         IN  /\ b \in Blocks /\ u[b] = {}
             /\ PoolOk(n, [u EXCEPT ![b] = {r}])
             /\ Len(n.free) = Len(o.free) - 1 /\ n.hash = [o.hash EXCEPT ![b] = None]
             /\ o.hash[b] # None => \A i \in 1..Len(n.free) : n.hash[n.free[i]] # None
<1> DEFINE b == Head(o.free)
           n == Take(o)
           v == [u EXCEPT ![b] = {r}]
           L == Len(o.free)
<1>1. o \in PoolType /\ o.free \in Seq(Blocks) /\ L \in Nat /\ L > 0
  BY DEF PoolOk, PoolType
<1>2. /\ b \in Blocks /\ b = o.free[1] /\ n.free \in Seq(Blocks) /\ Len(n.free) = L - 1
      /\ \A i \in 1..(L - 1) : n.free[i] = o.free[i + 1]
  BY <1>1 DEF Take
<1>3. n = [hash |-> [o.hash EXCEPT ![b] = None], ref |-> [o.ref EXCEPT ![b] = 1], free |-> n.free]
  BY DEF Take
<1> HIDE DEF n, b, L
<1>3a. n.hash = [o.hash EXCEPT ![b] = None] /\ n.ref = [o.ref EXCEPT ![b] = 1]
  BY <1>3
<1>4. n \in PoolType /\ v \in [Blocks -> SUBSET Reqs]
  <2>1. o.hash \in [Blocks -> Checkpoint \cup {None}] /\ o.ref \in [Blocks -> Nat]
    BY <1>1 DEF PoolType
  <2>2. /\ [o.hash EXCEPT ![b] = None] \in [Blocks -> Checkpoint \cup {None}]
        /\ [o.ref EXCEPT ![b] = 1] \in [Blocks -> Nat]
    BY <2>1
  <2>3. n \in PoolType
    <3>1. n.free \in Seq(Blocks)
      BY <1>2
    <3> DEFINE q == n.free
    <3>2. q \in Seq(Blocks) /\ n = [hash |-> [o.hash EXCEPT ![b] = None], ref |-> [o.ref EXCEPT ![b] = 1], free |-> q]
      BY <1>3, <3>1
    <3> HIDE DEF q
    <3> QED BY <2>2, <3>2 DEF PoolType
  <2>4. v \in [Blocks -> SUBSET Reqs]
    BY <1>2 DEF PoolOk
  <2> QED BY <2>3, <2>4
<1>5. \A i \in 1..(L - 1) : i + 1 \in 1..L /\ i + 1 # 1
  BY <1>1
<1>5a. \A i, j \in 1..L : o.free[i] = o.free[j] => i = j
  BY DEF PoolOk, Unique, L
<1>6. u[b] = {}
  <2>1. 1 \in 1..Len(o.free)
    BY <1>1 DEF L
  <2> QED BY <1>2, <2>1 DEF PoolOk, Occurs
<1>7. \A c \in Blocks : n.ref[c] = Cardinality(v[c])
  <2>1. Cardinality({r}) = 1
    BY FS_Singleton
  <2>2. u \in [Blocks -> SUBSET Reqs] /\ o.ref \in [Blocks -> Nat]
    BY <1>1 DEF PoolOk, PoolType
  <2> QED BY <1>3a, <2>1, <2>2 DEF PoolOk
<1>8. \A i, j \in 1..(L - 1) : n.free[i] = n.free[j] => i = j
  <2> TAKE i, j \in 1..(L - 1)
  <2>1. n.free[i] = n.free[j] => i + 1 = j + 1
    BY <1>2, <1>5, <1>5a
  <2> QED BY <2>1
<1>9. \A i \in 1..(L - 1) : n.free[i] # b /\ n.free[i] \in Blocks
  <2>1. 1 \in 1..L
    BY <1>1
  <2> QED BY <1>2, <1>5, <1>5a, <2>1
<1>10. \A c \in Blocks : Occurs(n.free, c) <=> v[c] = {}
  <2> TAKE c \in Blocks
  <2>1. u \in [Blocks -> SUBSET Reqs]
    BY DEF PoolOk
  <2>2. CASE c = b
    BY <1>2, <1>9, <2>1, <2>2 DEF Occurs
  <2>3. CASE c # b
    <3>1. v[c] = u[c]
      BY <2>1, <2>3
    <3>2. Occurs(o.free, c) <=> Occurs(n.free, c)
      <4>1. \A i \in 1..L : i = 1 \/ (i - 1 \in 1..(L - 1) /\ (i - 1) + 1 = i)
        BY <1>1
      <4>2. ASSUME NEW i \in 1..L, o.free[i] = c PROVE \E j \in 1..(L - 1) : n.free[j] = c
        <5>1. i - 1 \in 1..(L - 1) /\ (i - 1) + 1 = i
          BY <1>2, <2>3, <4>1, <4>2
        <5>2. n.free[i - 1] = o.free[(i - 1) + 1]
          BY <1>2, <5>1
        <5> QED BY <4>2, <5>1, <5>2
      <4>3. ASSUME NEW i \in 1..(L - 1), n.free[i] = c PROVE \E j \in 1..L : o.free[j] = c
        BY <1>2, <1>5, <4>3
      <4> QED BY <1>2, <4>2, <4>3 DEF Occurs, L
    <3> QED BY <3>1, <3>2 DEF PoolOk
  <2> QED BY <2>2, <2>3
<1>11. \A i \in 1..(L - 1) : n.hash[n.free[i]] = o.hash[o.free[i + 1]]
  <2>1. o.hash \in [Blocks -> Checkpoint \cup {None}]
    BY <1>1 DEF PoolType
  <2> QED BY <1>2, <1>3a, <1>9, <2>1
<1>12. \A i, j \in 1..L : i < j /\ o.hash[o.free[i]] # None => o.hash[o.free[j]] # None
  BY DEF PoolOk, Sorted, L
<1>13. Sorted(n.free, n.hash)
  <2>1. ASSUME NEW i \in 1..(L - 1), NEW j \in 1..(L - 1), i < j, n.hash[n.free[i]] # None
        PROVE  n.hash[n.free[j]] # None
    <3>1. i + 1 \in 1..L /\ j + 1 \in 1..L /\ i + 1 < j + 1
      BY <1>1, <2>1
    <3> QED BY <1>11, <1>12, <2>1, <3>1
  <2> QED BY <1>2, <2>1 DEF Sorted
<1>14. o.hash[b] # None => \A i \in 1..(L - 1) : n.hash[n.free[i]] # None
  <2>1. 1 \in 1..L /\ \A i \in 1..(L - 1) : 1 < i + 1
    BY <1>1
  <2> QED BY <1>2, <1>5, <1>11, <1>12, <2>1
<1>15. PoolOk(n, v)
  BY <1>2, <1>4, <1>7, <1>8, <1>10, <1>13 DEF PoolOk, Unique
<1> QED BY <1>2, <1>3a, <1>6, <1>14, <1>15 DEF n, b, L

\* The blocks of a hit.
LEMMA TouchOk ==
  ASSUME NEW o, NEW u, PoolOk(o, u), NEW r \in Reqs, NEW B \in SUBSET Blocks, \A b \in B : r \notin u[b]
  PROVE  LET n == Touch(o, B)
             v == [b \in Blocks |-> IF b \in B THEN u[b] \cup {r} ELSE u[b]]
         IN  PoolOk(n, v) /\ n.hash = o.hash
<1> DEFINE v == [b \in Blocks |-> IF b \in B THEN u[b] \cup {r} ELSE u[b]]
           q == Only(o.free, Blocks \ B)
           f == [b \in Blocks |-> IF b \in B THEN o.ref[b] + 1 ELSE o.ref[b]]
           n == Touch(o, B)
<1>1. /\ o \in PoolType /\ o.free \in Seq(Blocks) /\ o.ref \in [Blocks -> Nat] /\ u \in [Blocks -> SUBSET Reqs]
  BY DEF PoolOk, PoolType
<1>2. q \in Seq(Blocks) /\ Selects(q, o.free, Blocks \ B, Len(o.free))
  BY <1>1, OnlyIs
<1>3. f \in [Blocks -> Nat] /\ v \in [Blocks -> SUBSET Reqs]
  BY <1>1
<1>4. n = [o EXCEPT !.ref = f, !.free = q]
  BY DEF Touch
<1>5. \A b \in Blocks : f[b] = Cardinality(v[b])
  <2>1. \A b \in Blocks : o.ref[b] = Cardinality(u[b]) /\ u[b] \in SUBSET Reqs
    BY <1>1 DEF PoolOk
  <2>2. \A b \in B : Cardinality(u[b] \cup {r}) = Cardinality(u[b]) + 1
    BY <2>1, CountIs
  <2>3. \A b \in Blocks : b \in B => f[b] = o.ref[b] + 1 /\ v[b] = u[b] \cup {r}
    OBVIOUS
  <2>4. \A b \in Blocks : b \notin B => f[b] = o.ref[b] /\ v[b] = u[b]
    OBVIOUS
  <2> HIDE DEF f, v
  <2> QED BY <2>1, <2>2, <2>3, <2>4
<1> HIDE DEF n, q, f
<1>6. n \in PoolType /\ n.hash = o.hash /\ n.ref = f /\ n.free = q
  BY <1>1, <1>2, <1>3, <1>4 DEF PoolType
<1>7. \A i, j \in 1..Len(q) : i < j =>
        \E k, l \in 1..Len(o.free) : k < l /\ q[i] = o.free[k] /\ q[j] = o.free[l]
  BY <1>2 DEF Selects
<1>8. \A i, j \in 1..Len(q) : q[i] = q[j] => i = j
  <2>1. \A i, j \in 1..Len(q) : i < j => q[i] # q[j]
    BY <1>7 DEF PoolOk, Unique
  <2>2. \A i, j \in 1..Len(q) : i < j \/ j < i \/ i = j
    OBVIOUS
  <2> QED BY <2>1, <2>2
<1>9. Sorted(q, o.hash)
  <2> SUFFICES ASSUME NEW i \in 1..Len(q), NEW j \in 1..Len(q), i < j, o.hash[q[i]] # None
               PROVE  o.hash[q[j]] # None
    BY DEF Sorted
  <2>1. PICK k \in 1..Len(o.free), l \in 1..Len(o.free) : k < l /\ q[i] = o.free[k] /\ q[j] = o.free[l]
    BY <1>7
  <2> QED BY <2>1 DEF PoolOk, Sorted
<1>10. \A b \in Blocks : Occurs(n.free, b) <=> v[b] = {}
  <2> TAKE b \in Blocks
  <2>1. Occurs(n.free, b) <=> b \notin B /\ Occurs(o.free, b)
    <3>1. ASSUME NEW i \in 1..Len(q), q[i] = b PROVE b \notin B /\ \E k \in 1..Len(o.free) : o.free[k] = b
      BY <1>2, <3>1 DEF Selects
    <3>2. ASSUME b \notin B, NEW k \in 1..Len(o.free), o.free[k] = b PROVE \E i \in 1..Len(q) : q[i] = b
      BY <1>2, <3>2 DEF Selects
    <3> QED BY <1>6, <3>1, <3>2 DEF Occurs
  <2>2. v[b] = {} <=> b \notin B /\ u[b] = {}
    BY <1>1
  <2> HIDE DEF v
  <2> QED BY <2>1, <2>2 DEF PoolOk
<1> QED BY <1>3, <1>5, <1>6, <1>8, <1>9, <1>10 DEF PoolOk, Unique, n

\* One queue behind the other.
LEMMA JoinQueues ==
  ASSUME NEW x \in Seq(Blocks), NEW y \in Seq(Blocks), NEW h,
         Unique(x), Unique(y), Sorted(x, h), Sorted(y, h),
         \A i \in 1..Len(x), j \in 1..Len(y) : x[i] # y[j] /\ (h[x[i]] # None => h[y[j]] # None)
  PROVE  LET z == x \o y
         IN  /\ z \in Seq(Blocks) /\ Unique(z) /\ Sorted(z, h)
             /\ \A b : Occurs(z, b) <=> Occurs(x, b) \/ Occurs(y, b)
<1> DEFINE z == x \o y
           m == Len(x)
           n == Len(y)
<1>1. /\ z \in Seq(Blocks) /\ Len(z) = m + n /\ m \in Nat /\ n \in Nat
      /\ (\A i \in 1..m : z[i] = x[i]) /\ \A i \in 1..n : z[m + i] = y[i]
  BY Joined
<1> HIDE DEF z
<1>2. ASSUME NEW i \in 1..Len(z) PROVE i \in 1..m \/ \E j \in 1..n : i = m + j
  <2>1. i \in 1..m \/ (i - m \in 1..n /\ i = m + (i - m))
    BY <1>1
  <2> QED BY <2>1
<1>2a. \A j \in 1..n : m + j \in 1..Len(z) /\ m + j \in Nat
  BY <1>1
<1>2b. \A i \in 1..m : i \in 1..Len(z)
  BY <1>1
<1>2c. \A i \in 1..m, j \in 1..n : i < m + j /\ ~(m + j < i) /\ m + j # i
  BY <1>1
<1>2d. \A i, j \in 1..n : (m + i < m + j <=> i < j) /\ (m + i = m + j <=> i = j)
  <2>1. m \in Nat /\ n \in Nat
    BY <1>1
  <2> HIDE DEF m, n
  <2> QED BY <2>1
<1> HIDE DEF m, n
<1>3. \A b : Occurs(z, b) <=> Occurs(x, b) \/ Occurs(y, b)
  <2> TAKE b
  <2>1. ASSUME NEW i \in 1..Len(z), z[i] = b PROVE Occurs(x, b) \/ Occurs(y, b)
    <3>1. CASE i \in 1..m
      BY <1>1, <2>1, <3>1 DEF Occurs, m
    <3>2. ASSUME NEW j \in 1..n, i = m + j PROVE Occurs(y, b)
      <4>1. y[j] = b
        BY <1>1, <2>1, <3>2
      <4> QED BY <4>1 DEF Occurs, n
    <3> QED BY <1>2, <3>1, <3>2
  <2>2. ASSUME NEW i \in 1..m, x[i] = b PROVE Occurs(z, b)
    BY <1>1, <1>2b, <2>2 DEF Occurs
  <2>3. ASSUME NEW i \in 1..n, y[i] = b PROVE Occurs(z, b)
    BY <1>1, <1>2a, <2>3 DEF Occurs
  <2> QED BY <2>1, <2>2, <2>3 DEF Occurs, m, n
<1>4. Unique(z)
  <2>1. ASSUME NEW i \in 1..Len(z), NEW j \in 1..Len(z), z[i] = z[j] PROVE i = j
    <3>1. CASE i \in 1..m /\ j \in 1..m
      BY <1>1, <2>1, <3>1 DEF Unique, m
    <3>2. ASSUME NEW k \in 1..n, NEW l \in 1..n, i = m + k, j = m + l PROVE i = j
      BY <1>1, <2>1, <3>2 DEF Unique, n
    <3>3. ASSUME NEW k \in 1..m, NEW l \in 1..n PROVE z[k] # z[m + l]
      <4>1. z[k] = x[k] /\ z[m + l] = y[l]
        BY <1>1
      <4>2. x[k] # y[l]
        BY DEF m, n
      <4> QED BY <4>1, <4>2
    <3> QED BY <1>2, <2>1, <3>1, <3>2, <3>3
  <2> QED BY <2>1 DEF Unique
<1>5. Sorted(z, h)
  <2>1. ASSUME NEW i \in 1..Len(z), NEW j \in 1..Len(z), i < j, h[z[i]] # None PROVE h[z[j]] # None
    <3>1. CASE i \in 1..m /\ j \in 1..m
      BY <1>1, <2>1, <3>1 DEF Sorted, m
    <3>2. ASSUME NEW k \in 1..n, NEW l \in 1..n, i = m + k, j = m + l PROVE h[z[j]] # None
      <4>1. k < l
        BY <1>2d, <2>1, <3>2
      <4>2. z[i] = y[k] /\ z[j] = y[l]
        BY <1>1, <3>2
      <4> QED BY <2>1, <4>1, <4>2 DEF Sorted, n
    <3>3. ASSUME NEW k \in 1..m, NEW l \in 1..n, i = k, j = m + l PROVE h[z[j]] # None
      <4>1. z[i] = x[k] /\ z[j] = y[l]
        BY <1>1, <3>3
      <4>2. h[x[k]] # None
        BY <2>1, <4>1
      <4>3. h[y[l]] # None
        BY <4>2 DEF m, n
      <4> QED BY <4>1, <4>3
    <3> QED BY <1>2, <1>2c, <2>1, <3>1, <3>2, <3>3
  <2> QED BY <2>1 DEF Sorted
<1> QED BY <1>1, <1>3, <1>4, <1>5 DEF z

\* What the queue of a freed table looks like.
LEMMA OnlyQueue ==
  ASSUME NEW s \in Seq(Blocks \cup {0}), NEW S \in SUBSET Blocks, NEW h,
         \A i, j \in 1..Len(s) : s[i] # 0 /\ s[i] = s[j] => i = j
  PROVE  LET q == Only(s, S)
         IN  /\ q \in Seq(Blocks) /\ Unique(q)
             /\ (\A b : Occurs(q, b) <=> b \in S /\ Occurs(s, b))
             /\ (\A i \in 1..Len(q) : q[i] \in S)
             /\ (\A b \in S : h[b] = None) \/ (\A b \in S : h[b] # None) => Sorted(q, h)
<1> DEFINE q == Only(s, S)
<1>1. q \in Seq(Blocks \cup {0}) /\ Selects(q, s, S, Len(s))
  BY OnlyIs
<1> HIDE DEF q
<1>2. \A i \in 1..Len(q) : q[i] \in S /\ q[i] \in Blocks
  BY <1>1 DEF Selects
<1>3. q \in Seq(Blocks)
  BY <1>1, <1>2
<1>4. \A b : Occurs(q, b) <=> b \in S /\ Occurs(s, b)
  <2> TAKE b
  <2>1. ASSUME NEW i \in 1..Len(q), q[i] = b PROVE b \in S /\ \E k \in 1..Len(s) : s[k] = b
    BY <1>1, <2>1 DEF Selects
  <2>2. ASSUME b \in S, NEW k \in 1..Len(s), s[k] = b PROVE \E i \in 1..Len(q) : q[i] = b
    BY <1>1, <2>2 DEF Selects
  <2> QED BY <2>1, <2>2 DEF Occurs
<1>5. Unique(q)
  <2>1. \A b \in Blocks : b # 0
    BY DEF Blocks
  <2>2. ASSUME NEW i \in 1..Len(q), NEW j \in 1..Len(q), i < j PROVE q[i] # q[j]
    <3>1. PICK k \in 1..Len(s), l \in 1..Len(s) : k < l /\ q[i] = s[k] /\ q[j] = s[l]
      BY <1>1, <2>2 DEF Selects
    <3>2. k # l /\ s[k] # 0
      BY <1>2, <2>1, <3>1
    <3> QED BY <3>1, <3>2
  <2>3. \A i, j \in 1..Len(q) : i < j \/ j < i \/ i = j
    OBVIOUS
  <2> QED BY <2>2, <2>3 DEF Unique
<1>6. (\A b \in S : h[b] = None) \/ (\A b \in S : h[b] # None) => Sorted(q, h)
  BY <1>2 DEF Sorted
<1> QED BY <1>2, <1>3, <1>4, <1>5, <1>6 DEF q

\* The blocks bs, each of them held by r, are given back.
LEMMA FreeOk ==
  ASSUME NEW o, NEW u, PoolOk(o, u), NEW r \in Reqs, NEW bs \in Seq(Blocks \cup {0}),
         \A i, j \in 1..Len(bs) : bs[i] # 0 /\ bs[i] = bs[j] => i = j,
         \A i \in 1..Len(bs) : bs[i] # 0 => r \in u[bs[i]]
  PROVE  LET n == FreeBlocks(o, bs)
             v == [b \in Blocks |-> IF Occurs(bs, b) THEN u[b] \ {r} ELSE u[b]]
         IN  PoolOk(n, v) /\ n.hash = o.hash
<1> DEFINE v == [b \in Blocks |-> IF Occurs(bs, b) THEN u[b] \ {r} ELSE u[b]]
           f == [b \in Blocks |-> o.ref[b] - Cardinality({i \in DOMAIN bs : bs[i] = b})]
           gone == {b \in Blocks : f[b] = 0}
           p == Only(bs, gone \ Hashed(o))
           k == Only(bs, gone \cap Hashed(o))
           n == FreeBlocks(o, bs)
<1>1. /\ o \in PoolType /\ o.free \in Seq(Blocks) /\ o.ref \in [Blocks -> Nat] /\ u \in [Blocks -> SUBSET Reqs]
      /\ \A b \in Blocks : b # 0
  BY DEF PoolOk, PoolType, Blocks
<1>2. n = [o EXCEPT !.ref = f, !.free = p \o o.free \o k]
  BY DEF FreeBlocks
<1>3. DOMAIN bs = 1..Len(bs)
  OBVIOUS
<1>4. v \in [Blocks -> SUBSET Reqs]
  BY <1>1
<1>4a. \A b \in Blocks : v[b] = IF Occurs(bs, b) THEN u[b] \ {r} ELSE u[b]
  OBVIOUS
<1>4b. \A b \in Blocks : f[b] = o.ref[b] - Cardinality({i \in 1..Len(bs) : bs[i] = b})
  BY <1>3
<1>4c. f = [b \in Blocks |-> f[b]]
  OBVIOUS
<1> HIDE DEF v, f
<1>5. \A b \in Blocks : f[b] = Cardinality(v[b])
  <2> TAKE b \in Blocks
  <2> DEFINE D == {i \in 1..Len(bs) : bs[i] = b}
  <2>1. CASE ~Occurs(bs, b)
    <3>1. D = {}
      BY <2>1 DEF Occurs
    <3>2. Cardinality(D) = 0 /\ o.ref[b] \in Nat
      BY <1>1, <3>1, FS_EmptySet
    <3>3. f[b] = o.ref[b] - Cardinality(D) /\ v[b] = u[b]
      BY <1>4a, <1>4b, <2>1
    <3> HIDE DEF D
    <3> QED BY <3>2, <3>3 DEF PoolOk
  <2>2. ASSUME NEW i \in 1..Len(bs), bs[i] = b PROVE f[b] = Cardinality(v[b])
    <3>1. D = {i}
      BY <1>1, <2>2
    <3>2. Cardinality(D) = 1
      BY <3>1, FS_Singleton
    <3>3. r \in u[b]
      BY <1>1, <2>2
    <3>4. Occurs(bs, b)
      BY <2>2 DEF Occurs
    <3>5. Cardinality(u[b] \ {r}) = Cardinality(u[b]) - 1
      BY <1>1, <3>3, CountIs
    <3>6. f[b] = o.ref[b] - Cardinality(D) /\ v[b] = u[b] \ {r} /\ o.ref[b] = Cardinality(u[b])
      BY <1>4a, <1>4b, <3>4 DEF PoolOk
    <3> HIDE DEF D, f, v
    <3> QED BY <3>2, <3>5, <3>6
  <2> QED BY <2>1, <2>2 DEF Occurs
<1>6. f \in [Blocks -> Nat]
  BY <1>4, <1>4c, <1>5, CountIs
<1>7. \A b \in Blocks : b \in gone <=> v[b] = {}
  BY <1>4, <1>5, CountIs
<1>8. \A b \in Blocks : Occurs(bs, b) => ~Occurs(o.free, b)
  BY <1>1 DEF Occurs, PoolOk
<1>9. gone \in SUBSET Blocks
  OBVIOUS
<1> DEFINE P == gone \ Hashed(o)
           K == gone \cap Hashed(o)
<1>9a. P \in SUBSET Blocks /\ K \in SUBSET Blocks /\ (\A b \in P : o.hash[b] = None) /\ \A b \in K : o.hash[b] # None
  BY DEF Hashed
<1>9b. gone = P \cup K
  OBVIOUS
<1> HIDE DEF gone, P, K, n
<1>10. /\ p \in Seq(Blocks) /\ Unique(p) /\ (\A b : Occurs(p, b) <=> b \in P /\ Occurs(bs, b))
       /\ (\A i \in 1..Len(p) : p[i] \in P) /\ Sorted(p, o.hash)
  BY <1>9a, OnlyQueue DEF P
<1>11. /\ k \in Seq(Blocks) /\ Unique(k) /\ (\A b : Occurs(k, b) <=> b \in K /\ Occurs(bs, b))
       /\ (\A i \in 1..Len(k) : k[i] \in K) /\ Sorted(k, o.hash)
  BY <1>9a, OnlyQueue DEF K
<1> HIDE DEF p, k
<1> DEFINE pf == p \o o.free
           z == pf \o k
<1>11a. Unique(o.free) /\ Sorted(o.free, o.hash)
  BY DEF PoolOk
<1>12. pf \in Seq(Blocks) /\ Unique(pf) /\ Sorted(pf, o.hash) /\ \A b : Occurs(pf, b) <=> Occurs(p, b) \/ Occurs(o.free, b)
  <2>1. \A i \in 1..Len(p), j \in 1..Len(o.free) :
          p[i] # o.free[j] /\ (o.hash[p[i]] # None => o.hash[o.free[j]] # None)
    <3> TAKE i \in 1..Len(p), j \in 1..Len(o.free)
    <3>1. p[i] \in P /\ Occurs(p, p[i])
      BY <1>10 DEF Occurs
    <3>2. Occurs(bs, p[i]) /\ p[i] \in Blocks
      BY <1>9a, <1>10, <3>1
    <3>3. Occurs(o.free, o.free[j])
      BY DEF Occurs
    <3> QED BY <1>8, <1>9a, <3>1, <3>2, <3>3
  <2> QED BY <1>1, <1>10, <1>11a, <2>1, JoinQueues
<1> HIDE DEF pf
<1>13. z \in Seq(Blocks) /\ Unique(z) /\ Sorted(z, o.hash) /\ \A b : Occurs(z, b) <=> Occurs(pf, b) \/ Occurs(k, b)
  <2>1. \A i \in 1..Len(pf), j \in 1..Len(k) : pf[i] # k[j] /\ (o.hash[pf[i]] # None => o.hash[k[j]] # None)
    <3> TAKE i \in 1..Len(pf), j \in 1..Len(k)
    <3>1. k[j] \in K /\ Occurs(k, k[j])
      BY <1>11 DEF Occurs
    <3>2. Occurs(bs, k[j]) /\ k[j] \in Blocks
      BY <1>9a, <1>11, <3>1
    <3>3. ~Occurs(p, k[j])
      BY <1>9a, <1>10, <3>1
    <3>4. Occurs(pf, pf[i])
      BY DEF Occurs
    <3> QED BY <1>8, <1>9a, <1>12, <3>1, <3>2, <3>3, <3>4
  <2> QED BY <1>11, <1>12, <2>1, JoinQueues
<1>14. n = [o EXCEPT !.ref = f, !.free = z]
  BY <1>2 DEF pf
<1> HIDE DEF z
<1>15. n \in PoolType /\ n.hash = o.hash /\ n.ref = f /\ n.free = z
  BY <1>1, <1>6, <1>13, <1>14 DEF PoolType
<1>16. \A b \in Blocks : Occurs(z, b) <=> v[b] = {}
  <2> TAKE b \in Blocks
  <2>1. Occurs(z, b) <=> (b \in gone /\ Occurs(bs, b)) \/ Occurs(o.free, b)
    BY <1>9b, <1>10, <1>11, <1>12, <1>13
  <2>2. Occurs(o.free, b) <=> u[b] = {}
    BY DEF PoolOk
  <2> QED BY <1>4a, <1>7, <2>1, <2>2
<1>17. PoolOk(n, v)
  BY <1>4, <1>5, <1>13, <1>15, <1>16 DEF PoolOk
<1> QED BY <1>15, <1>17 DEF n, v

----------------------------------------------------------------------------
(* A segment gets its blocks                                               *)

LEMMA GroupsAre == Groups = {"mla", "mamba", "swa"}
<1>1. DOMAIN Order = 1..3 /\ Order[1] = "mla" /\ Order[2] = "mamba" /\ Order[3] = "swa"
  BY DEF Order
<1>2. 1..3 = {1, 2, 3}
  OBVIOUS
<1> QED BY <1>1, <1>2 DEF Groups, Range

\* A checkpoint names its group, its prompt and its place.
LEMMA KeyIs ==
  ASSUME NEW g \in Groups, NEW p \in Prompts, NEW i \in 1..Len(p)
  PROVE  /\ Key(g, p, i) \in Checkpoint /\ Key(g, p, i) # None /\ Key(g, p, i)[1] = g
         /\ \A h \in Groups, j \in 1..Len(p) : Key(g, p, i) = Key(h, p, j) => g = h /\ i = j
<1>1. p \in Seq(Segments)
  BY PrefixCacheAssumption
<1>2. \A j \in 1..Len(p) : SubSeq(p, 1, j) \in Seq(Segments) /\ Len(SubSeq(p, 1, j)) = j
  BY <1>1
<1>3. Key(g, p, i) # None
  BY DEF Key, None
<1> QED BY <1>2, <1>3 DEF Key, Checkpoint

NewBlocks(o) == [mla |-> Head(o.free), mamba |-> Head(Take(o).free), swa |-> Head(Take(Take(o)).free)]

\* The three blocks bs of o were nobody's; r holds them in n, hashed if it
\* stores.  The queue is all hashed when one of them was.
Grown(o, u, r, p, i, bs, n) ==
  /\ \A g \in Groups : bs[g] \in Blocks /\ u[bs[g]] = {}
  /\ \A g, h \in Groups : bs[g] = bs[h] => g = h
  /\ PoolOk(n, [b \in Blocks |-> IF \E g \in Groups : bs[g] = b THEN {r} ELSE u[b]])
  /\ \A b \in Blocks : (\A g \in Groups : bs[g] # b) => n.hash[b] = o.hash[b]
  /\ \A g \in Groups : n.hash[bs[g]] = IF nostore[r] \/ ~Retained(g, p, i) THEN None ELSE Key(g, p, i)
  /\ (\E g \in Groups : o.hash[bs[g]] # None) => \A j \in 1..Len(n.free) : n.hash[n.free[j]] # None

LEMMA GrowOk ==
  ASSUME NEW o, NEW u, PoolOk(o, u), Len(o.free) >= 3, NEW r \in Reqs, NEW p \in Prompts, NEW i \in 1..Len(p)
  PROVE  Grown(o, u, r, p, i, NewBlocks(o), CacheFull(Take(Take(Take(o))), r, p, i, NewBlocks(o)))
<1> DEFINE bs == NewBlocks(o)
           o1 == Take(o)
           o2 == Take(o1)
           o3 == Take(o2)
           n == CacheFull(o3, r, p, i, bs)
           b1 == Head(o.free)
           b2 == Head(o1.free)
           b3 == Head(o2.free)
           u1 == [u EXCEPT ![b1] = {r}]
           u2 == [u1 EXCEPT ![b2] = {r}]
           u3 == [u2 EXCEPT ![b3] = {r}]
           v == [b \in Blocks |-> IF \E g \in Groups : bs[g] = b THEN {r} ELSE u[b]]
<1>0. bs = [mla |-> b1, mamba |-> b2, swa |-> b3]
  BY DEF NewBlocks
<1>0a. n = IF nostore[r] THEN o3 ELSE CacheRegardless(o3, r, p, i, bs)
  BY DEF CacheFull
<1>0b. o \in PoolType /\ Len(o.free) \in Nat /\ u \in [Blocks -> SUBSET Reqs]
  BY DEF PoolOk, PoolType
<1>1. /\ b1 \in Blocks /\ u[b1] = {} /\ PoolOk(o1, u1) /\ Len(o1.free) = Len(o.free) - 1
      /\ o1.hash = [o.hash EXCEPT ![b1] = None]
      /\ o.hash[b1] # None => \A j \in 1..Len(o1.free) : o1.hash[o1.free[j]] # None
  <2>1. Len(o.free) > 0
    BY <1>0b
  <2> QED BY <2>1, TakeOk
<1> HIDE DEF o1, b1
<1>2. /\ b2 \in Blocks /\ u1[b2] = {} /\ PoolOk(o2, u2) /\ Len(o2.free) = Len(o.free) - 2
      /\ o2.hash = [o1.hash EXCEPT ![b2] = None]
      /\ o1.hash[b2] # None => \A j \in 1..Len(o2.free) : o2.hash[o2.free[j]] # None
  <2> HIDE DEF u1
  <2>1. Len(o1.free) > 0 /\ PoolOk(o1, u1)
    BY <1>0b, <1>1
  <2>2. Len(o2.free) = Len(o1.free) - 1 => Len(o2.free) = Len(o.free) - 2
    BY <1>0b, <1>1
  <2>3. Len(o2.free) = Len(o1.free) - 1
    BY <2>1, TakeOk
  <2> QED BY <2>1, <2>2, <2>3, TakeOk
<1> HIDE DEF o2, b2
<1>3. /\ b3 \in Blocks /\ u2[b3] = {} /\ PoolOk(o3, u3) /\ Len(o3.free) = Len(o.free) - 3
      /\ o3.hash = [o2.hash EXCEPT ![b3] = None]
      /\ o2.hash[b3] # None => \A j \in 1..Len(o3.free) : o3.hash[o3.free[j]] # None
  <2> HIDE DEF u2
  <2>1. Len(o2.free) > 0 /\ PoolOk(o2, u2)
    BY <1>0b, <1>2
  <2>2. Len(o3.free) = Len(o2.free) - 1 => Len(o3.free) = Len(o.free) - 3
    BY <1>0b, <1>2
  <2>3. Len(o3.free) = Len(o2.free) - 1
    BY <2>1, TakeOk
  <2> QED BY <2>1, <2>2, <2>3, TakeOk
<1> HIDE DEF o3, b3
<1>4. b1 # b2 /\ b1 # b3 /\ b2 # b3 /\ u[b2] = {} /\ u[b3] = {}
  BY <1>0b, <1>1, <1>2, <1>3
<1>5. \A g \in Groups : bs[g] \in {b1, b2, b3} /\ u[bs[g]] = {} /\ bs[g] \in Blocks
  BY <1>0, <1>1, <1>2, <1>3, <1>4, GroupsAre
<1>6. \A g, h \in Groups : bs[g] = bs[h] => g = h
  BY <1>0, <1>4, GroupsAre
<1>7. \A b : (\E g \in Groups : bs[g] = b) <=> b \in {b1, b2, b3}
  BY <1>0, GroupsAre
<1>8. u3 = v
  <2>1. u3 \in [Blocks -> SUBSET Reqs] /\ v = [b \in Blocks |-> IF b \in {b1, b2, b3} THEN {r} ELSE u[b]]
    <3>1. u3 \in [Blocks -> SUBSET Reqs]
      <4> HIDE DEF u3
      <4> QED BY <1>3 DEF PoolOk
    <3>2. v = [b \in Blocks |-> IF b \in {b1, b2, b3} THEN {r} ELSE u[b]]
      BY <1>7
    <3> QED BY <3>1, <3>2
  <2>2. \A b \in Blocks : u3[b] = IF b \in {b1, b2, b3} THEN {r} ELSE u[b]
    BY <1>0b, <1>1, <1>2, <1>3
  <2> HIDE DEF u3, v
  <2> QED BY <2>1, <2>2
<1>8a. \A b \in Blocks : b \notin {b1, b2, b3} => u1[b] = u[b] /\ u2[b] = u[b] /\ v[b] = u[b]
  <2>1. \A b \in Blocks : b # b1 => u1[b] = u[b]
    BY <1>0b
  <2>2. \A b \in Blocks : b # b2 => u2[b] = u1[b]
    BY <1>0b
  <2>3. \A b \in Blocks : b \notin {b1, b2, b3} => v[b] = u[b]
    BY <1>7
  <2> HIDE DEF u1, u2, v
  <2> QED BY <2>1, <2>2, <2>3
<1>9. /\ o3 \in PoolType /\ o3.free \in Seq(Blocks) /\ o3.hash \in [Blocks -> Checkpoint \cup {None}]
      /\ o.hash \in [Blocks -> Checkpoint \cup {None}]
  BY <1>0b, <1>3 DEF PoolOk, PoolType
<1>10. /\ \A b \in Blocks : b \notin {b1, b2, b3} => o3.hash[b] = o.hash[b]
       /\ o3.hash[b1] = None /\ o3.hash[b2] = None /\ o3.hash[b3] = None
       /\ o1.hash[b2] = o.hash[b2] /\ o2.hash[b3] = o.hash[b3]
  BY <1>1, <1>2, <1>3, <1>4, <1>9
<1>11. \A j \in 1..Len(o3.free) : o3.free[j] \in Blocks /\ \A g \in Groups : bs[g] # o3.free[j]
  <2> TAKE j \in 1..Len(o3.free)
  <2>1. o3.free[j] \in Blocks /\ Occurs(o3.free, o3.free[j])
    BY <1>9 DEF Occurs
  <2>2. v[o3.free[j]] = {}
    BY <1>3, <1>8, <2>1 DEF PoolOk
  <2> QED BY <2>1, <2>2
<1>12. (\E g \in Groups : o.hash[bs[g]] # None) => \A j \in 1..Len(o3.free) : o3.hash[o3.free[j]] # None
  <2>2. ASSUME NEW j \in 1..Len(o3.free), o.hash[b1] # None PROVE o3.hash[o3.free[j]] # None
    <3>1. o3.free[j] \in Blocks /\ o3.free[j] \notin {b1, b2, b3} /\ Occurs(o3.free, o3.free[j])
      BY <1>7, <1>11 DEF Occurs
    <3>2. v[o3.free[j]] = {} /\ u1[o3.free[j]] = {}
      <4>1. v[o3.free[j]] = {}
        BY <1>3, <1>8, <3>1 DEF PoolOk
      <4>2. u1[o3.free[j]] = u[o3.free[j]] /\ v[o3.free[j]] = u[o3.free[j]]
        BY <1>8a, <3>1, Zenon
      <4> QED BY <4>1, <4>2
    <3>3. Occurs(o1.free, o3.free[j])
      BY <1>1, <3>1, <3>2 DEF PoolOk
    <3>4. o1.hash[o3.free[j]] # None
      BY <1>1, <2>2, <3>3 DEF Occurs
    <3> QED BY <1>2, <1>3, <1>1, <1>9, <3>1, <3>4
  <2>3. ASSUME NEW j \in 1..Len(o3.free), o.hash[b2] # None PROVE o3.hash[o3.free[j]] # None
    <3>1. o3.free[j] \in Blocks /\ o3.free[j] \notin {b1, b2, b3} /\ Occurs(o3.free, o3.free[j])
      BY <1>7, <1>11 DEF Occurs
    <3>2. v[o3.free[j]] = {} /\ u2[o3.free[j]] = {}
      <4>1. v[o3.free[j]] = {}
        BY <1>3, <1>8, <3>1 DEF PoolOk
      <4>2. u2[o3.free[j]] = u[o3.free[j]] /\ v[o3.free[j]] = u[o3.free[j]]
        BY <1>8a, <3>1, Zenon
      <4> QED BY <4>1, <4>2
    <3>3. Occurs(o2.free, o3.free[j])
      BY <1>2, <3>1, <3>2 DEF PoolOk
    <3>4. o2.hash[o3.free[j]] # None
      BY <1>2, <1>10, <2>3, <3>3 DEF Occurs
    <3> QED BY <1>2, <1>3, <1>1, <1>9, <3>1, <3>4
  <2>4. ASSUME NEW j \in 1..Len(o3.free), o.hash[b3] # None PROVE o3.hash[o3.free[j]] # None
    BY <1>3, <1>10, <2>4
  <2> QED BY <1>5, <2>2, <2>3, <2>4
<1>13. ASSUME nostore[r]
       PROVE  /\ PoolOk(n, v)
              /\ \A b \in Blocks : (\A g \in Groups : bs[g] # b) => n.hash[b] = o.hash[b]
              /\ \A g \in Groups : n.hash[bs[g]] = IF nostore[r] \/ ~Retained(g, p, i) THEN None ELSE Key(g, p, i)
              /\ (\E g \in Groups : o.hash[bs[g]] # None) => \A j \in 1..Len(n.free) : n.hash[n.free[j]] # None
  <2>1. n = o3
    BY <1>0a, <1>13
  <2>2. \A g \in Groups : n.hash[bs[g]] = None
    BY <1>5, <1>10, <2>1
  <2>3. \A b \in Blocks : (\A g \in Groups : bs[g] # b) => n.hash[b] = o.hash[b]
    BY <1>7, <1>10, <2>1
  <2>4. PoolOk(n, v)
    BY <1>3, <1>8, <2>1
  <2>5. (\E g \in Groups : o.hash[bs[g]] # None) => \A j \in 1..Len(n.free) : n.hash[n.free[j]] # None
    BY <1>12, <2>1
  <2>6. \A g \in Groups : n.hash[bs[g]] = IF nostore[r] \/ ~Retained(g, p, i) THEN None ELSE Key(g, p, i)
    BY <1>13, <2>2
  <2> HIDE DEF n, v, bs
  <2> QED BY <2>3, <2>4, <2>5, <2>6
<1>14. ASSUME ~nostore[r]
       PROVE  /\ PoolOk(n, v)
              /\ \A b \in Blocks : (\A g \in Groups : bs[g] # b) => n.hash[b] = o.hash[b]
              /\ \A g \in Groups : n.hash[bs[g]] = IF nostore[r] \/ ~Retained(g, p, i) THEN None ELSE Key(g, p, i)
              /\ (\E g \in Groups : o.hash[bs[g]] # None) => \A j \in 1..Len(n.free) : n.hash[n.free[j]] # None
  <2> DEFINE H == [b \in Blocks |-> IF \E g \in Groups : bs[g] = b /\ Retained(g, p, i)
                                    THEN Key(CHOOSE g \in Groups : bs[g] = b, p, i) ELSE o3.hash[b]]
  <2>1. n = [o3 EXCEPT !.hash = H]
    BY <1>0a, <1>14 DEF CacheRegardless
  <2>2. \A g \in Groups : (CHOOSE h \in Groups : bs[h] = bs[g]) = g
    BY <1>6
  <2>3. \A g \in Groups : H[bs[g]] = IF ~Retained(g, p, i) THEN None ELSE Key(g, p, i)
    <3> TAKE g \in Groups
    <3>1. bs[g] \in Blocks /\ o3.hash[bs[g]] = None
      BY <1>5, <1>10
    <3>2. (\E h \in Groups : bs[h] = bs[g] /\ Retained(h, p, i)) <=> Retained(g, p, i)
      BY <1>6
    <3> QED BY <2>2, <3>1, <3>2
  <2>4. \A b \in Blocks : (\A g \in Groups : bs[g] # b) => H[b] = o3.hash[b]
    OBVIOUS
  <2>5. H \in [Blocks -> Checkpoint \cup {None}]
    <3>1. \A b \in Blocks : H[b] \in Checkpoint \cup {None}
      <4> TAKE b \in Blocks
      <4>1. CASE \A g \in Groups : bs[g] # b
        BY <1>9, <2>4, <4>1
      <4>2. ASSUME NEW g \in Groups, bs[g] = b PROVE H[b] \in Checkpoint \cup {None}
        BY <2>3, <4>2, KeyIs
      <4> QED BY <4>1, <4>2
    <3>2. H = [b \in Blocks |-> H[b]]
      OBVIOUS
    <3> HIDE DEF H
    <3> QED BY <3>1, <3>2
  <2> HIDE DEF H, n, bs
  <2>6. n \in PoolType /\ n.hash = H /\ n.ref = o3.ref /\ n.free = o3.free
    BY <1>9, <2>1, <2>5 DEF PoolType
  <2>7. \A j \in 1..Len(o3.free) : H[o3.free[j]] = o3.hash[o3.free[j]]
    BY <1>11, <2>4
  <2>8. PoolOk(n, u3)
    <3>1. Sorted(o3.free, H)
      BY <1>3, <2>7 DEF PoolOk, Sorted
    <3> HIDE DEF u3
    <3> QED BY <1>3, <2>6, <3>1 DEF PoolOk
  <2>9. \A b \in Blocks : (\A g \in Groups : bs[g] # b) => n.hash[b] = o.hash[b]
    BY <1>7, <1>10, <2>4, <2>6
  <2>10. PoolOk(n, v)
    BY <1>8, <2>8
  <2>11. (\E g \in Groups : o.hash[bs[g]] # None) => \A j \in 1..Len(n.free) : n.hash[n.free[j]] # None
    BY <1>12, <2>6, <2>7
  <2>12. \A g \in Groups : n.hash[bs[g]] = IF nostore[r] \/ ~Retained(g, p, i) THEN None ELSE Key(g, p, i)
    BY <1>14, <2>3, <2>6
  <2> HIDE DEF v
  <2> QED BY <2>9, <2>10, <2>11, <2>12
<1> QED BY <1>5, <1>6, <1>13, <1>14, Zenon DEF Grown, n, bs, o3, o2, o1

----------------------------------------------------------------------------
(* What a lookup finds                                                     *)

Run(p, n) == \A j \in 1..n : Stored(Key("mla", p, j))
StateAt(g, p, n) == n = 0 \/ Stored(Key(g, p, n))

\* The search for MLA ends at the longest unbroken run.
LEMMA MlaFindIs ==
  ASSUME NEW p, NEW n \in Nat
  PROVE  LET f == MlaFind(p, n)
         IN  f \in 0..n /\ Run(p, f) /\ \A j \in (f + 1)..n : ~Run(p, j)
<1> DEFINE T == {i \in 0..n : Run(p, i)}
<1>1. 0 \in T
  BY DEF Run
<1>2. Max(T) \in T /\ \A y \in T : Max(T) >= y
  <2>1. T \in SUBSET (0..n) /\ T # {}
    BY <1>1
  <2> HIDE DEF T
  <2> QED BY <2>1, MaxOfBounded
<1>3. \E i \in 0..n : Run(p, i) /\ \A j \in (i + 1)..n : ~Run(p, j)
  <2> DEFINE m == Max(T)
  <2>1. m \in 0..n /\ Run(p, m) /\ \A y \in 0..n : Run(p, y) => m >= y
    BY <1>2
  <2> HIDE DEF m
  <2>2. \A j \in (m + 1)..n : j \in 0..n /\ ~(m >= j)
    BY <2>1
  <2> QED BY <2>1, <2>2
<1>4. MlaFind(p, n) = CHOOSE i \in 0..n : Run(p, i) /\ \A j \in (i + 1)..n : ~Run(p, j)
  BY Zenon DEF MlaFind, Longest, Run
<1> QED BY <1>3, <1>4

\* The search for a state ends at the last one.
LEMMA StateFindIs ==
  ASSUME NEW g, NEW p, NEW n \in Nat
  PROVE  LET f == StateFind(g, p, n)
         IN  f \in 0..n /\ StateAt(g, p, f) /\ \A j \in (f + 1)..n : ~StateAt(g, p, j)
<1> DEFINE T == {i \in 0..n : StateAt(g, p, i)}
<1>1. 0 \in T
  BY DEF StateAt
<1>2. Max(T) \in T /\ \A y \in T : Max(T) >= y
  <2>1. T \in SUBSET (0..n) /\ T # {}
    BY <1>1
  <2> HIDE DEF T
  <2> QED BY <2>1, MaxOfBounded
<1>3. \E i \in 0..n : StateAt(g, p, i) /\ \A j \in (i + 1)..n : ~StateAt(g, p, j)
  <2> DEFINE m == Max(T)
  <2>1. m \in 0..n /\ StateAt(g, p, m) /\ \A y \in 0..n : StateAt(g, p, y) => m >= y
    BY <1>2
  <2> HIDE DEF m
  <2>2. \A j \in (m + 1)..n : j \in 0..n /\ ~(m >= j)
    BY <2>1
  <2> QED BY <2>1, <2>2
<1>4. StateFind(g, p, n) = CHOOSE i \in 0..n : StateAt(g, p, i) /\ \A j \in (i + 1)..n : ~StateAt(g, p, j)
  BY Zenon DEF StateFind, Longest, StateAt
<1> QED BY <1>3, <1>4

\* The state of the loop, and what is so after a pass.
Loop(p) == [hit : 0..(Len(p) - 1), draft : 0..(Len(p) - 1), longest : 0..(Len(p) - 1)]
Start(p) == [hit |-> Len(p) - 1, draft |-> 0, longest |-> 0]

Reconciled(s, p) ==
  /\ s \in Loop(p) /\ s.hit <= s.longest
  /\ Run(p, s.longest) /\ \A j \in (s.longest + 1)..(Len(p) - 1) : ~Run(p, j)
  /\ StateAt("mamba", p, s.hit) /\ \A j \in (s.hit + 1)..s.longest : ~StateAt("mamba", p, j)
  /\ s.draft \in {0, s.hit} /\ StateAt("swa", p, s.draft)

\* The passes after the first change nothing but the drafter's window.
LEMMA PassIs ==
  ASSUME NEW p \in Prompts, NEW s, s = Start(p) \/ Reconciled(s, p), NEW pop \in BOOLEAN
  PROVE  Reconciled(Pass(s, p, pop), p)
<1> DEFINE N == Len(p) - 1
           a == Visit(s, "mla", p, pop)
           b == Visit(a, "mamba", p, pop)
           c == Visit(b, "swa", p, pop)
           m == MlaFind(p, s.hit)
           n == StateFind("mamba", p, a.hit)
           f == StateFind("swa", p, b.hit)
           d == IF pop /\ f > 0 THEN f - 1 ELSE f
<1>1. N \in Nat
  <2>1. p \in Seq(Segments) /\ p # << >>
    BY PrefixCacheAssumption
  <2> QED BY <2>1
<1>2. s \in Loop(p) /\ s.hit \in 0..N /\ s.longest \in 0..N /\ s.draft \in 0..N
  BY <1>1 DEF Start, Loop, Reconciled
<1>3. m \in 0..s.hit /\ Run(p, m) /\ \A j \in (m + 1)..s.hit : ~Run(p, j)
  <2>1. s.hit \in Nat
    BY <1>2
  <2> QED BY <2>1, MlaFindIs
<1>4. Pass(s, p, pop) = c
  BY DEF Pass, Order
<1>5. a = [s EXCEPT !.hit = m, !.longest = IF m > s.longest THEN m ELSE s.longest]
  BY <1>2 DEF Visit, Loop
<1> HIDE DEF a, m
<1>6. a \in Loop(p) /\ a.hit = m /\ a.draft = s.draft /\ a.longest = IF m > s.longest THEN m ELSE s.longest
  <2>1. m \in 0..N /\ m \in Nat /\ s.longest \in Nat
    BY <1>1, <1>2, <1>3
  <2> QED BY <1>2, <1>5, <2>1 DEF Loop
<1>7. n \in 0..m /\ StateAt("mamba", p, n) /\ \A j \in (n + 1)..m : ~StateAt("mamba", p, j)
  <2>1. m \in Nat
    BY <1>3
  <2> QED BY <1>6, <2>1, StateFindIs
<1>8. b = [a EXCEPT !.hit = n, !.longest = IF n > a.longest THEN n ELSE a.longest]
  BY <1>6 DEF Visit, Loop
<1> HIDE DEF b, n
<1>9. a.longest >= m /\ a.longest \in 0..N /\ n <= m
  BY <1>1, <1>2, <1>3, <1>6, <1>7
<1>10. b \in Loop(p) /\ b.hit = n /\ b.draft = s.draft /\ b.longest = a.longest
  <2>1. n \in 0..N /\ n \in Nat /\ ~(n > a.longest)
    BY <1>1, <1>2, <1>3, <1>7, <1>9
  <2> QED BY <1>6, <1>8, <2>1 DEF Loop
<1>11. f \in 0..n /\ StateAt("swa", p, f)
  <2>1. n \in Nat
    BY <1>7
  <2> QED BY <1>10, <2>1, StateFindIs
<1>12. c = IF d >= n THEN [b EXCEPT !.draft = d] ELSE b
  BY <1>10 DEF Visit, DraftFinds
<1> HIDE DEF c
<1>13. d >= n => d = n /\ d = f
  BY <1>7, <1>11
<1>14. d >= n => c = [b EXCEPT !.draft = n] /\ StateAt("swa", p, n)
  BY <1>11, <1>12, <1>13
<1>15. ~(d >= n) => c = b
  BY <1>12
<1> HIDE DEF d, f
<1>16. c \in Loop(p) /\ c.hit = n /\ c.longest = a.longest /\ (c.draft = s.draft \/ (c.draft = n /\ StateAt("swa", p, n)))
  <2>1. n \in 0..N
    BY <1>1, <1>2, <1>3, <1>7
  <2> QED BY <1>10, <1>14, <1>15, <2>1 DEF Loop
<1>17. CASE s = Start(p)
  <2>1. s.hit = N /\ s.draft = 0 /\ s.longest = 0
    BY <1>17 DEF Start
  <2>2. a.longest = m
    BY <1>3, <1>6, <2>1
  <2>3. StateAt("swa", p, 0)
    BY DEF StateAt
  <2> QED BY <1>3, <1>4, <1>7, <1>16, <2>1, <2>2, <2>3 DEF Reconciled
<1>18. CASE Reconciled(s, p)
  <2>1. Run(p, s.hit)
    BY <1>2, <1>18 DEF Reconciled, Run
  <2>2. m = s.hit
    <3>1. m < s.hit => s.hit \in (m + 1)..s.hit
      BY <1>2, <1>3
    <3> QED BY <1>2, <1>3, <2>1, <3>1
  <2>3. n = s.hit
    <3>1. n < s.hit => s.hit \in (n + 1)..m
      BY <1>2, <1>7, <2>2
    <3> QED BY <1>2, <1>7, <1>18, <2>2, <3>1 DEF Reconciled
  <2>4. a.longest = s.longest
    BY <1>2, <1>6, <1>18, <2>2 DEF Reconciled
  <2>5. c.draft \in {0, c.hit} /\ StateAt("swa", p, c.draft)
    BY <1>16, <1>18, <2>3 DEF Reconciled
  <2> QED BY <1>4, <1>16, <1>18, <2>3, <2>4, <2>5 DEF Reconciled
<1> QED BY <1>17, <1>18

\* The hit of a lookup is the longest prefix with both checkpoints.
LEMMA ReconcileIs ==
  ASSUME NEW p \in Prompts, NEW pop \in BOOLEAN
  PROVE  Reconciled(Reconcile(p, pop), p)
<1> DEFINE m == Len(p)
           F == [k \in 1..m |-> [x \in {Start(p)} \cup {y \in Loop(p) : Reconciled(y, p)} |-> Pass(x, p, pop /\ k = 1)]]
           S == {Start(p)} \cup {y \in Loop(p) : Reconciled(y, p)}
<1>1. m \in Nat /\ m >= 1
  <2>1. p \in Seq(Segments) /\ p # << >>
    BY PrefixCacheAssumption
  <2> QED BY <2>1
<1>2. ASSUME NEW x \in S, NEW k PROVE Reconciled(Pass(x, p, pop /\ k = 1), p) /\ Pass(x, p, pop /\ k = 1) \in S
  <2>1. (pop /\ k = 1) \in BOOLEAN
    OBVIOUS
  <2>2. Reconciled(Pass(x, p, pop /\ k = 1), p)
    BY <2>1, PassIs
  <2> QED BY <2>2 DEF Reconciled
<1>3. F \in [1..m -> [S -> S]] /\ Start(p) \in S /\ \A k \in 1..m, x \in S : F[k][x] = Pass(x, p, pop /\ k = 1)
  BY <1>2
<1> HIDE DEF F
<1>4. PICK h : Iterates(h, m, S, Start(p), F)
  BY <1>1, <1>3, Iterated
<1> HIDE DEF S
<1>5. h = [k \in 0..m |-> IF k = 0 THEN Start(p) ELSE Pass(h[k - 1], p, pop /\ k = 1)]
  <2>1. h \in [0..m -> S] /\ h = [k \in 0..m |-> IF k = 0 THEN Start(p) ELSE F[k][h[k - 1]]]
    BY <1>4 DEF Iterates
  <2>2. ASSUME NEW k \in 1..m PROVE F[k][h[k - 1]] = Pass(h[k - 1], p, pop /\ k = 1)
    <3>1. k - 1 \in 0..m
      BY <1>1
    <3> QED BY <1>3, <2>1, <3>1
  <2>3. \A k \in 0..m : k = 0 \/ k \in 1..m
    BY <1>1
  <2> QED BY <2>1, <2>2, <2>3
<1> DEFINE pass[k \in 0..Len(p)] ==
             IF k = 0 THEN [hit |-> Len(p) - 1, draft |-> 0, longest |-> 0]
             ELSE Pass(pass[k - 1], p, pop /\ k = 1)
<1>6. pass = [k \in 0..m |-> IF k = 0 THEN Start(p) ELSE Pass(pass[k - 1], p, pop /\ k = 1)]
  BY <1>5 DEF Start
<1>7. Reconcile(p, pop) = pass[m]
  BY DEF Reconcile
<1> HIDE DEF pass
<1> DEFINE B == {k \in 0..m : pass[k] \in S /\ (k > 0 => Reconciled(pass[k], p))}
<1>8. 0 \in B
  BY <1>1, <1>3, <1>6
<1>9. ASSUME NEW k \in 1..m, k - 1 \in B PROVE k \in B
  <2>1. k \in 0..m /\ k # 0 /\ pass[k - 1] \in S
    BY <1>1, <1>9
  <2>2. pass[k] = Pass(pass[k - 1], p, pop /\ k = 1)
    BY <1>6, <2>1
  <2> QED BY <1>2, <2>1, <2>2
<1>10. m \in B
  <2>1. m \in 0..m
    BY <1>1
  <2> HIDE DEF B, m
  <2>2. \A k \in 0..m : k \in B
    BY <1>1, <1>8, <1>9, UpTo
  <2> QED BY <2>1, <2>2
<1> QED BY <1>1, <1>7, <1>10

----------------------------------------------------------------------------
(* Tables and who holds what                                               *)

Row == [Groups -> Seq(Blocks \cup {0})]

Names(row, b) == \E g \in Groups : Occurs(row[g], b)

\* A block has one place in a row.
Once(row) ==
  \A g, k \in Groups : \A i \in 1..Len(row[g]), j \in 1..Len(row[k]) :
    row[g][i] # 0 /\ row[g][i] = row[k][j] => g = k /\ i = j

\* The row of a request for the first n segments of p, with the hashes h.
RowOk(row, p, n, h) ==
  /\ row \in Row /\ Once(row)
  /\ \A g \in Groups : Len(row[g]) = n
  /\ \A i \in 1..n : row["mla"][i] # 0
  /\ \A g \in Groups, i \in 1..n : row[g][i] # 0 => h[row[g][i]] \in {None, Key(g, p, i)}

\* The holders of each block when the row of r is row.
Held(r, row) == [b \in Blocks |-> {q \in Reqs : IF q = r THEN Names(row, b) ELSE Names(table[q], b)}]
Holders == [b \in Blocks |-> {q \in Reqs : Names(table[q], b)}]

TypeOK ==
  /\ asked \in [Reqs -> Prompts \cup {<< >>}] /\ nostore \in [Reqs -> BOOLEAN]
  /\ table \in [Reqs -> Row] /\ cached \in [Reqs -> Nat]
  /\ misses \in Nat /\ lost \in Nat /\ peak \in Nat /\ asks \in 0..MaxAsks

RowsOk(h) == \A q \in Reqs : RowOk(table[q], asked[q], cached[q], h) /\ cached[q] <= Len(asked[q])

\* What was evicted for requests that store nothing has no hash now.
Plain(h) == {b \in Blocks : h[b] = None}
CostOk == lost <= Cardinality(Plain(pool.hash)) /\ lost <= peak

IInv == TypeOK /\ PoolOk(pool, Holders) /\ RowsOk(pool.hash) /\ CostOk

\* The holders of a block, with the row of r in its place.
LEMMA HeldIs ==
  ASSUME NEW r \in Reqs
  PROVE  Held(r, table[r]) = Holders
BY DEF Held, Holders

LEMMA BlockIsNotZero == \A b \in Blocks : b # 0
  BY DEF Blocks

\* new is row without the blocks bs.
Leaves(row, bs, new) ==
  /\ \A i, j \in 1..Len(bs) : bs[i] # 0 /\ bs[i] = bs[j] => i = j
  /\ \A i \in 1..Len(bs) : bs[i] # 0 => Names(row, bs[i])
  /\ \A b \in Blocks : Names(new, b) <=> Names(row, b) /\ ~Occurs(bs, b)

\* Blocks that r names are given back.
LEMMA FreeRow ==
  ASSUME NEW r \in Reqs, NEW row, NEW new, NEW o, PoolOk(o, Held(r, row)), NEW bs \in Seq(Blocks \cup {0}),
         Leaves(row, bs, new)
  PROVE  PoolOk(FreeBlocks(o, bs), Held(r, new)) /\ FreeBlocks(o, bs).hash = o.hash
<1> DEFINE u == Held(r, row)
           v == [b \in Blocks |-> IF Occurs(bs, b) THEN u[b] \ {r} ELSE u[b]]
           n == FreeBlocks(o, bs)
<1>1. \A b \in Blocks : u[b] = {q \in Reqs : IF q = r THEN Names(row, b) ELSE Names(table[q], b)}
  BY DEF Held
<1>1a. /\ \A i, j \in 1..Len(bs) : bs[i] # 0 /\ bs[i] = bs[j] => i = j
       /\ \A i \in 1..Len(bs) : bs[i] # 0 => Names(row, bs[i])
       /\ \A b \in Blocks : Names(new, b) <=> Names(row, b) /\ ~Occurs(bs, b)
  BY DEF Leaves
<1>2. \A i \in 1..Len(bs) : bs[i] # 0 => r \in u[bs[i]]
  BY <1>1, <1>1a
<1>3. PoolOk(n, v) /\ n.hash = o.hash
  <2> HIDE DEF u
  <2>1. PoolOk(o, u)
    BY DEF u
  <2> QED BY <1>1a, <1>2, <2>1, FreeOk
<1>4. v = Held(r, new)
  <2>1. ASSUME NEW b \in Blocks
        PROVE  v[b] = {q \in Reqs : IF q = r THEN Names(new, b) ELSE Names(table[q], b)}
    <3>1. v[b] = IF Occurs(bs, b) THEN u[b] \ {r} ELSE u[b]
      OBVIOUS
    <3> HIDE DEF v, u
    <3>2. ASSUME NEW q PROVE q \in v[b] <=> q \in Reqs /\ (IF q = r THEN Names(new, b) ELSE Names(table[q], b))
      <4>1. CASE q = r
        BY <1>1, <1>1a, <3>1, <4>1
      <4>2. CASE q # r
        <5>1. Occurs(bs, b) => Names(row, b)
          BY <1>1a, BlockIsNotZero DEF Occurs
        <5> QED BY <1>1, <3>1, <4>2, <5>1
      <4> QED BY <4>1, <4>2
    <3> QED BY <3>2
  <2>2. v = [b \in Blocks |-> v[b]]
    OBVIOUS
  <2> HIDE DEF v
  <2> QED BY <2>1, <2>2 DEF Held
<1> QED BY <1>3, <1>4

\* The blocks of one group are given back.
LEMMA FreeGroupOk ==
  ASSUME NEW r \in Reqs, table[r] \in Row, NEW row \in Row, Once(row), NEW o, PoolOk(o, Held(r, row)),
         NEW g \in Groups, row[g] = table[r][g]
  PROVE  LET n == FreeGroup(o, r, g)
             new == [row EXCEPT ![g] = << >>]
         IN  PoolOk(n, Held(r, new)) /\ n.hash = o.hash /\ new \in Row /\ Once(new)
<1> DEFINE s == row[g]
           bs == Reverse(s)
           new == [row EXCEPT ![g] = << >>]
<1>1. s \in Seq(Blocks \cup {0}) /\ Len(s) \in Nat
  BY DEF Row
<1>2. bs \in Seq(Blocks \cup {0}) /\ Len(bs) = Len(s) /\ \A i \in 1..Len(s) : bs[i] = s[Len(s) - i + 1]
  <2>1. \A i \in 1..Len(s) : Len(s) - i + 1 \in 1..Len(s)
    BY <1>1
  <2> QED BY <1>1, <2>1 DEF Reverse
<1>3. FreeGroup(o, r, g) = FreeBlocks(o, bs)
  BY DEF FreeGroup
<1>4. << >> \in Seq(Blocks \cup {0}) /\ Len(<< >>) = 0 /\ 1..0 = {}
  OBVIOUS
<1>5. new \in Row /\ new[g] = << >> /\ \A k \in Groups : k # g => new[k] = row[k]
  BY <1>4 DEF Row
<1>5a. row \in Row
  OBVIOUS
<1> HIDE DEF bs, new
<1>6. \A i \in 1..Len(s) : Len(s) - i + 1 \in 1..Len(s) /\ Len(s) - (Len(s) - i + 1) + 1 = i
  BY <1>1
<1>7. \A b : Occurs(bs, b) <=> Occurs(s, b)
  <2> TAKE b
  <2>1. ASSUME NEW i \in 1..Len(bs), bs[i] = b PROVE \E j \in 1..Len(s) : s[j] = b
    BY <1>2, <1>6, <2>1
  <2>2. ASSUME NEW j \in 1..Len(s), s[j] = b PROVE \E i \in 1..Len(bs) : bs[i] = b
    <3> DEFINE i == Len(s) - j + 1
    <3>1. i \in 1..Len(s) /\ Len(s) - i + 1 = j
      BY <1>6
    <3> HIDE DEF i
    <3> QED BY <1>2, <2>2, <3>1
  <2> QED BY <2>1, <2>2 DEF Occurs
<1>8. \A i, j \in 1..Len(bs) : bs[i] # 0 /\ bs[i] = bs[j] => i = j
  <2> TAKE i, j \in 1..Len(bs)
  <2>1. bs[i] # 0 /\ bs[i] = bs[j] => Len(s) - i + 1 = Len(s) - j + 1
    <3>1. \A k, l \in 1..Len(s) : s[k] # 0 /\ s[k] = s[l] => k = l
      BY DEF Once
    <3>2. bs[i] = s[Len(s) - i + 1] /\ bs[j] = s[Len(s) - j + 1]
      BY <1>2
    <3>3. Len(s) - i + 1 \in 1..Len(s) /\ Len(s) - j + 1 \in 1..Len(s)
      BY <1>2, <1>6
    <3> HIDE DEF s
    <3> QED BY <3>1, <3>2, <3>3
  <2> QED BY <1>1, <1>2, <2>1
<1>9. \A i \in 1..Len(bs) : bs[i] # 0 => Names(row, bs[i])
  <2> TAKE i \in 1..Len(bs)
  <2>1. Occurs(bs, bs[i])
    BY DEF Occurs
  <2> QED BY <1>7, <2>1 DEF Names
<1>10. \A b \in Blocks : Names(new, b) <=> Names(row, b) /\ ~Occurs(bs, b)
  <2> TAKE b \in Blocks
  <2>1. ASSUME NEW k \in Groups, Occurs(new[k], b) PROVE Names(row, b) /\ ~Occurs(bs, b)
    <3>1. k # g
      BY <1>4, <1>5, <2>1 DEF Occurs
    <3>2. Occurs(row[k], b)
      BY <1>5, <2>1, <3>1
    <3>3. ~Occurs(row[g], b)
      BY <3>1, <3>2, BlockIsNotZero DEF Occurs, Once
    <3> QED BY <1>7, <3>2, <3>3 DEF Names
  <2>2. ASSUME NEW k \in Groups, Occurs(row[k], b), ~Occurs(bs, b) PROVE Names(new, b)
    <3>1. k # g
      BY <1>7, <2>2
    <3> QED BY <1>5, <2>2, <3>1 DEF Names
  <2> QED BY <2>1, <2>2 DEF Names
<1>11. Once(new)
  <2> SUFFICES ASSUME NEW k \in Groups, NEW l \in Groups, NEW i \in 1..Len(new[k]), NEW j \in 1..Len(new[l]),
                      new[k][i] # 0, new[k][i] = new[l][j]
               PROVE  k = l /\ i = j
    BY DEF Once
  <2>1. k # g /\ l # g
    BY <1>4, <1>5
  <2>2. new[k] = row[k] /\ new[l] = row[l]
    BY <1>5, <2>1
  <2> QED BY <2>2 DEF Once
<1>12. PoolOk(FreeBlocks(o, bs), Held(r, new)) /\ FreeBlocks(o, bs).hash = o.hash
  <2>1. bs \in Seq(Blocks \cup {0}) /\ PoolOk(o, Held(r, row)) /\ r \in Reqs
    BY <1>2
  <2> HIDE DEF s
  <2>2. Leaves(row, bs, new)
    BY <1>8, <1>9, <1>10 DEF Leaves
  <2> QED BY <2>1, <2>2, FreeRow
<1> QED BY <1>3, <1>5, <1>11, <1>12 DEF new

\* All blocks of r are given back; no checkpoint is lost by it.
LEMMA ReleaseOk ==
  ASSUME IInv, NEW r \in Reqs, Release(r)
  PROVE  /\ PoolOk(pool', Holders') /\ pool'.hash = pool.hash
         /\ table' \in [Reqs -> Row] /\ cached' \in [Reqs -> Nat]
         /\ RowOk(table'[r], asked'[r], 0, pool'.hash) /\ cached'[r] = 0
         /\ \A g \in Groups : table'[r][g] = << >>
         /\ \A q \in Reqs : q # r => table'[q] = table[q] /\ cached'[q] = cached[q]
<1> DEFINE a == ReleaseOrder[1]
           b == ReleaseOrder[2]
           c == ReleaseOrder[3]
           o1 == FreeGroup(pool, r, a)
           o2 == FreeGroup(o1, r, b)
           o3 == FreeGroup(o2, r, c)
           row == table[r]
           row1 == [row EXCEPT ![a] = << >>]
           row2 == [row1 EXCEPT ![b] = << >>]
           row3 == [row2 EXCEPT ![c] = << >>]
           none == [g \in Groups |-> << >>]
<1>1. /\ pool' = o3 /\ table' = [table EXCEPT ![r] = none] /\ cached' = [cached EXCEPT ![r] = 0]
  BY DEF Release
<1>2. /\ table \in [Reqs -> Row] /\ cached \in [Reqs -> Nat] /\ row \in Row /\ Once(row)
      /\ PoolOk(pool, Held(r, row))
  BY HeldIs DEF IInv, TypeOK, RowsOk, RowOk
<1>3. {a, b, c} = Groups /\ a # b /\ a # c /\ b # c
  <2>1. DOMAIN ReleaseOrder = 1..3 /\ {ReleaseOrder[i] : i \in 1..3} = Groups
    BY PrefixCacheAssumption DEF Range
  <2>2. {ReleaseOrder[i] : i \in 1..3} = {a, b, c}
    OBVIOUS
  <2> HIDE DEF a, b, c
  <2> QED BY <2>1, <2>2, GroupsAre
<1> HIDE DEF a, b, c
<1>4. PoolOk(o1, Held(r, row1)) /\ o1.hash = pool.hash /\ row1 \in Row /\ Once(row1)
  BY <1>2, <1>3, FreeGroupOk
<1>5. row1[b] = row[b] /\ row1[c] = row[c] /\ row1[a] = << >>
  BY <1>2, <1>3 DEF Row
<1> HIDE DEF o1, row1
<1>6. PoolOk(o2, Held(r, row2)) /\ o2.hash = pool.hash /\ row2 \in Row /\ Once(row2)
  BY SMTT(30), <1>2, <1>3, <1>4, <1>5, FreeGroupOk
<1>7. row2[c] = row[c] /\ row2[a] = << >> /\ row2[b] = << >>
  BY <1>3, <1>4, <1>5 DEF Row
<1> HIDE DEF o2, row2
<1>8. PoolOk(o3, Held(r, row3)) /\ o3.hash = pool.hash /\ row3 \in Row /\ Once(row3)
  <2>1. c \in Groups /\ row2[c] = row[c] /\ row3 = [row2 EXCEPT ![c] = << >>]
    BY <1>3, <1>7 DEF row3
  <2> QED BY <1>2, <1>6, <2>1, FreeGroupOk DEF o3
<1>9. row3 = none
  BY <1>3, <1>6, <1>7 DEF Row
<1> HIDE DEF o3, row3
<1>10. /\ table' \in [Reqs -> Row] /\ cached' \in [Reqs -> Nat] /\ table'[r] = none /\ cached'[r] = 0
       /\ \A q \in Reqs : q # r => table'[q] = table[q] /\ cached'[q] = cached[q]
  BY <1>1, <1>2, <1>8, <1>9
<1>11. Holders' = Held(r, none)
  BY <1>10 DEF Holders, Held
<1>12. RowOk(none, asked'[r], 0, pool'.hash)
  <2>1. \A g \in Groups : none[g] = << >> /\ Len(none[g]) = 0
    OBVIOUS
  <2>2. none \in Row /\ Once(none)
    BY <1>8, <1>9
  <2>3. 1..0 = {}
    OBVIOUS
  <2> HIDE DEF none
  <2> QED BY <2>1, <2>2, <2>3 DEF RowOk
<1> QED BY <1>1, <1>8, <1>9, <1>10, <1>11, <1>12

\* Segment i of r gets its blocks.
LEMMA GrowIs ==
  ASSUME IInv, NEW r \in Reqs, NEW o, NEW t, asked[r] \in Prompts, NEW i \in 1..Len(asked[r]),
         o.hash = pool.hash, PoolOk(o, Held(r, t)), RowOk(t, asked[r], i - 1, pool.hash),
         Len(o.free) >= Len(Order), Grow(r, o, t, i)
  PROVE  LET bs == NewBlocks(o)
             n == [g \in Groups |-> Append(t[g], bs[g])]
         IN  /\ \A g \in Groups : bs[g] \in Blocks /\ ~Names(t, bs[g]) /\ \A q \in Reqs : q # r => ~Names(table[q], bs[g])
             /\ table' = [table EXCEPT ![r] = n] /\ cached' = [cached EXCEPT ![r] = i]
             /\ RowOk(n, asked[r], i, pool'.hash)
             /\ \A q \in Reqs : q # r => RowOk(table[q], asked[q], cached[q], pool'.hash)
             /\ PoolOk(pool', Holders')
             /\ \A b \in Blocks : (\A g \in Groups : bs[g] # b) => pool'.hash[b] = pool.hash[b]
             /\ \A g \in Groups :
                  pool'.hash[bs[g]] = IF nostore[r] \/ ~Retained(g, asked[r], i) THEN None ELSE Key(g, asked[r], i)
<1> DEFINE bs == NewBlocks(o)
           p == asked[r]
           n == [g \in Groups |-> Append(t[g], bs[g])]
           u == Held(r, t)
           v == [b \in Blocks |-> IF \E g \in Groups : bs[g] = b THEN {r} ELSE u[b]]
           H == pool'.hash
<1>1. /\ \A g \in Groups : bs[g] \in Blocks /\ u[bs[g]] = {}
      /\ \A g, h \in Groups : bs[g] = bs[h] => g = h
      /\ PoolOk(pool', v)
      /\ \A b \in Blocks : (\A g \in Groups : bs[g] # b) => H[b] = pool.hash[b]
      /\ \A g \in Groups : H[bs[g]] = IF nostore[r] \/ ~Retained(g, p, i) THEN None ELSE Key(g, p, i)
  <2>1. Len(o.free) >= 3
    BY DEF Order
  <2> DEFINE N == CacheFull(Take(Take(Take(o))), r, p, i, bs)
  <2>2. pool' = N
    BY DEF Grow, NewBlocks
  <2>3. PoolOk(o, u) /\ p \in Prompts /\ i \in 1..Len(p) /\ r \in Reqs
    OBVIOUS
  <2> HIDE DEF u, p, bs
  <2>4. Grown(o, u, r, p, i, bs, N)
    BY <2>1, <2>3, GrowOk DEF bs
  <2> HIDE DEF N, v
  <2> QED BY <2>2, <2>4 DEF Grown, v
<1>2. table' = [table EXCEPT ![r] = n] /\ cached' = [cached EXCEPT ![r] = i]
  BY DEF Grow, NewBlocks
<1>2a. n = [g \in Groups |-> Append(t[g], bs[g])]
  OBVIOUS
<1>2b. v = [b \in Blocks |-> IF \E g \in Groups : bs[g] = b THEN {r} ELSE u[b]]
  OBVIOUS
<1> HIDE DEF bs, H, n, v
<1>3. \A b \in Blocks : u[b] = {q \in Reqs : IF q = r THEN Names(t, b) ELSE Names(table[q], b)}
  BY DEF Held
<1> HIDE DEF u
<1>4. \A g \in Groups : ~Names(t, bs[g]) /\ \A q \in Reqs : q # r => ~Names(table[q], bs[g])
  BY <1>1, <1>3
<1>5. /\ t \in Row /\ Once(t) /\ (\A g \in Groups : Len(t[g]) = i - 1) /\ i \in Nat
      /\ (\A j \in 1..(i - 1) : t["mla"][j] # 0)
      /\ \A g \in Groups, j \in 1..(i - 1) : t[g][j] # 0 => pool.hash[t[g][j]] \in {None, Key(g, p, j)}
  BY DEF RowOk
<1>6. /\ n \in Row
      /\ \A g \in Groups : Len(n[g]) = i /\ n[g][i] = bs[g] /\ \A j \in 1..(i - 1) : n[g][j] = t[g][j]
  <2>1. ASSUME NEW g \in Groups
        PROVE  /\ n[g] \in Seq(Blocks \cup {0}) /\ Len(n[g]) = i /\ n[g][i] = bs[g]
               /\ \A j \in 1..(i - 1) : n[g][j] = t[g][j]
    <3>1. t[g] \in Seq(Blocks \cup {0}) /\ bs[g] \in Blocks \cup {0} /\ Len(t[g]) = i - 1
      BY <1>1, <1>5 DEF Row
    <3> QED BY <1>2a, <1>5, <3>1
  <2> QED BY <1>2a, <2>1 DEF Row
<1>7. \A j \in 1..i : j = i \/ j \in 1..(i - 1)
  BY <1>5
<1>8. \A b \in Blocks : Names(n, b) <=> Names(t, b) \/ \E g \in Groups : bs[g] = b
  <2> TAKE b \in Blocks
  <2>1. ASSUME NEW g \in Groups PROVE Occurs(n[g], b) <=> Occurs(t[g], b) \/ bs[g] = b
    <3>1. i \in 1..i /\ \A j \in 1..(i - 1) : j \in 1..i
      BY <1>5
    <3> QED BY <1>5, <1>6, <1>7, <2>1, <3>1 DEF Occurs
  <2> QED BY <2>1 DEF Names
<1>9. Once(n)
  <2> SUFFICES ASSUME NEW g \in Groups, NEW k \in Groups, NEW j \in 1..i, NEW l \in 1..i,
                      n[g][j] # 0, n[g][j] = n[k][l]
               PROVE  g = k /\ j = l
    BY <1>6 DEF Once
  <2>1. CASE j = i /\ l = i
    <3>1. n[g][i] = bs[g] /\ n[k][i] = bs[k]
      BY <1>6
    <3>2. bs[g] = bs[k]
      BY <2>1, <3>1
    <3>3. g = k
      BY <1>1, <3>2
    <3> QED BY <2>1, <3>3
  <2>2. CASE j \in 1..(i - 1) /\ l \in 1..(i - 1)
    <3>1. n[g][j] = t[g][j] /\ n[k][l] = t[k][l] /\ j \in 1..Len(t[g]) /\ l \in 1..Len(t[k])
      BY <1>5, <1>6, <2>2
    <3>2. t[g][j] # 0 /\ t[g][j] = t[k][l]
      BY <3>1
    <3> QED BY <1>5, <3>1, <3>2 DEF Once
  <2>3. ASSUME NEW f \in Groups, NEW e \in Groups, NEW m \in 1..(i - 1) PROVE t[f][m] # bs[e]
    BY <1>4, <1>5 DEF Names, Occurs
  <2>4. \A f \in Groups : n[f][i] = bs[f] /\ \A m \in 1..(i - 1) : n[f][m] = t[f][m]
    BY <1>6
  <2> QED BY <1>7, <2>1, <2>2, <2>3, <2>4
<1>10. \A q \in Reqs, b \in Blocks : (IF q = r THEN Names(t, b) ELSE Names(table[q], b)) => H[b] = pool.hash[b]
  BY <1>1, <1>4
<1>11. ASSUME NEW row \in Row, NEW g \in Groups, NEW j \in 1..Len(row[g]), row[g][j] # 0
       PROVE  row[g][j] \in Blocks /\ Names(row, row[g][j])
  BY <1>11 DEF Row, Names, Occurs
<1>12. RowOk(n, p, i, H)
  <2>1. \A j \in 1..i : n["mla"][j] # 0
    <3> TAKE j \in 1..i
    <3>1. "mla" \in Groups
      BY GroupsAre
    <3> QED BY SMTT(30), <1>1, <1>5, <1>6, <1>7, <3>1, BlockIsNotZero
  <2>2. ASSUME NEW g \in Groups, NEW j \in 1..i, n[g][j] # 0 PROVE H[n[g][j]] \in {None, Key(g, p, j)}
    <3>1. CASE j = i
      BY <1>1, <1>6, <3>1
    <3>2. CASE j \in 1..(i - 1)
      <4>1. t[g][j] # 0 /\ n[g][j] = t[g][j] /\ j \in 1..Len(t[g])
        BY <1>5, <1>6, <2>2, <3>2
      <4>2. H[t[g][j]] = pool.hash[t[g][j]]
        BY <1>5, <1>10, <1>11, <4>1
      <4> QED BY <1>5, <3>2, <4>1, <4>2
    <3> QED BY <1>7, <3>1, <3>2
  <2> QED BY <1>6, <1>9, <2>1, <2>2 DEF RowOk
<1>13. ASSUME NEW q \in Reqs, q # r PROVE RowOk(table[q], asked[q], cached[q], H)
  <2>1. RowOk(table[q], asked[q], cached[q], pool.hash)
    BY DEF IInv, RowsOk
  <2>2. ASSUME NEW g \in Groups, NEW j \in 1..cached[q], table[q][g][j] # 0
        PROVE  H[table[q][g][j]] \in {None, Key(g, asked[q], j)}
    <3>1. table[q] \in Row /\ j \in 1..Len(table[q][g])
      BY <2>1 DEF RowOk
    <3>2. H[table[q][g][j]] = pool.hash[table[q][g][j]]
      BY <1>10, <1>11, <1>13, <2>2, <3>1
    <3> QED BY <2>1, <2>2, <3>2 DEF RowOk
  <2> QED BY <2>1, <2>2 DEF RowOk
<1>14. Holders' = v
  <2>1. table \in [Reqs -> Row]
    BY DEF IInv, TypeOK
  <2>2. table'[r] = n /\ \A q \in Reqs : q # r => table'[q] = table[q]
    BY <1>2, <2>1
  <2>3. ASSUME NEW b \in Blocks PROVE v[b] = {q \in Reqs : Names(table'[q], b)}
    <3>1. v[b] = IF \E g \in Groups : bs[g] = b THEN {r} ELSE u[b]
      BY <1>2b
    <3>2. CASE \E g \in Groups : bs[g] = b
      BY <1>4, <1>8, <2>2, <3>1, <3>2
    <3>3. CASE ~\E g \in Groups : bs[g] = b
      BY <1>3, <1>8, <2>2, <3>1, <3>3
    <3> QED BY <3>2, <3>3
  <2>4. v = [b \in Blocks |-> v[b]]
    BY <1>2b
  <2> QED BY <2>3, <2>4 DEF Holders
<1> QED BY <1>1, <1>2, <1>4, <1>12, <1>13, <1>14 DEF bs, n, H

\* What a request that stores nothing evicts is plain afterwards, and when it
\* evicts at all the queue holds nothing plain.
LEMMA GrowCosts ==
  ASSUME IInv, NEW r \in Reqs, NEW o, NEW t, asked[r] \in Prompts, NEW i \in 1..Len(asked[r]),
         o.hash = pool.hash, PoolOk(o, Held(r, t)), Len(o.free) >= Len(Order), Grow(r, o, t, i)
  PROVE  lost' \in Nat /\ peak' \in Nat /\ CostOk'
<1> DEFINE bs == NewBlocks(o)
           G == {g \in Groups : o.hash[bs[g]] # None}
           gone == Cardinality(G)
           busy == Cardinality(InUse(pool'))
           X == Plain(pool.hash)
           Y == {bs[g] : g \in G}
           Z == Plain(pool'.hash)
           p == asked[r]
           u == Held(r, t)
           v == [b \in Blocks |-> IF \E g \in Groups : bs[g] = b THEN {r} ELSE u[b]]
<1>1. /\ \A g \in Groups : bs[g] \in Blocks
      /\ \A g, h \in Groups : bs[g] = bs[h] => g = h
      /\ PoolOk(pool', v)
      /\ \A b \in Blocks : (\A g \in Groups : bs[g] # b) => pool'.hash[b] = pool.hash[b]
      /\ \A g \in Groups : pool'.hash[bs[g]] = IF nostore[r] \/ ~Retained(g, p, i) THEN None ELSE Key(g, p, i)
      /\ G # {} => \A j \in 1..Len(pool'.free) : pool'.hash[pool'.free[j]] # None
  <2>1. Len(o.free) >= 3
    BY DEF Order
  <2> DEFINE N == CacheFull(Take(Take(Take(o))), r, p, i, bs)
  <2>2. pool' = N
    BY DEF Grow, NewBlocks
  <2>3. PoolOk(o, u) /\ p \in Prompts /\ i \in 1..Len(p) /\ r \in Reqs
    OBVIOUS
  <2> HIDE DEF u, p, bs
  <2>4. Grown(o, u, r, p, i, bs, N)
    BY <2>1, <2>3, GrowOk DEF bs
  <2>9. (G # {}) => \E g \in Groups : o.hash[bs[g]] # None
    OBVIOUS
  <2> HIDE DEF G, v, N
  <2> QED BY <2>2, <2>4, <2>9 DEF Grown, v
<1>2. lost' = (IF nostore[r] THEN lost + gone ELSE 0) /\ peak' = IF nostore[r] /\ peak > busy THEN peak ELSE busy
  BY DEF Grow, NewBlocks
<1>3. lost \in Nat /\ peak \in Nat /\ lost <= Cardinality(X) /\ lost <= peak
  <2>1. TypeOK /\ CostOk
    BY DEF IInv
  <2>2. lost <= Cardinality(Plain(pool.hash)) /\ lost <= peak
    BY <2>1 DEF CostOk
  <2> QED BY <2>1, <2>2 DEF TypeOK
<1>4. IsFiniteSet(Blocks)
  <2>1. 1 \in Int /\ NumBlocks \in Int
    BY PrefixCacheAssumption
  <2> QED BY <2>1, FS_Interval DEF Blocks
<1>5. X \in SUBSET Blocks /\ Z \in SUBSET Blocks /\ Y \in SUBSET Blocks /\ InUse(pool') \in SUBSET Blocks
  BY <1>1 DEF Plain, InUse
<1>6. /\ IsFiniteSet(X) /\ IsFiniteSet(Y) /\ IsFiniteSet(Z) /\ IsFiniteSet(InUse(pool'))
      /\ Cardinality(X) \in Nat /\ Cardinality(Y) \in Nat /\ Cardinality(Z) \in Nat /\ busy \in Nat
  <2> HIDE DEF X, Y, Z
  <2> QED BY <1>4, <1>5, FS_Subset, FS_CardinalityType
<1>7. gone = Cardinality(Y)
  <2> DEFINE f == [y \in Y |-> CHOOSE g \in G : bs[g] = y]
  <2>1. f \in [Y -> G] /\ \A y \in Y : bs[f[y]] = y
    OBVIOUS
  <2>2. \A g \in G : bs[g] \in Y /\ f[bs[g]] = g
    <3> TAKE g \in G
    <3>1. bs[g] \in Y
      OBVIOUS
    <3>2. f[bs[g]] \in Groups /\ bs[f[bs[g]]] = bs[g]
      BY <2>1, <3>1
    <3> QED BY <1>1, <3>1, <3>2
  <2> HIDE DEF f, Y, G, bs
  <2>3. f \in Bijection(Y, G)
    <3>1. f \in Injection(Y, G)
      <4>1. \A a, b \in Y : f[a] = f[b] => a = b
        BY <2>1
      <4>2. DOMAIN f = Y
        BY <2>1
      <4> QED BY <2>1, <4>1, <4>2 DEF Injection, IsInjective
    <3>2. f \in Surjection(Y, G)
      BY <2>1, <2>2 DEF Surjection
    <3> QED BY <3>1, <3>2 DEF Bijection
  <2>4. ExistsBijection(Y, G)
    BY <2>3 DEF ExistsBijection
  <2> QED BY <1>6, <2>4, FS_Bijection
<1>8. CASE ~nostore[r]
  <2>1. lost' = 0 /\ peak' = busy
    BY <1>2, <1>8
  <2> QED BY <1>6, <2>1 DEF CostOk
<1>9. CASE nostore[r]
  <2>1. lost' = lost + gone /\ peak' = IF peak > busy THEN peak ELSE busy
    BY <1>2, <1>9
  <2>2. \A g \in Groups : pool'.hash[bs[g]] = None
    BY <1>1, <1>9
  <2>3. X \cup Y \in SUBSET Z /\ X \cap Y = {}
    <3>1. ASSUME NEW b \in Blocks, pool.hash[b] = None PROVE pool'.hash[b] = None
      BY <1>1, <2>2, <3>1
    <3>2. Y \in SUBSET Z
      BY <1>1, <2>2 DEF Plain
    <3>3. X \in SUBSET Z
      BY <3>1 DEF Plain
    <3>4. X \cap Y = {}
      BY DEF Plain
    <3> QED BY <3>2, <3>3, <3>4
  <2>4. Cardinality(X) + Cardinality(Y) <= Cardinality(Z)
    <3> HIDE DEF X, Y, Z
    <3>1. Cardinality(X \cup Y) = Cardinality(X) + Cardinality(Y) - Cardinality(X \cap Y)
      BY <1>6, FS_Union
    <3>2. Cardinality(X \cap Y) = 0
      BY <2>3, FS_EmptySet
    <3>3. Cardinality(X \cup Y) <= Cardinality(Z)
      BY <1>6, <2>3, FS_Subset
    <3> QED BY <1>6, <3>1, <3>2, <3>3
  <2>5. lost' \in Nat /\ peak' \in Nat /\ lost' <= Cardinality(Z) /\ busy <= peak' /\ peak <= peak'
    <3> HIDE DEF X, Y, Z, gone, busy
    <3> QED BY <1>3, <1>6, <1>7, <2>1, <2>4
  <2>6. CASE gone = 0
    <3> HIDE DEF X, Y, Z, gone, busy
    <3> QED BY <1>3, <2>1, <2>5, <2>6 DEF CostOk, Z
  <2>7. CASE gone # 0
    <3>1. G # {}
      BY <2>7, FS_EmptySet
    <3>2. Z \in SUBSET InUse(pool')
      <4> SUFFICES ASSUME NEW b \in Blocks, pool'.hash[b] = None PROVE pool'.ref[b] > 0
        BY DEF Plain, InUse
      <4>1. ~Occurs(pool'.free, b)
        BY <1>1, <3>1 DEF Occurs
      <4> HIDE DEF v
      <4>2. v[b] \in SUBSET Reqs /\ v[b] # {} /\ pool'.ref[b] = Cardinality(v[b])
        BY <1>1, <4>1 DEF PoolOk
      <4> QED BY <4>2, CountIs
    <3>3. Cardinality(Z) <= busy
      <4> HIDE DEF Z
      <4> QED BY <1>6, <3>2, FS_Subset
    <3> HIDE DEF Z, gone, busy
    <3> QED BY <1>6, <2>5, <3>3 DEF CostOk, Z
  <2> QED BY <2>6, <2>7
<1> QED BY <1>8, <1>9

\* A request that got a segment keeps everything in order.
LEMMA GrowKeeps ==
  ASSUME IInv, NEW r \in Reqs, NEW o, NEW t, asked[r] \in Prompts, NEW i \in 1..Len(asked[r]),
         o.hash = pool.hash, PoolOk(o, Held(r, t)), RowOk(t, asked[r], i - 1, pool.hash),
         Len(o.free) >= Len(Order), Grow(r, o, t, i), misses' \in Nat, UNCHANGED <<asked, nostore, asks>>
  PROVE  IInv'
<1> DEFINE n == [g \in Groups |-> Append(t[g], NewBlocks(o)[g])]
<1>1. /\ table' = [table EXCEPT ![r] = n] /\ cached' = [cached EXCEPT ![r] = i]
      /\ RowOk(n, asked[r], i, pool'.hash)
      /\ \A q \in Reqs : q # r => RowOk(table[q], asked[q], cached[q], pool'.hash)
      /\ PoolOk(pool', Holders')
  BY GrowIs
<1>2. lost' \in Nat /\ peak' \in Nat /\ CostOk'
  BY GrowCosts
<1> HIDE DEF n
<1>3. TypeOK /\ RowsOk(pool.hash) /\ i \in Nat /\ i <= Len(asked[r]) /\ n \in Row
  <2>1. i \in Nat /\ i <= Len(asked[r])
    BY PrefixCacheAssumption
  <2> QED BY <1>1, <2>1 DEF IInv, RowOk
<1>4. TypeOK'
  BY <1>1, <1>2, <1>3 DEF TypeOK
<1>5. RowsOk(pool.hash)'
  <2> SUFFICES ASSUME NEW q \in Reqs
               PROVE  RowOk(table'[q], asked'[q], cached'[q], pool'.hash) /\ cached'[q] <= Len(asked'[q])
    BY DEF RowsOk
  <2>1. CASE q = r
    <3>1. table'[q] = n /\ cached'[q] = i
      BY <1>1, <1>3, <2>1 DEF TypeOK
    <3> QED BY <1>1, <1>3, <2>1, <3>1
  <2>2. CASE q # r
    <3>1. table'[q] = table[q] /\ cached'[q] = cached[q]
      BY <1>1, <1>3, <2>2 DEF TypeOK
    <3> QED BY <1>1, <1>3, <2>2, <3>1 DEF RowsOk
  <2> QED BY <2>1, <2>2
<1> QED BY <1>1, <1>2, <1>4, <1>5 DEF IInv

----------------------------------------------------------------------------
(* The hit becomes the start of a row                                      *)

\* What HitTable puts at place i of group g.
HitRow(t, p, n) ==
  /\ t \in Row /\ \A g \in Groups : Len(t[g]) = n
  /\ \A i \in 1..n : t["mla"][i] # 0
  /\ \A i \in 1..n : t["mamba"][i] # 0 <=> i = n
  /\ \A g \in Groups, i \in 1..n : t[g][i] # 0 => pool.hash[t[g][i]] = Key(g, p, i)

\* The row that a hit gives: the blocks of the checkpoints it rests on.
LEMMA HitTableIs ==
  ASSUME NEW p \in Prompts, NEW s, Reconciled(s, p)
  PROVE  HitRow(HitTable(p, s), p, s.hit)
<1> DEFINE t == HitTable(p, s)
           n == s.hit
<1>1. /\ n \in Nat /\ s.longest \in Nat /\ n <= s.longest /\ s.draft \in {0, n}
      /\ \A j \in 1..n : Stored(Key("mla", p, j))
      /\ n = 0 \/ Stored(Key("mamba", p, n))
      /\ s.draft = 0 \/ Stored(Key("swa", p, n))
  <2>1. /\ n \in Nat /\ s.longest \in Nat /\ n <= s.longest /\ s.draft \in {0, n}
        /\ Run(p, s.longest) /\ StateAt("mamba", p, n) /\ StateAt("swa", p, s.draft)
    BY DEF Reconciled, Loop
  <2> QED BY <2>1 DEF Run, StateAt
<1>2. ASSUME NEW k, Stored(k) PROVE BlockOf(k) \in Blocks /\ BlockOf(k) # 0 /\ pool.hash[BlockOf(k)] = k
  BY <1>2, BlockIsNotZero DEF Stored, BlockOf
<1>3. "mla" \in Groups /\ "mamba" \in Groups /\ "swa" \in Groups /\ \A g \in Groups : g \in {"mla", "mamba", "swa"}
  BY GroupsAre
<1>4. t["mla"] = [i \in 1..n |-> BlockOf(Key("mla", p, i))]
  BY <1>3 DEF HitTable
<1>5. t["mamba"] = [i \in 1..n |-> IF i = n THEN BlockOf(Key("mamba", p, n)) ELSE 0]
  BY <1>3 DEF HitTable
<1>6. t["swa"] = IF s.draft = 0 THEN [i \in 1..n |-> 0]
                 ELSE [i \in 1..n |-> IF i = n THEN BlockOf(Key("swa", p, n)) ELSE 0]
  <2>1. CASE s.draft = 0
    BY <1>3, <2>1 DEF HitTable
  <2>2. CASE s.draft # 0
    <3>1. s.draft = n
      BY <1>1, <2>2
    <3> QED BY <1>3, <2>2, <3>1 DEF HitTable
  <2> QED BY <2>1, <2>2
<1>7. t = [g \in Groups |-> t[g]]
  BY DEF HitTable
<1> HIDE DEF t, n
<1>8. ASSUME NEW f, f \in [1..n -> Blocks \cup {0}] PROVE f \in Seq(Blocks \cup {0}) /\ Len(f) = n
  BY <1>1, <1>8
<1>9. /\ t["mla"] \in Seq(Blocks \cup {0}) /\ Len(t["mla"]) = n
      /\ \A i \in 1..n : t["mla"][i] # 0 /\ pool.hash[t["mla"][i]] = Key("mla", p, i)
  <2>1. \A i \in 1..n : BlockOf(Key("mla", p, i)) \in Blocks
    BY <1>1, <1>2
  <2>2. t["mla"] \in [1..n -> Blocks \cup {0}]
    BY <1>4, <2>1
  <2> QED BY <1>1, <1>2, <1>4, <1>8, <2>2
<1>10. /\ t["mamba"] \in Seq(Blocks \cup {0}) /\ Len(t["mamba"]) = n
       /\ \A i \in 1..n : (t["mamba"][i] # 0 <=> i = n) /\ (i = n => pool.hash[t["mamba"][i]] = Key("mamba", p, i))
  <2>1. \A i \in 1..n : i = n => BlockOf(Key("mamba", p, n)) \in Blocks
    BY <1>1, <1>2
  <2>2. t["mamba"] \in [1..n -> Blocks \cup {0}]
    BY <1>5, <2>1
  <2> QED BY <1>1, <1>2, <1>5, <1>8, <2>2
<1>11. /\ t["swa"] \in Seq(Blocks \cup {0}) /\ Len(t["swa"]) = n
       /\ \A i \in 1..n : t["swa"][i] # 0 => pool.hash[t["swa"][i]] = Key("swa", p, i)
  <2>1. CASE s.draft = 0
    <3>1. t["swa"] \in [1..n -> Blocks \cup {0}] /\ \A i \in 1..n : t["swa"][i] = 0
      BY <1>6, <2>1
    <3> QED BY <1>8, <3>1
  <2>2. CASE s.draft # 0
    <3>1. BlockOf(Key("swa", p, n)) \in Blocks /\ pool.hash[BlockOf(Key("swa", p, n))] = Key("swa", p, n)
      BY <1>1, <1>2, <2>2
    <3>2. /\ t["swa"] \in [1..n -> Blocks \cup {0}]
          /\ \A i \in 1..n : t["swa"][i] = IF i = n THEN BlockOf(Key("swa", p, n)) ELSE 0
      BY <1>6, <2>2, <3>1
    <3> QED BY <1>8, <3>1, <3>2
  <2> QED BY <2>1, <2>2
<1>12. t \in Row
  BY <1>3, <1>7, <1>9, <1>10, <1>11 DEF Row
<1>13. HitRow(t, p, n)
  BY <1>3, <1>9, <1>10, <1>11, <1>12 DEF HitRow
<1> QED BY <1>13 DEF t, n

\* The row of a request that is not running is empty.
LEMMA EmptyRow ==
  ASSUME IInv, NEW r \in Reqs
  PROVE  /\ Done(r) = cached[r] /\ cached[r] \in Nat
         /\ cached[r] = 0 => \A b : ~Names(table[r], b)
<1>1. RowOk(table[r], asked[r], cached[r], pool.hash) /\ cached[r] \in Nat
  BY DEF IInv, TypeOK, RowsOk
<1>2. Done(r) = cached[r]
  BY <1>1, GroupsAre DEF RowOk, Done
<1> QED BY <1>1, <1>2 DEF RowOk, Names, Occurs

\* The row of the hit, and the pool with its blocks in use.
LEMMA HitOk ==
  ASSUME IInv, NEW r \in Reqs, asked[r] \in Prompts, ~Running(r), NEW s, Reconciled(s, asked[r])
  PROVE  LET t == HitTable(asked[r], s)
             o == Touch(pool, (UNION {Range(t[g]) : g \in Groups}) \ {0})
         IN  /\ RowOk(t, asked[r], s.hit, pool.hash)
             /\ PoolOk(o, Held(r, t)) /\ o.hash = pool.hash
<1> DEFINE p == asked[r]
           t == HitTable(p, s)
           n == s.hit
           B == (UNION {Range(t[g]) : g \in Groups}) \ {0}
           o == Touch(pool, B)
           v == [b \in Blocks |-> IF b \in B THEN Holders[b] \cup {r} ELSE Holders[b]]
<1>1. HitRow(t, p, n) /\ n \in 0..(Len(p) - 1)
  BY HitTableIs DEF Reconciled, Loop
<1>2. p \in Prompts
  OBVIOUS
<1> HIDE DEF t, n, p
<1>3. /\ t \in Row /\ (\A g \in Groups : Len(t[g]) = n /\ t[g] \in Seq(Blocks \cup {0}))
      /\ \A g \in Groups, i \in 1..n : t[g][i] # 0 => pool.hash[t[g][i]] = Key(g, p, i)
      /\ \A i \in 1..n : i \in 1..Len(p)
  <2>1. p \in Seq(Segments)
    BY <1>2, PrefixCacheAssumption
  <2> QED BY <1>1, <2>1 DEF HitRow, Row
<1>4. Once(t)
  <2> SUFFICES ASSUME NEW g \in Groups, NEW k \in Groups, NEW i \in 1..n, NEW j \in 1..n,
                      t[g][i] # 0, t[g][i] = t[k][j]
               PROVE  g = k /\ i = j
    BY <1>3 DEF Once
  <2>1. Key(g, p, i) = Key(k, p, j)
    BY <1>3
  <2> QED BY <1>2, <1>3, <2>1, KeyIs
<1>5. RowOk(t, p, n, pool.hash)
  BY <1>1, <1>3, <1>4 DEF RowOk, HitRow
<1>6. \A b : b \in B <=> b # 0 /\ Names(t, b)
  <2>1. \A g \in Groups : Range(t[g]) = {t[g][i] : i \in 1..Len(t[g])}
    BY <1>3 DEF Range
  <2>2. \A b : b \in B <=> b # 0 /\ \E g \in Groups : b \in Range(t[g])
    <3> DEFINE R == {Range(t[g]) : g \in Groups}
    <3>1. ASSUME NEW b, NEW g \in Groups, b \in Range(t[g]) PROVE b \in UNION R
      <4>1. Range(t[g]) \in R
        OBVIOUS
      <4> HIDE DEF R
      <4> QED BY <3>1, <4>1
    <3>2. ASSUME NEW b, b \in UNION R PROVE \E g \in Groups : b \in Range(t[g])
      <4>1. \A x \in R : \E g \in Groups : x = Range(t[g])
        OBVIOUS
      <4> HIDE DEF R
      <4>2. PICK x \in R : b \in x
        BY <3>2
      <4> QED BY <4>1, <4>2
    <3>3. \A b : b \in B <=> b # 0 /\ b \in UNION R
      BY Zenon
    <3> HIDE DEF B, R
    <3>4. \A b : b \in UNION R <=> \E g \in Groups : b \in Range(t[g])
      BY <3>1, <3>2, Zenon
    <3> QED BY <3>3, <3>4, Zenon
  <2>3. \A g \in Groups : \A b : b \in Range(t[g]) <=> Occurs(t[g], b)
    BY <2>1 DEF Occurs
  <2> HIDE DEF B
  <2> QED BY <2>2, <2>3 DEF Names
<1>7. B \in SUBSET Blocks
  <2>1. ASSUME NEW b \in B PROVE b \in Blocks
    <3>1. b # 0 /\ Names(t, b)
      BY <1>6
    <3>2. PICK g \in Groups : Occurs(t[g], b)
      BY <3>1 DEF Names
    <3> QED BY <1>3, <3>1, <3>2 DEF Occurs
  <2> QED BY <2>1
<1>8. \A b \in Blocks : r \notin Holders[b]
  <2>1. cached[r] = 0
    BY EmptyRow DEF Running
  <2> QED BY <2>1, EmptyRow DEF Holders
<1> HIDE DEF B
<1>9. PoolOk(o, v) /\ o.hash = pool.hash
  <2>1. PoolOk(pool, Holders)
    BY DEF IInv
  <2>2. \A b \in B : r \notin Holders[b]
    BY <1>7, <1>8
  <2> QED BY <1>7, <2>1, <2>2, TouchOk
<1>10. v = Held(r, t)
  <2>1. ASSUME NEW b \in Blocks
        PROVE  v[b] = {q \in Reqs : IF q = r THEN Names(t, b) ELSE Names(table[q], b)}
    <3>1. v[b] = (IF b \in B THEN Holders[b] \cup {r} ELSE Holders[b]) /\ Holders[b] = {q \in Reqs : Names(table[q], b)}
      BY DEF Holders
    <3>2. r \notin Holders[b] /\ (b \in B <=> Names(t, b))
      BY <1>6, <1>8, BlockIsNotZero
    <3> HIDE DEF v
    <3> QED BY <3>1, <3>2
  <2>2. v = [b \in Blocks |-> v[b]]
    OBVIOUS
  <2> HIDE DEF v
  <2> QED BY <2>1, <2>2 DEF Held
<1> QED BY <1>5, <1>9, <1>10 DEF t, n, p, B

\* The window moves on: the block it leaves is given back.
LEMMA TrimOk ==
  ASSUME IInv, NEW r \in Reqs, Running(r)
  PROVE  /\ PoolOk(Skipped(r), Held(r, Trimmed(r))) /\ Skipped(r).hash = pool.hash
         /\ RowOk(Trimmed(r), asked[r], cached[r], pool.hash)
         /\ \A g \in Groups : g # "swa" => Trimmed(r)[g] = table[r][g]
<1> DEFINE row == table[r]
           k == Skip(r)
           s == row["swa"]
           e == [s EXCEPT ![k] = 0]
           new == [row EXCEPT !["swa"] = e]
           bs == <<s[k]>>
<1>1. RowOk(row, asked[r], cached[r], pool.hash) /\ PoolOk(pool, Held(r, row))
  BY HeldIs DEF IInv, RowsOk
<1>2. cached[r] \in Nat /\ cached[r] > 0 /\ k = cached[r] - 1
  BY EmptyRow DEF Running, Skip
<1>3. CASE k = 0
  BY <1>1, <1>3 DEF Skipped, Trimmed
<1>4. CASE k # 0
  <2>1. Skipped(r) = FreeBlocks(pool, bs) /\ Trimmed(r) = new
    BY <1>4 DEF Skipped, Trimmed
  <2>2. "swa" \in Groups /\ row \in Row /\ s \in Seq(Blocks \cup {0}) /\ Len(s) = cached[r] /\ Once(row) /\ k \in 1..Len(s)
    BY <1>1, <1>2, <1>4, GroupsAre DEF RowOk, Row
  <2>3. bs \in Seq(Blocks \cup {0}) /\ Len(bs) = 1 /\ bs[1] = s[k] /\ 1..Len(bs) = {1}
    BY <2>2
  <2>4. e \in Seq(Blocks \cup {0}) /\ Len(e) = Len(s) /\ e[k] = 0 /\ \A i \in 1..Len(s) : i # k => e[i] = s[i]
    BY <2>2
  <2> HIDE DEF e, bs
  <2>5. new \in Row /\ new["swa"] = e /\ \A g \in Groups : g # "swa" => new[g] = row[g]
    BY <2>2, <2>4 DEF Row
  <2> HIDE DEF new, k, s, row
  <2>6. ASSUME NEW g \in Groups, NEW i \in 1..Len(new[g]), new[g][i] # 0
        PROVE  i \in 1..Len(row[g]) /\ new[g][i] = row[g][i] /\ (g # "swa" \/ i # k)
    BY <2>4, <2>5, <2>6 DEF s
  <2>7. \A g \in Groups : Len(new[g]) = Len(row[g])
    BY <2>4, <2>5 DEF s
  <2>8. Once(new)
    <3> SUFFICES ASSUME NEW g \in Groups, NEW f \in Groups, NEW i \in 1..Len(new[g]), NEW j \in 1..Len(new[f]),
                        new[g][i] # 0, new[g][i] = new[f][j]
                 PROVE  g = f /\ i = j
      BY DEF Once
    <3>1. /\ i \in 1..Len(row[g]) /\ new[g][i] = row[g][i]
          /\ j \in 1..Len(row[f]) /\ new[f][j] = row[f][j]
      BY <2>6
    <3>2. row[g][i] # 0 /\ row[g][i] = row[f][j]
      BY <3>1
    <3> HIDE DEF new
    <3> QED BY <2>2, <3>1, <3>2 DEF Once
  <2>9. Leaves(row, bs, new)
    <3>1. s[k] # 0 => Names(row, s[k])
      BY <2>2 DEF Names, Occurs, s
    <3>2. \A b : Occurs(bs, b) <=> b = s[k]
      BY <2>3 DEF Occurs
    <3>3. ASSUME NEW b \in Blocks, Names(new, b) PROVE Names(row, b) /\ b # s[k]
      <4>0. PICK g \in Groups : Occurs(new[g], b)
        BY <3>3 DEF Names
      <4>1. PICK i \in 1..Len(new[g]) : new[g][i] = b
        BY <4>0 DEF Occurs
      <4>2. i \in 1..Len(row[g]) /\ row[g][i] = b /\ (g # "swa" \/ i # k) /\ b # 0
        BY <2>6, <4>1, BlockIsNotZero
      <4>3. b # s[k]
        BY <2>2, <4>2 DEF Once, s
      <4> QED BY <4>2, <4>3 DEF Names, Occurs
    <3>4. ASSUME NEW b \in Blocks, Names(row, b), b # s[k] PROVE Names(new, b)
      <4>0. PICK g \in Groups : Occurs(row[g], b)
        BY <3>4 DEF Names
      <4>1. PICK i \in 1..Len(row[g]) : row[g][i] = b
        BY <4>0 DEF Occurs
      <4>2. i \in 1..Len(new[g]) /\ new[g][i] = b
        BY <2>4, <2>5, <2>7, <3>4, <4>1 DEF s
      <4> QED BY <4>2 DEF Names, Occurs
    <3>5. \A b \in Blocks : Names(new, b) <=> Names(row, b) /\ ~Occurs(bs, b)
      BY <3>2, <3>3, <3>4
    <3> QED BY <2>3, <3>1, <3>5 DEF Leaves
  <2>10. PoolOk(Skipped(r), Held(r, new)) /\ Skipped(r).hash = pool.hash
    BY <1>1, <2>1, <2>3, <2>9, FreeRow
  <2>11. RowOk(new, asked[r], cached[r], pool.hash)
    <3>1. "mla" \in Groups /\ "mla" # "swa"
      BY GroupsAre
    <3>2. \A i \in 1..cached[r] : new["mla"][i] # 0
      BY <1>1, <2>5, <3>1 DEF RowOk
    <3>3. \A g \in Groups, i \in 1..cached[r] : new[g][i] # 0 => pool.hash[new[g][i]] \in {None, Key(g, asked[r], i)}
      <4> TAKE g \in Groups, i \in 1..cached[r]
      <4>1. Len(new[g]) = cached[r]
        BY <1>1, <2>7 DEF RowOk
      <4>2. new[g][i] # 0 => new[g][i] = row[g][i]
        BY <2>6, <4>1
      <4> QED BY <1>1, <4>2 DEF RowOk
    <3> QED BY <1>1, <2>5, <2>7, <2>8, <3>2, <3>3 DEF RowOk
  <2> QED BY <2>1, <2>5, <2>10, <2>11 DEF row
<1> QED BY <1>3, <1>4

----------------------------------------------------------------------------
(* The invariant                                                           *)

\* The first state.
LEMMA Starts == Init => IInv
<1> SUFFICES ASSUME Init PROVE IInv
  OBVIOUS
<1> DEFINE free == [i \in Blocks |-> i]
<1>1. /\ pool = [hash |-> [b \in Blocks |-> None], ref |-> [b \in Blocks |-> 0], free |-> free]
      /\ asked = [r \in Reqs |-> << >>] /\ nostore = [r \in Reqs |-> FALSE]
      /\ table = [r \in Reqs |-> [g \in Groups |-> << >>]]
      /\ cached = [r \in Reqs |-> 0] /\ misses = 0 /\ lost = 0 /\ peak = 0 /\ asks = 0
  BY DEF Init
<1>2. NumBlocks \in Nat /\ MaxAsks \in Nat
  BY PrefixCacheAssumption
<1>3. free \in Seq(Blocks) /\ Len(free) = NumBlocks /\ \A i \in 1..NumBlocks : free[i] = i
  BY <1>2 DEF Blocks
<1> HIDE DEF free
<1>4. [g \in Groups |-> << >>] \in Row
  BY DEF Row
<1>5. TypeOK
  BY <1>1, <1>2, <1>4 DEF TypeOK
<1>6. \A r \in Reqs, g \in Groups : table[r][g] = << >> /\ Len(table[r][g]) = 0
  BY <1>1
<1>7. 1..0 = {}
  OBVIOUS
<1>8. RowsOk(pool.hash)
  <2> SUFFICES ASSUME NEW r \in Reqs
               PROVE  RowOk(table[r], asked[r], cached[r], pool.hash) /\ cached[r] <= Len(asked[r])
    BY DEF RowsOk
  <2>1. cached[r] = 0 /\ asked[r] = << >> /\ Len(asked[r]) = 0 /\ table[r] \in Row
    BY <1>1, <1>4
  <2>2. Once(table[r])
    BY <1>6, <1>7 DEF Once
  <2> QED BY <1>6, <1>7, <2>1, <2>2 DEF RowOk
<1>9. Holders \in [Blocks -> SUBSET Reqs] /\ \A b \in Blocks : Holders[b] = {}
  <2>1. \A r \in Reqs, b \in Blocks : ~Names(table[r], b)
    BY <1>6, <1>7 DEF Names, Occurs
  <2> QED BY <2>1 DEF Holders
<1>10. PoolOk(pool, Holders)
  <2>1. pool \in PoolType
    BY <1>1, <1>3 DEF PoolType
  <2>2. pool.ref = [b \in Blocks |-> 0] /\ pool.free = free /\ \A b \in Blocks : pool.hash[b] = None
    BY <1>1
  <2>3. \A b \in Blocks : pool.ref[b] = Cardinality(Holders[b])
    BY <1>9, <2>2, FS_EmptySet
  <2>4. Unique(free) /\ Sorted(free, pool.hash)
    BY <1>3, <2>2 DEF Unique, Sorted, Blocks
  <2>5. \A b \in Blocks : Occurs(free, b)
    BY <1>3 DEF Occurs, Blocks
  <2> QED BY <1>9, <2>1, <2>2, <2>3, <2>4, <2>5 DEF PoolOk
<1>11. CostOk
  <2>1. Plain(pool.hash) \in SUBSET Blocks
    BY DEF Plain
  <2>2. IsFiniteSet(Blocks)
    BY <1>2, FS_Interval DEF Blocks
  <2>3. Cardinality(Plain(pool.hash)) \in Nat
    BY <2>1, <2>2, FS_Subset, FS_CardinalityType
  <2> QED BY <1>1, <2>3 DEF CostOk
<1> QED BY <1>5, <1>8, <1>10, <1>11 DEF IInv

LEMMA AskKeeps == ASSUME IInv, NEW r \in Reqs, Ask(r) PROVE IInv'
<1>1. PICK p \in Prompts, b \in BOOLEAN :
        asked' = [asked EXCEPT ![r] = p] /\ nostore' = [nostore EXCEPT ![r] = b]
  BY PrefixCacheAssumption DEF Ask
<1>2. /\ asked[r] = << >> /\ asks < MaxAsks /\ asks' = asks + 1
      /\ UNCHANGED <<pool, table, cached, misses, lost, peak>>
  BY DEF Ask
<1>3. TypeOK'
  <2>1. asks' \in 0..MaxAsks
    BY <1>2, PrefixCacheAssumption DEF IInv, TypeOK
  <2> QED BY <1>1, <1>2, <2>1 DEF IInv, TypeOK
<1>4. Holders' = Holders
  BY <1>2 DEF Holders
<1>5. RowsOk(pool.hash)'
  <2> SUFFICES ASSUME NEW q \in Reqs
               PROVE  RowOk(table[q], asked'[q], cached[q], pool.hash) /\ cached[q] <= Len(asked'[q])
    BY <1>2 DEF RowsOk
  <2>1. RowOk(table[q], asked[q], cached[q], pool.hash) /\ cached[q] <= Len(asked[q]) /\ cached[q] \in Nat
    BY DEF IInv, RowsOk, TypeOK
  <2>2. CASE q = r
    <3>1. cached[q] = 0 /\ 1..0 = {}
      BY <1>2, <2>1, <2>2
    <3>2. asked'[q] = p /\ p \in Seq(Segments)
      BY <1>1, <2>2, PrefixCacheAssumption DEF IInv, TypeOK
    <3> QED BY <2>1, <3>1, <3>2 DEF RowOk
  <2>3. CASE q # r
    BY <1>1, <2>1, <2>3 DEF IInv, TypeOK
  <2> QED BY <2>2, <2>3
<1>6. CostOk'
  BY <1>2 DEF IInv, CostOk
<1> QED BY <1>2, <1>3, <1>4, <1>5, <1>6 DEF IInv

\* What an admission does, in the terms of the lemmas above.
LEMMA AdmitIs ==
  ASSUME IInv, NEW r \in Reqs, Admit(r)
  PROVE  \E s, o :
           /\ asked[r] \in Prompts /\ Reconciled(s, asked[r]) /\ s.hit + 1 \in 1..Len(asked[r])
           /\ o.hash = pool.hash /\ PoolOk(o, Held(r, HitTable(asked[r], s)))
           /\ RowOk(HitTable(asked[r], s), asked[r], s.hit, pool.hash)
           /\ Len(o.free) >= Len(Order) /\ Grow(r, o, HitTable(asked[r], s), s.hit + 1)
           /\ misses' = s.longest - s.hit
<1>1. asked[r] \in Prompts /\ ~Running(r)
  BY DEF Admit, IInv, TypeOK
<1>2. PICK pop \in BOOLEAN :
        LET s == Reconcile(asked[r], pop)
            t == HitTable(asked[r], s)
            o == Touch(pool, (UNION {Range(t[g]) : g \in Groups}) \ {0})
        IN Len(o.free) >= Len(Order) /\ Grow(r, o, t, s.hit + 1) /\ misses' = s.longest - s.hit
  BY DEF Admit
<1> DEFINE s == Reconcile(asked[r], pop)
           t == HitTable(asked[r], s)
           o == Touch(pool, (UNION {Range(t[g]) : g \in Groups}) \ {0})
<1>3. Reconciled(s, asked[r])
  BY <1>1, ReconcileIs
<1> HIDE DEF s
<1>4. s.hit + 1 \in 1..Len(asked[r])
  <2>1. s.hit \in 0..(Len(asked[r]) - 1) /\ asked[r] \in Seq(Segments)
    BY <1>1, <1>3, PrefixCacheAssumption DEF Reconciled, Loop
  <2> QED BY <2>1
<1>5. RowOk(t, asked[r], s.hit, pool.hash) /\ PoolOk(o, Held(r, t)) /\ o.hash = pool.hash
  BY <1>1, <1>3, HitOk
<1>6. Len(o.free) >= Len(Order) /\ Grow(r, o, t, s.hit + 1) /\ misses' = s.longest - s.hit
  BY <1>2 DEF s
<1> HIDE DEF o
<1> WITNESS s, o
<1> QED BY <1>1, <1>3, <1>4, <1>5, <1>6

LEMMA AdmitKeeps == ASSUME IInv, NEW r \in Reqs, Admit(r) PROVE IInv'
<1>1. PICK s, o :
        /\ asked[r] \in Prompts /\ Reconciled(s, asked[r]) /\ s.hit + 1 \in 1..Len(asked[r])
        /\ o.hash = pool.hash /\ PoolOk(o, Held(r, HitTable(asked[r], s)))
        /\ RowOk(HitTable(asked[r], s), asked[r], s.hit, pool.hash)
        /\ Len(o.free) >= Len(Order) /\ Grow(r, o, HitTable(asked[r], s), s.hit + 1)
        /\ misses' = s.longest - s.hit
  BY AdmitIs
<1> DEFINE t == HitTable(asked[r], s)
           i == s.hit + 1
<1>2. s.hit \in Nat /\ s.longest \in Nat /\ s.hit <= s.longest
  BY <1>1 DEF Reconciled, Loop
<1>3. i - 1 = s.hit /\ misses' \in Nat
  BY <1>1, <1>2
<1>4. UNCHANGED <<asked, nostore, asks>>
  BY DEF Admit
<1>5. /\ i \in 1..Len(asked[r]) /\ PoolOk(o, Held(r, t)) /\ RowOk(t, asked[r], i - 1, pool.hash)
      /\ Grow(r, o, t, i)
  BY <1>1, <1>3
<1> HIDE DEF t, i
<1> QED BY <1>1, <1>3, <1>4, <1>5, GrowKeeps

\* The same for the next segment.
LEMMA AdvanceIs ==
  ASSUME IInv, NEW r \in Reqs, Advance(r)
  PROVE  LET o == Skipped(r)
             t == Trimmed(r)
             i == Done(r) + 1
         IN  /\ asked[r] \in Prompts /\ i \in 1..Len(asked[r]) /\ i - 1 = cached[r]
             /\ o.hash = pool.hash /\ PoolOk(o, Held(r, t)) /\ RowOk(t, asked[r], i - 1, pool.hash)
             /\ Len(o.free) >= Len(Order) /\ Grow(r, o, t, i) /\ UNCHANGED <<asked, nostore, misses, asks>>
             /\ \A g \in Groups : g # "swa" => t[g] = table[r][g]
<1>1. /\ Running(r) /\ Done(r) < Len(asked[r]) /\ Len(Skipped(r).free) >= Len(Order)
      /\ Grow(r, Skipped(r), Trimmed(r), Done(r) + 1) /\ UNCHANGED <<asked, nostore, misses, asks>>
  BY DEF Advance
<1>2. Done(r) = cached[r] /\ cached[r] \in Nat
  BY EmptyRow
<1>3. asked[r] \in Prompts
  <2>1. asked[r] # << >>
    BY <1>1, <1>2
  <2> QED BY <2>1 DEF IInv, TypeOK
<1>4. Done(r) + 1 \in 1..Len(asked[r]) /\ (Done(r) + 1) - 1 = cached[r]
  <2>1. asked[r] \in Seq(Segments)
    BY <1>3, PrefixCacheAssumption
  <2>2. Len(asked[r]) \in Nat /\ cached[r] < Len(asked[r])
    BY <1>1, <1>2, <2>1
  <2> QED BY <1>2, <2>2
<1>5. /\ Skipped(r).hash = pool.hash /\ PoolOk(Skipped(r), Held(r, Trimmed(r)))
      /\ RowOk(Trimmed(r), asked[r], cached[r], pool.hash)
      /\ \A g \in Groups : g # "swa" => Trimmed(r)[g] = table[r][g]
  <2>1. Running(r)
    BY <1>1
  <2> QED BY <2>1, TrimOk
<1>6. RowOk(Trimmed(r), asked[r], (Done(r) + 1) - 1, pool.hash)
  BY <1>4, <1>5
<1> DEFINE o == Skipped(r)
           t == Trimmed(r)
           i == Done(r) + 1
<1>7. Len(o.free) >= Len(Order) /\ Grow(r, o, t, i) /\ UNCHANGED <<asked, nostore, misses, asks>>
  BY <1>1
<1>8. /\ o.hash = pool.hash /\ PoolOk(o, Held(r, t)) /\ RowOk(t, asked[r], i - 1, pool.hash)
      /\ \A g \in Groups : g # "swa" => t[g] = table[r][g]
  BY <1>5, <1>6
<1>9. i \in 1..Len(asked[r]) /\ i - 1 = cached[r]
  BY <1>4
<1> HIDE DEF o, t, i
<1>10. /\ asked[r] \in Prompts /\ i \in 1..Len(asked[r]) /\ i - 1 = cached[r]
       /\ o.hash = pool.hash /\ PoolOk(o, Held(r, t)) /\ RowOk(t, asked[r], i - 1, pool.hash)
       /\ Len(o.free) >= Len(Order) /\ Grow(r, o, t, i) /\ UNCHANGED <<asked, nostore, misses, asks>>
       /\ \A g \in Groups : g # "swa" => t[g] = table[r][g]
  BY <1>3, <1>7, <1>8, <1>9
<1> QED BY <1>10 DEF o, t, i

LEMMA AdvanceKeeps == ASSUME IInv, NEW r \in Reqs, Advance(r) PROVE IInv'
<1> DEFINE o == Skipped(r)
           t == Trimmed(r)
           i == Done(r) + 1
<1>1. /\ asked[r] \in Prompts /\ i \in 1..Len(asked[r])
      /\ o.hash = pool.hash /\ PoolOk(o, Held(r, t)) /\ RowOk(t, asked[r], i - 1, pool.hash)
      /\ Len(o.free) >= Len(Order) /\ Grow(r, o, t, i) /\ UNCHANGED <<asked, nostore, misses, asks>>
  BY AdvanceIs
<1>2. misses' \in Nat
  BY <1>1 DEF IInv, TypeOK
<1> HIDE DEF o, t, i
<1> QED BY <1>1, <1>2, GrowKeeps

\* A request leaves: it is finished, or makes room and will be admitted again.
LEMMA ReleaseKeeps ==
  ASSUME IInv, NEW r \in Reqs, Release(r), UNCHANGED <<misses, lost, peak, asks>>,
         \/ UNCHANGED <<asked, nostore>>
         \/ asked' = [asked EXCEPT ![r] = << >>] /\ nostore' = [nostore EXCEPT ![r] = FALSE]
  PROVE  IInv'
<1>1. /\ PoolOk(pool', Holders') /\ pool'.hash = pool.hash
      /\ table' \in [Reqs -> Row] /\ cached' \in [Reqs -> Nat]
      /\ RowOk(table'[r], asked'[r], 0, pool'.hash) /\ cached'[r] = 0
      /\ \A q \in Reqs : q # r => table'[q] = table[q] /\ cached'[q] = cached[q]
  BY ReleaseOk
<1>2. TypeOK'
  BY <1>1 DEF IInv, TypeOK
<1>3. \A q \in Reqs : q # r => asked'[q] = asked[q]
  BY DEF IInv, TypeOK
<1>4. RowsOk(pool.hash)'
  <2> SUFFICES ASSUME NEW q \in Reqs
               PROVE  RowOk(table'[q], asked'[q], cached'[q], pool'.hash) /\ cached'[q] <= Len(asked'[q])
    BY DEF RowsOk
  <2>1. CASE q = r
    <3>1. asked'[r] \in Prompts \cup {<< >>}
      BY <1>2 DEF TypeOK
    <3>2. Len(asked'[r]) \in Nat
      BY <3>1, PrefixCacheAssumption
    <3> QED BY <1>1, <2>1, <3>2
  <2>2. CASE q # r
    BY <1>1, <1>3, <2>2 DEF IInv, RowsOk
  <2> QED BY <2>1, <2>2
<1>5. CostOk'
  BY <1>1 DEF IInv, CostOk
<1> QED BY <1>1, <1>2, <1>4, <1>5 DEF IInv

LEMMA FinishKeeps == ASSUME IInv, NEW r \in Reqs, Finish(r) PROVE IInv'
BY ReleaseKeeps DEF Finish

LEMMA PreemptKeeps == ASSUME IInv, NEW r \in Reqs, Preempt(r) PROVE IInv'
BY ReleaseKeeps DEF Preempt

\* Nothing runs when the cache is reset.
LEMMA ResetIs ==
  ASSUME IInv, ResetPrefixCache
  PROVE  /\ \A b \in Blocks : Holders[b] = {}
         /\ \A r \in Reqs, g \in Groups : Len(table[r][g]) = 0
<1>1. \A b \in Blocks : Holders[b] = {}
  <2> TAKE b \in Blocks
  <2>1. pool.ref[b] = Cardinality(Holders[b]) /\ Holders[b] \in SUBSET Reqs
    BY DEF IInv, PoolOk
  <2>2. ~(pool.ref[b] > 0)
    BY DEF ResetPrefixCache, InUse
  <2>3. Cardinality(Holders[b]) \in Nat /\ (Cardinality(Holders[b]) = 0 <=> Holders[b] = {})
    BY <2>1, CountIs
  <2> QED BY <2>1, <2>2, <2>3
<1>2. ASSUME NEW r \in Reqs, NEW g \in Groups PROVE Len(table[r][g]) = 0
  <2>1. RowOk(table[r], asked[r], cached[r], pool.hash) /\ cached[r] \in Nat /\ "mla" \in Groups
    BY GroupsAre DEF IInv, TypeOK, RowsOk
  <2>2. CASE cached[r] = 0
    BY <2>1, <2>2 DEF RowOk
  <2>3. CASE cached[r] # 0
    <3>1. 1 \in 1..cached[r]
      BY <2>1, <2>3
    <3>2. table[r]["mla"] \in Seq(Blocks \cup {0}) /\ Len(table[r]["mla"]) = cached[r] /\ table[r]["mla"][1] # 0
      BY <2>1, <3>1 DEF RowOk, Row
    <3>3. table[r]["mla"][1] \in Blocks
      BY <3>1, <3>2
    <3>4. Names(table[r], table[r]["mla"][1])
      BY <2>1, <3>1, <3>2 DEF Names, Occurs
    <3>5. r \in Holders[table[r]["mla"][1]]
      BY <3>3, <3>4 DEF Holders
    <3> QED BY <1>1, <3>3, <3>5
  <2> QED BY <2>2, <2>3
<1> QED BY <1>1, <1>2

LEMMA ResetKeeps == ASSUME IInv, ResetPrefixCache PROVE IInv'
<1> DEFINE h == [b \in Blocks |-> None]
<1>1. /\ pool' = [pool EXCEPT !.hash = h] /\ lost' = 0 /\ peak' = 0
      /\ UNCHANGED <<asked, nostore, table, cached, misses, asks>>
  BY DEF ResetPrefixCache
<1>2. PoolOk(pool, Holders) /\ pool \in PoolType
  BY DEF IInv, PoolOk
<1>3. h \in [Blocks -> Checkpoint \cup {None}] /\ \A b \in Blocks : h[b] = None
  OBVIOUS
<1> HIDE DEF h
<1>4. pool' \in PoolType /\ pool'.hash = h /\ pool'.ref = pool.ref /\ pool'.free = pool.free
  BY <1>1, <1>2, <1>3 DEF PoolType
<1>5. TypeOK'
  BY <1>1 DEF IInv, TypeOK
<1>6. Holders' = Holders
  BY <1>1 DEF Holders
<1>7. PoolOk(pool', Holders')
  <2>1. pool.free \in Seq(Blocks)
    BY <1>2 DEF PoolType
  <2>2. Sorted(pool.free, h)
    BY <1>3, <2>1 DEF Sorted
  <2> QED BY <1>2, <1>4, <1>6, <2>2 DEF PoolOk
<1>8. RowsOk(pool.hash)'
  <2> SUFFICES ASSUME NEW q \in Reqs
               PROVE  RowOk(table[q], asked[q], cached[q], h) /\ cached[q] <= Len(asked[q])
    BY <1>1, <1>4 DEF RowsOk
  <2>1. RowOk(table[q], asked[q], cached[q], pool.hash) /\ cached[q] <= Len(asked[q])
    BY DEF IInv, RowsOk
  <2>2. \A g \in Groups : cached[q] = 0
    BY <2>1, ResetIs DEF RowOk
  <2>3. cached[q] = 0 /\ 1..0 = {}
    BY <2>2, GroupsAre
  <2> QED BY <2>1, <2>3 DEF RowOk
<1>9. CostOk'
  <2>1. Plain(pool'.hash) \in SUBSET Blocks
    BY DEF Plain
  <2>2. IsFiniteSet(Blocks)
    BY PrefixCacheAssumption, FS_Interval DEF Blocks
  <2>3. Cardinality(Plain(pool'.hash)) \in Nat
    BY <2>1, <2>2, FS_Subset, FS_CardinalityType
  <2> QED BY <1>1, <2>3 DEF CostOk
<1> QED BY <1>5, <1>7, <1>8, <1>9 DEF IInv

\* No step breaks the invariant.
LEMMA Keeps == IInv /\ [Next]_vars => IInv'
<1> SUFFICES ASSUME IInv, [Next]_vars PROVE IInv'
  OBVIOUS
<1>1. ASSUME NEW r \in Reqs, Ask(r) PROVE IInv'
  BY <1>1, AskKeeps
<1>2. ASSUME NEW r \in Reqs, Admit(r) PROVE IInv'
  BY <1>2, AdmitKeeps
<1>3. ASSUME NEW r \in Reqs, Advance(r) PROVE IInv'
  BY <1>3, AdvanceKeeps
<1>4. ASSUME NEW r \in Reqs, Finish(r) PROVE IInv'
  BY <1>4, FinishKeeps
<1>5. ASSUME NEW r \in Reqs, Preempt(r) PROVE IInv'
  BY <1>5, PreemptKeeps
<1>6. CASE ResetPrefixCache
  BY <1>6, ResetKeeps
<1>7. CASE UNCHANGED vars
  BY <1>7 DEF vars, IInv, TypeOK, PoolOk, PoolType, RowsOk, RowOk, CostOk, Holders
<1> QED BY <1>1, <1>2, <1>3, <1>4, <1>5, <1>6, <1>7 DEF Next

\* The variables have their types: the queue holds block ids, the reference
\* counts are naturals, the groups of a request cover the same segments.
THEOREM TypeCorrect == Spec => []TypeOK
<1>1. IInv => TypeOK
  BY DEF IInv
<1> QED BY Starts, Keeps, <1>1, PTL DEF Spec

\* Since a request that stores was last admitted, requests that store nothing
\* have evicted no more blocks than were in use at once: what they give back
\* has no hash and is handed out again before any block that has one.
THEOREM NoStoreIsCheap == Spec => []NoStoreCostsItsPeak
<1>1. IInv => NoStoreCostsItsPeak
  BY DEF IInv, CostOk, NoStoreCostsItsPeak
<1> QED BY Starts, Keeps, <1>1, PTL DEF Spec

----------------------------------------------------------------------------
(* The books of the pool                                                   *)

\* A block has one use for each request that holds it.
LEMMA UsesCount ==
  ASSUME IInv, NEW b \in Blocks
  PROVE  Cardinality(Uses(b)) = Cardinality(Holders[b])
<1> DEFINE Places == UNION {{r} \X {g} \X DOMAIN table[r][g] : r \in Reqs, g \in Groups}
           U == Uses(b)
           H == Holders[b]
<1>1. \A r \in Reqs : table[r] \in Row /\ Once(table[r])
  BY DEF IInv, RowsOk, RowOk
<1>2. \A r \in Reqs, g \in Groups : DOMAIN table[r][g] = 1..Len(table[r][g])
  BY <1>1 DEF Row
<1>3. \A r \in Reqs, g \in Groups : \A i \in 1..Len(table[r][g]) : <<r, g, i>> \in Places
  <2> TAKE r \in Reqs, g \in Groups
  <2> TAKE i \in 1..Len(table[r][g])
  <2> DEFINE D == {r} \X {g} \X DOMAIN table[r][g]
  <2>1. <<r, g, i>> \in D
    BY <1>2
  <2>2. D \in {{q} \X {k} \X DOMAIN table[q][k] : q \in Reqs, k \in Groups}
    OBVIOUS
  <2> HIDE DEF D
  <2> QED BY <2>1, <2>2
<1>4. ASSUME NEW x \in Places
      PROVE  \E r \in Reqs, g \in Groups : \E i \in 1..Len(table[r][g]) : x = <<r, g, i>>
  <2>1. PICK r \in Reqs, g \in Groups : x \in {r} \X {g} \X DOMAIN table[r][g]
    BY <1>4
  <2>2. x \in {r} \X {g} \X (1..Len(table[r][g]))
    BY <1>2, <2>1
  <2> QED BY <2>2
<1>5. U = {x \in Places : table[x[1]][x[2]][x[3]] = b}
  BY DEF Uses
<1> HIDE DEF Places, U, H
<1>6. ASSUME NEW x \in U
      PROVE  \E r \in Reqs, g \in Groups : \E i \in 1..Len(table[r][g]) : x = <<r, g, i>> /\ table[r][g][i] = b
  <2>1. x \in Places /\ table[x[1]][x[2]][x[3]] = b
    BY <1>5, <1>6
  <2>2. PICK r \in Reqs, g \in Groups : \E i \in 1..Len(table[r][g]) : x = <<r, g, i>>
    BY <1>4, <2>1
  <2>3. PICK i \in 1..Len(table[r][g]) : x = <<r, g, i>>
    BY <2>2
  <2>4. x[1] = r /\ x[2] = g /\ x[3] = i
    BY <2>3
  <2> QED BY <2>1, <2>3, <2>4
<1>7. ASSUME NEW r \in Reqs, NEW g \in Groups, NEW i \in 1..Len(table[r][g]), table[r][g][i] = b
      PROVE  <<r, g, i>> \in U
  BY <1>3, <1>5, <1>7
<1>8. \A q : q \in H <=> q \in Reqs /\ Names(table[q], b)
  BY DEF H, Holders
<1>9. \A x \in U : x[1] \in H
  <2> TAKE x \in U
  <2>1. PICK r \in Reqs, g \in Groups : \E i \in 1..Len(table[r][g]) : x = <<r, g, i>> /\ table[r][g][i] = b
    BY <1>6
  <2>2. PICK i \in 1..Len(table[r][g]) : x = <<r, g, i>> /\ table[r][g][i] = b
    BY <2>1
  <2>3. x[1] = r /\ Names(table[r], b)
    BY <2>2 DEF Names, Occurs
  <2> QED BY <1>8, <2>3
<1>10. \A q \in H : \E x \in U : x[1] = q
  <2> TAKE q \in H
  <2>1. PICK g \in Groups : Occurs(table[q][g], b)
    BY <1>8 DEF Names
  <2>2. PICK i \in 1..Len(table[q][g]) : table[q][g][i] = b
    BY <2>1 DEF Occurs
  <2>3. <<q, g, i>> \in U /\ <<q, g, i>>[1] = q
    BY <1>7, <1>8, <2>2
  <2> QED BY <2>3
<1>11. \A x, y \in U : x[1] = y[1] => x = y
  <2> SUFFICES ASSUME NEW x \in U, NEW y \in U, x[1] = y[1] PROVE x = y
    OBVIOUS
  <2>1. PICK r \in Reqs, g \in Groups : \E i \in 1..Len(table[r][g]) : x = <<r, g, i>> /\ table[r][g][i] = b
    BY <1>6
  <2>2. PICK i \in 1..Len(table[r][g]) : x = <<r, g, i>> /\ table[r][g][i] = b
    BY <2>1
  <2>3. PICK q \in Reqs, k \in Groups : \E j \in 1..Len(table[q][k]) : y = <<q, k, j>> /\ table[q][k][j] = b
    BY <1>6
  <2>4. PICK j \in 1..Len(table[q][k]) : y = <<q, k, j>> /\ table[q][k][j] = b
    BY <2>3
  <2>5. q = r
    BY <2>2, <2>4
  <2>6. Once(table[r]) /\ b # 0
    BY <1>1, BlockIsNotZero
  <2>7. g = k /\ i = j
    BY <2>2, <2>4, <2>5, <2>6 DEF Once
  <2> QED BY <2>2, <2>4, <2>5, <2>7
<1> DEFINE f == [q \in H |-> CHOOSE x \in U : x[1] = q]
<1>12. f \in [H -> U] /\ DOMAIN f = H /\ \A q \in H : f[q][1] = q
  BY <1>10
<1> HIDE DEF f
<1>13. f \in Bijection(H, U)
  <2>1. \A p, q \in H : f[p] = f[q] => p = q
    BY <1>12
  <2>2. \A x \in U : \E q \in H : f[q] = x
    <3> TAKE x \in U
    <3>1. x[1] \in H /\ f[x[1]] \in U /\ f[x[1]][1] = x[1]
      BY <1>9, <1>12
    <3> QED BY <1>11, <3>1
  <2>3. f \in Injection(H, U)
    BY <1>12, <2>1 DEF Injection, IsInjective
  <2>4. f \in Surjection(H, U)
    BY <1>12, <2>2 DEF Surjection
  <2> QED BY <2>3, <2>4 DEF Bijection
<1>14. ExistsBijection(H, U) /\ IsFiniteSet(H)
  <2>1. H \in SUBSET Reqs
    BY <1>8
  <2> QED BY <1>13, <2>1, PrefixCacheAssumption, FS_Subset DEF ExistsBijection
<1>15. Cardinality(U) = Cardinality(H)
  BY <1>14, FS_Bijection
<1> QED BY <1>15 DEF U, H

\* The invariant says of each block and each row what the books should say.
LEMMA BooksBalance == IInv => BlocksAccountedFor
<1> SUFFICES ASSUME IInv PROVE BlocksAccountedFor
  OBVIOUS
<1>1. /\ PoolOk(pool, Holders) /\ pool.free \in Seq(Blocks) /\ Unique(pool.free)
      /\ DOMAIN pool.free = 1..Len(pool.free)
  BY DEF IInv, PoolOk, PoolType
<1>2. ASSUME NEW b \in Blocks
      PROVE  /\ pool.ref[b] = Cardinality(Uses(b))
             /\ Cardinality({i \in DOMAIN pool.free : pool.free[i] = b}) = IF pool.ref[b] = 0 THEN 1 ELSE 0
  <2> DEFINE D == {i \in 1..Len(pool.free) : pool.free[i] = b}
  <2>1. pool.ref[b] = Cardinality(Holders[b]) /\ Holders[b] \in SUBSET Reqs
    BY <1>1 DEF PoolOk
  <2>2. pool.ref[b] = 0 <=> Occurs(pool.free, b)
    BY <1>1, <2>1, CountIs DEF PoolOk
  <2>3. CASE pool.ref[b] = 0
    <3>1. PICK i \in 1..Len(pool.free) : pool.free[i] = b
      BY <2>2, <2>3 DEF Occurs
    <3>2. D = {i}
      BY <1>1, <3>1 DEF Unique
    <3>3. Cardinality(D) = 1
      BY <3>2, FS_Singleton
    <3> QED BY <1>1, <2>1, <2>3, <3>3, UsesCount
  <2>4. CASE pool.ref[b] # 0
    <3>1. D = {}
      BY <2>2, <2>4 DEF Occurs
    <3>2. Cardinality(D) = 0
      BY <3>1, FS_EmptySet
    <3> QED BY <1>1, <2>1, <2>4, <3>2, UsesCount
  <2> QED BY <2>3, <2>4
<1>3. \A r \in Reqs, g \in Groups :
        /\ Len(table[r][g]) = cached[r]
        /\ \A i \in 1..cached[r] : table[r][g][i] # 0 =>
             pool.hash[table[r][g][i]] \in {None, Key(g, asked[r], i)}
  BY DEF IInv, RowsOk, RowOk
<1> QED BY <1>2, <1>3 DEF BlocksAccountedFor

\* Every block is in the queue once or counted for the tables that name it, a
\* table names blocks that are plain or carry the checkpoint of their place.
THEOREM BlocksAreAccountedFor == Spec => []BlocksAccountedFor
BY Starts, Keeps, BooksBalance, PTL DEF Spec

----------------------------------------------------------------------------
(* The promise of PrefixStore                                              *)

Kinds == {"mla", "mamba"}

\* The checkpoints on the blocks of a row, but for the drafter's.
RowKeys(row, h) == Shared({h[b] : b \in {c \in Blocks : h[c] # None} \cap UNION {Range(row[g]) : g \in Groups}})
StoreKeys(h) == Shared({h[b] : b \in {c \in Blocks : h[c] # None}})

\* A checkpoint is in the store if a block carries it.
LEMMA StoreKeysIs ==
  ASSUME NEW h
  PROVE  \A k : k \in StoreKeys(h) <=> k[1] # "swa" /\ k # None /\ \E b \in Blocks : h[b] = k
BY DEF StoreKeys, Shared

\* They are those of the places of the row.
Keyed(row, p, n, h) ==
  \A k : k \in RowKeys(row, h) <=>
    \E g \in Kinds : \E i \in 1..n : row[g][i] # 0 /\ h[row[g][i]] = k /\ k = Key(g, p, i)

\* What a row works on, place by place.
LEMMA RowKeysIs ==
  ASSUME NEW row, NEW p, NEW n \in Nat, NEW h, RowOk(row, p, n, h), n > 0 => p \in Prompts, n <= Len(p)
  PROVE  Keyed(row, p, n, h)
<1>1. /\ row \in Row /\ \A g \in Groups : Len(row[g]) = n /\ DOMAIN row[g] = 1..n /\ \A i \in 1..n : row[g][i] \in Blocks \cup {0}
      /\ \A g \in Groups, i \in 1..n : row[g][i] # 0 => h[row[g][i]] \in {None, Key(g, p, i)}
  BY DEF RowOk, Row
<1>2. ASSUME NEW i \in 1..n PROVE p \in Prompts /\ i \in 1..Len(p)
  <2>1. p \in Prompts
    OBVIOUS
  <2>2. p \in Seq(Segments)
    BY <2>1, PrefixCacheAssumption
  <2> QED BY <2>1, <2>2
<1>3. Kinds \subseteq Groups /\ "swa" \notin Kinds /\ \A g \in Groups : g = "swa" \/ g \in Kinds
  BY GroupsAre DEF Kinds
<1>4. ASSUME NEW k, k \in RowKeys(row, h)
      PROVE  \E g \in Kinds : \E i \in 1..n : row[g][i] # 0 /\ h[row[g][i]] = k /\ k = Key(g, p, i)
  <2> DEFINE R == {Range(row[g]) : g \in Groups}
  <2>1. PICK b \in Blocks : h[b] # None /\ b \in UNION R /\ k = h[b] /\ k[1] # "swa"
    BY <1>4 DEF RowKeys, Shared
  <2>2. PICK x \in R : b \in x
    BY <2>1
  <2>3. PICK g \in Groups : b \in Range(row[g])
    BY <2>2
  <2>4. PICK i \in 1..n : row[g][i] = b
    BY <1>1, <2>3 DEF Range
  <2>5. b # 0
    BY BlockIsNotZero
  <2>6. k = Key(g, p, i)
    BY <1>1, <2>1, <2>4, <2>5
  <2>7. k[1] = g
    BY <1>2, <2>6, KeyIs
  <2> QED BY <1>3, <2>1, <2>4, <2>5, <2>6, <2>7
<1>5. ASSUME NEW g \in Kinds, NEW i \in 1..n, row[g][i] # 0, h[row[g][i]] = Key(g, p, i)
      PROVE  Key(g, p, i) \in RowKeys(row, h)
  <2> DEFINE b == row[g][i]
             R == {Range(row[f]) : f \in Groups}
  <2>1. g \in Groups /\ g # "swa" /\ b \in Blocks
    BY <1>1, <1>3, <1>5
  <2>2. Key(g, p, i) # None /\ Key(g, p, i)[1] = g
    BY <1>2, <2>1, KeyIs
  <2>3. b \in Range(row[g]) /\ Range(row[g]) \in R
    BY <1>1, <2>1 DEF Range
  <2>4. b \in UNION R
    <3> HIDE DEF R, b
    <3> QED BY <2>3
  <2> DEFINE C == {c \in Blocks : h[c] # None}
  <2>5. b \in C \cap UNION R
    BY <1>5, <2>1, <2>2, <2>4
  <2>6. RowKeys(row, h) = {k \in {h[c] : c \in C \cap UNION R} : k[1] # "swa"}
    BY Zenon DEF RowKeys, Shared
  <2> HIDE DEF R, C, b
  <2> QED BY <1>5, <2>1, <2>2, <2>5, <2>6 DEF b
<1> QED BY <1>4, <1>5 DEF Keyed

\* What a segment adds: to the row of r, to no other, and to the store.
SavedKeys(r, i) == IF nostore[r] THEN {} ELSE {Key("mla", asked[r], i), Key("mamba", asked[r], i)}

\* A segment more adds its checkpoints to the store and to the row, and takes
\* none that a row works on.
LEMMA GrowAdds ==
  ASSUME IInv, NEW r \in Reqs, NEW o, NEW t, asked[r] \in Prompts, NEW i \in 1..Len(asked[r]),
         o.hash = pool.hash, PoolOk(o, Held(r, t)), RowOk(t, asked[r], i - 1, pool.hash),
         Len(o.free) >= Len(Order), Grow(r, o, t, i)
  PROVE  /\ RowKeys(table'[r], pool'.hash) = RowKeys(t, pool.hash) \cup SavedKeys(r, i)
         /\ \A q \in Reqs : q # r => RowKeys(table'[q], pool'.hash) = RowKeys(table[q], pool.hash)
         /\ StoreKeys(pool'.hash) \subseteq StoreKeys(pool.hash) \cup SavedKeys(r, i)
         /\ \A q \in Reqs : RowKeys(table'[q], pool'.hash) \subseteq StoreKeys(pool'.hash)
<1> DEFINE bs == NewBlocks(o)
           p == asked[r]
           n == [g \in Groups |-> Append(t[g], bs[g])]
           H == pool'.hash
           h == pool.hash
<1>1. /\ \A g \in Groups : bs[g] \in Blocks /\ ~Names(t, bs[g]) /\ \A q \in Reqs : q # r => ~Names(table[q], bs[g])
      /\ table' = [table EXCEPT ![r] = n] /\ cached' = [cached EXCEPT ![r] = i]
      /\ RowOk(n, p, i, H)
      /\ \A q \in Reqs : q # r => RowOk(table[q], asked[q], cached[q], H)
      /\ PoolOk(pool', Holders')
      /\ \A b \in Blocks : (\A g \in Groups : bs[g] # b) => H[b] = h[b]
      /\ \A g \in Groups : H[bs[g]] = IF nostore[r] \/ ~Retained(g, p, i) THEN None ELSE Key(g, p, i)
  BY GrowIs
<1>2. /\ p \in Prompts /\ p \in Seq(Segments) /\ i \in 1..Len(p) /\ i \in Nat /\ i - 1 \in Nat
      /\ i <= Len(p) /\ i - 1 <= Len(p) /\ RowOk(t, p, i - 1, h)
  <2>1. p \in Seq(Segments)
    BY PrefixCacheAssumption
  <2> QED BY <2>1
<1> HIDE DEF p
<1>3. \A g \in Groups : Len(n[g]) = i /\ n[g][i] = bs[g] /\ \A j \in 1..(i - 1) : n[g][j] = t[g][j]
  <2> TAKE g \in Groups
  <2>1. t[g] \in Seq(Blocks \cup {0}) /\ Len(t[g]) = i - 1 /\ bs[g] \in Blocks \cup {0}
    BY <1>1, <1>2 DEF RowOk, Row
  <2>2. n[g] = Append(t[g], bs[g])
    OBVIOUS
  <2> HIDE DEF n, bs
  <2> QED BY <1>2, <2>1, <2>2
<1> HIDE DEF n, bs, H, h
<1>4. Kinds \subseteq Groups /\ "mla" \in Kinds /\ "mamba" \in Kinds /\ \A g \in Kinds : g \in {"mla", "mamba"} /\ g # "swa"
  BY GroupsAre DEF Kinds
<1>5. \A g \in Kinds : Retained(g, p, i)
  BY <1>4 DEF Retained
<1>6. table'[r] = n /\ \A q \in Reqs : q # r => table'[q] = table[q]
  BY <1>1 DEF IInv, TypeOK
<1>7. \A j \in 1..i : j = i \/ j \in 1..(i - 1)
  BY <1>2
<1>7a. \A j \in 1..(i - 1) : j \in 1..i
  BY <1>2
<1>7b. i \in 1..i
  BY <1>2
\* A block that a row names keeps its hash.
<1>8. ASSUME NEW row, NEW m \in Nat, NEW q \in Reqs, NEW g \in Groups, NEW j \in 1..m,
             (q = r /\ row = t) \/ (q # r /\ row = table[q]),
             row \in Row, Len(row[g]) = m, row[g][j] # 0
      PROVE  H[row[g][j]] = h[row[g][j]]
  <2>1. row[g][j] \in Blocks
    BY <1>8 DEF Row
  <2>2. Names(row, row[g][j])
    BY <1>8 DEF Names, Occurs
  <2> QED BY <1>1, <1>8, <2>1, <2>2
<1>9. RowKeys(n, H) = RowKeys(t, h) \cup SavedKeys(r, i)
  <2>1. \A k : k \in RowKeys(n, H) <=>
          \E g \in Kinds : \E j \in 1..i : n[g][j] # 0 /\ H[n[g][j]] = k /\ k = Key(g, p, j)
    <3>1. RowOk(n, p, i, H) /\ i \in Nat /\ p \in Prompts /\ i <= Len(p)
      BY <1>1, <1>2
    <3>2. Keyed(n, p, i, H)
      BY <3>1, RowKeysIs
    <3> QED BY <3>2 DEF Keyed
  <2>2. \A k : k \in RowKeys(t, h) <=>
          \E g \in Kinds : \E j \in 1..(i - 1) : t[g][j] # 0 /\ h[t[g][j]] = k /\ k = Key(g, p, j)
    <3>1. Keyed(t, p, i - 1, h)
      BY <1>2, RowKeysIs
    <3> QED BY <3>1 DEF Keyed
  <2>3. \A g \in Kinds, j \in 1..(i - 1) : t[g][j] # 0 => H[t[g][j]] = h[t[g][j]]
    <3> TAKE g \in Kinds, j \in 1..(i - 1)
    <3>1. t \in Row /\ Len(t[g]) = i - 1 /\ g \in Groups
      BY <1>2, <1>4 DEF RowOk
    <3> QED BY <1>2, <1>8, <3>1
  <2>4. \A k : k \in SavedKeys(r, i) <=> \E g \in Kinds : ~nostore[r] /\ k = Key(g, p, i)
    BY <1>4 DEF SavedKeys, p
  <2>5. \A g \in Kinds : n[g][i] = bs[g] /\ bs[g] # 0 /\ H[bs[g]] = IF nostore[r] THEN None ELSE Key(g, p, i)
    BY <1>1, <1>3, <1>4, <1>5, BlockIsNotZero
  <2>6. \A g \in Kinds : Key(g, p, i) # None
    BY <1>2, <1>4, KeyIs
  <2>7. ASSUME NEW k, k \in RowKeys(n, H) PROVE k \in RowKeys(t, h) \cup SavedKeys(r, i)
    <3>1. PICK g \in Kinds : \E j \in 1..i : n[g][j] # 0 /\ H[n[g][j]] = k /\ k = Key(g, p, j)
      BY <2>1, <2>7
    <3>2. PICK j \in 1..i : n[g][j] # 0 /\ H[n[g][j]] = k /\ k = Key(g, p, j)
      BY <3>1
    <3>3. CASE j = i
      BY <2>4, <2>5, <2>6, <3>2, <3>3
    <3>4. CASE j \in 1..(i - 1)
      <4>1. n[g][j] = t[g][j]
        BY <1>3, <1>4, <3>4
      <4>2. t[g][j] # 0 /\ h[t[g][j]] = k /\ k = Key(g, p, j)
        BY <2>3, <3>2, <3>4, <4>1
      <4> QED BY <2>2, <3>4, <4>2
    <3> QED BY <1>7, <3>3, <3>4
  <2>8. ASSUME NEW k, k \in RowKeys(t, h) PROVE k \in RowKeys(n, H)
    <3>1. PICK g \in Kinds : \E j \in 1..(i - 1) : t[g][j] # 0 /\ h[t[g][j]] = k /\ k = Key(g, p, j)
      BY <2>2, <2>8
    <3>2. PICK j \in 1..(i - 1) : t[g][j] # 0 /\ h[t[g][j]] = k /\ k = Key(g, p, j)
      BY <3>1
    <3>3. n[g][j] = t[g][j]
      BY <1>3, <1>4
    <3>4. n[g][j] # 0 /\ H[n[g][j]] = k /\ k = Key(g, p, j) /\ j \in 1..i
      BY <1>7a, <2>3, <3>2, <3>3
    <3> QED BY <2>1, <3>4
  <2>9. ASSUME NEW k, k \in SavedKeys(r, i) PROVE k \in RowKeys(n, H)
    <3>1. PICK g \in Kinds : ~nostore[r] /\ k = Key(g, p, i)
      BY <2>4, <2>9
    <3> QED BY <1>7b, <2>1, <2>5, <3>1
  <2> QED BY <2>7, <2>8, <2>9
<1>10. ASSUME NEW q \in Reqs, q # r PROVE RowKeys(table[q], H) = RowKeys(table[q], h)
  <2>1. /\ RowOk(table[q], asked[q], cached[q], h) /\ RowOk(table[q], asked[q], cached[q], H)
        /\ cached[q] \in Nat /\ cached[q] <= Len(asked[q]) /\ asked[q] \in Prompts \cup {<< >>}
    BY <1>1, <1>10 DEF IInv, RowsOk, TypeOK, h
  <2>2. cached[q] > 0 => asked[q] \in Prompts
    BY <2>1
  <2>3. \A k : k \in RowKeys(table[q], h) <=>
          \E g \in Kinds : \E j \in 1..cached[q] :
            table[q][g][j] # 0 /\ h[table[q][g][j]] = k /\ k = Key(g, asked[q], j)
    <3>1. Keyed(table[q], asked[q], cached[q], h)
      BY <2>1, <2>2, RowKeysIs
    <3> QED BY <3>1 DEF Keyed
  <2>4. \A k : k \in RowKeys(table[q], H) <=>
          \E g \in Kinds : \E j \in 1..cached[q] :
            table[q][g][j] # 0 /\ H[table[q][g][j]] = k /\ k = Key(g, asked[q], j)
    <3>1. Keyed(table[q], asked[q], cached[q], H)
      BY <2>1, <2>2, RowKeysIs
    <3> QED BY <3>1 DEF Keyed
  <2>5. \A g \in Kinds, j \in 1..cached[q] : table[q][g][j] # 0 => H[table[q][g][j]] = h[table[q][g][j]]
    <3> TAKE g \in Kinds, j \in 1..cached[q]
    <3>1. table[q] \in Row /\ Len(table[q][g]) = cached[q] /\ g \in Groups
      BY <1>4, <2>1 DEF RowOk
    <3> QED BY <1>8, <1>10, <2>1, <3>1
  <2>6. \A k : k \in RowKeys(table[q], h) <=> k \in RowKeys(table[q], H)
    BY <2>3, <2>4, <2>5
  <2> QED BY <2>6
<1>11. StoreKeys(H) \subseteq StoreKeys(h) \cup SavedKeys(r, i)
  <2> SUFFICES ASSUME NEW k, k \in StoreKeys(H), k \notin StoreKeys(h) PROVE k \in SavedKeys(r, i)
    OBVIOUS
  <2>1. PICK b \in Blocks : H[b] = k /\ k # None /\ k[1] # "swa"
    BY StoreKeysIs
  <2>2. h[b] # H[b]
    BY <2>1, StoreKeysIs
  <2>3. PICK g \in Groups : bs[g] = b
    BY <1>1, <2>2
  <2>4. ~nostore[r] /\ k = Key(g, p, i)
    BY <1>1, <2>1, <2>3
  <2>5. g # "swa"
    BY <1>2, <2>1, <2>4, KeyIs
  <2> QED BY <2>4, <2>5, GroupsAre DEF SavedKeys, p
<1>12. \A row : RowKeys(row, H) \subseteq StoreKeys(H)
  BY DEF RowKeys, StoreKeys, Shared
<1> QED BY <1>6, <1>9, <1>10, <1>11, <1>12 DEF H, h

\* The greatest element is where the others stop.
LEMMA GreatestIs ==
  ASSUME NEW S \in SUBSET Nat, NEW m \in S, \A y \in S : m >= y
  PROVE  Max(S) = m
<1>1. \A y \in S : y \in Nat
  OBVIOUS
<1>2. \A x \in S : (\A y \in S : x >= y) => x = m
  BY <1>1
<1> QED BY <1>2 DEF Max

Resumes(s, p) == Promise!MlaRun(StoreKeys(pool.hash), p) = s.longest /\ Promise!Resume(StoreKeys(pool.hash), p) = s.hit

\* The hit is where a request resumes, whatever the drafter holds.
LEMMA HitIsResume ==
  ASSUME IInv, NEW p \in Prompts, NEW s, Reconciled(s, p)
  PROVE  Resumes(s, p)
<1> DEFINE K == StoreKeys(pool.hash)
           N == Len(p) - 1
           A == {i \in 0..N : \A j \in 1..i : Key("mla", p, j) \in K}
           C == {i \in 0..s.longest : i = 0 \/ Key("mamba", p, i) \in K}
<1>1. /\ N \in Nat /\ s.hit \in 0..N /\ s.longest \in 0..N /\ s.hit <= s.longest
      /\ Run(p, s.longest) /\ (\A j \in (s.longest + 1)..N : ~Run(p, j))
      /\ StateAt("mamba", p, s.hit) /\ \A j \in (s.hit + 1)..s.longest : ~StateAt("mamba", p, j)
  <2>1. p \in Seq(Segments) /\ p # << >>
    BY PrefixCacheAssumption
  <2> QED BY <2>1 DEF Reconciled, Loop
<1>2. \A g \in Kinds, i \in 1..N : Key(g, p, i) \in K <=> Stored(Key(g, p, i))
  <2> TAKE g \in Kinds, i \in 1..N
  <2>1. i \in 1..Len(p) /\ g \in Groups /\ g # "swa"
    <3>1. p \in Seq(Segments)
      BY PrefixCacheAssumption
    <3> QED BY <1>1, <3>1, GroupsAre DEF Kinds
  <2>2. Key(g, p, i) # None /\ Key(g, p, i)[1] # "swa"
    BY <2>1, KeyIs
  <2> QED BY <2>2, StoreKeysIs DEF Stored
<1> HIDE DEF K, N
<1>3. "mla" \in Kinds /\ "mamba" \in Kinds
  BY DEF Kinds
<1>4. \A i \in 0..N : (\A j \in 1..i : Key("mla", p, j) \in K) <=> Run(p, i)
  <2> TAKE i \in 0..N
  <2>1. \A j \in 1..i : j \in 1..N
    BY <1>1
  <2> QED BY <1>2, <1>3, <2>1 DEF Run
<1>5. \A i \in 0..N : (i = 0 \/ Key("mamba", p, i) \in K) <=> StateAt("mamba", p, i)
  <2> TAKE i \in 0..N
  <2>1. i = 0 \/ i \in 1..N
    BY <1>1
  <2> QED BY <1>2, <1>3, <2>1 DEF StateAt
<1>6. Max(A) = s.longest
  <2>1. s.longest \in A
    BY <1>1, <1>4
  <2>2. \A i \in A : s.longest >= i
    <3> TAKE i \in A
    <3>1. i \in 0..N /\ Run(p, i)
      BY <1>4
    <3>2. i > s.longest => i \in (s.longest + 1)..N
      BY <1>1, <3>1
    <3> QED BY <1>1, <3>1, <3>2
  <2>3. A \in SUBSET Nat
    BY <1>1
  <2> HIDE DEF A
  <2> QED BY <2>1, <2>2, <2>3, GreatestIs
<1>7. Max(C) = s.hit
  <2>0. \A i \in 0..s.longest : i \in 0..N
    BY <1>1
  <2>1. s.hit \in C
    BY <1>1, <1>5
  <2>2. \A i \in C : s.hit >= i
    <3> TAKE i \in C
    <3>1. i \in 0..s.longest /\ StateAt("mamba", p, i)
      BY <1>5, <2>0
    <3>2. i > s.hit => i \in (s.hit + 1)..s.longest
      BY <1>1, <3>1
    <3> QED BY <1>1, <3>1, <3>2
  <2>3. C \in SUBSET Nat
    BY <1>1
  <2> HIDE DEF C
  <2> QED BY <2>1, <2>2, <2>3, GreatestIs
<1>8. Promise!MlaRun(K, p) = s.longest
  BY <1>6 DEF Promise!MlaRun, Promise!Key, Key, Promise!Max, Max, N
<1>9. Promise!Resume(K, p) = s.hit
  BY <1>7, <1>8 DEF Promise!Resume, Promise!Key, Key, Promise!Max, Max
<1> QED BY <1>8, <1>9 DEF Resumes, K

\* What PrefixStore sees.
Store == StoreKeys(pool.hash)
Holding == [r \in Reqs |-> RowKeys(table[r], pool.hash)]
DoneOf == [r \in Reqs |-> Done(r)]
Saves == [r \in Reqs |-> ~nostore[r]]

\* The state as PrefixStore sees it.
LEMMA SeenAs ==
  /\ Store = Shared(Checkpoints) /\ Store' = Shared(Checkpoints)'
  /\ Holding = [r \in Reqs |-> Shared({pool.hash[b] : b \in Hashed(pool) \cap UNION {Range(table[r][g]) : g \in Groups}})]
  /\ Holding' = [r \in Reqs |-> Shared({pool.hash[b] : b \in Hashed(pool) \cap UNION {Range(table[r][g]) : g \in Groups}})]'
BY DEF Store, StoreKeys, Checkpoints, Hashed, Holding, RowKeys

LEMMA DoneIs ==
  /\ IInv => DoneOf = cached /\ \A r \in Reqs : Done(r) = cached[r]
  /\ IInv' => DoneOf' = cached' /\ \A r \in Reqs : Done(r)' = cached'[r]
<1>1. IInv => DoneOf = cached /\ \A r \in Reqs : Done(r) = cached[r]
  <2>1. IInv => \A r \in Reqs : Done(r) = cached[r]
    BY GroupsAre DEF IInv, RowsOk, RowOk, Done
  <2> QED BY <2>1 DEF DoneOf, IInv, TypeOK
<1>2. IInv' => DoneOf' = cached' /\ \A r \in Reqs : Done(r)' = cached'[r]
  <2>1. IInv' => \A r \in Reqs : Done(r)' = cached'[r]
    BY GroupsAre DEF IInv, RowsOk, RowOk, Done
  <2> QED BY <2>1 DEF DoneOf, IInv, TypeOK
<1> QED BY <1>1, <1>2

LEMMA AskImplements == ASSUME IInv, NEW r \in Reqs, Ask(r) PROVE Promise!Ask(r)
<1>1. PICK p \in Prompts, b \in BOOLEAN :
        asked' = [asked EXCEPT ![r] = p] /\ nostore' = [nostore EXCEPT ![r] = b]
  BY PrefixCacheAssumption DEF Ask
<1>2. asked[r] = << >> /\ UNCHANGED <<pool, table, misses>>
  BY DEF Ask
<1>3. Saves' = [Saves EXCEPT ![r] = ~b]
  BY <1>1 DEF Saves, IInv, TypeOK
<1>4. Store' = Store /\ Holding' = Holding /\ DoneOf' = DoneOf
  BY <1>2 DEF Store, Holding, DoneOf, Done
<1>5. \E q \in Prompts, v \in BOOLEAN : asked' = [asked EXCEPT ![r] = q] /\ Saves' = [Saves EXCEPT ![r] = v]
  <2>1. (~b) \in BOOLEAN
    OBVIOUS
  <2> QED BY <1>1, <1>3, <2>1
<1> QED BY <1>2, <1>4, <1>5, SeenAs DEF Promise!Ask, Saves, DoneOf

\* A segment as PrefixStore sees it.
LEMMA GrowSeen ==
  ASSUME IInv, IInv', NEW r \in Reqs, NEW o, NEW t, asked[r] \in Prompts, NEW i \in 1..Len(asked[r]),
         o.hash = pool.hash, PoolOk(o, Held(r, t)), RowOk(t, asked[r], i - 1, pool.hash),
         Len(o.free) >= Len(Order), Grow(r, o, t, i)
  PROVE  /\ Holding' = [Holding EXCEPT ![r] = RowKeys(t, pool.hash) \cup SavedKeys(r, i)]
         /\ DoneOf' = [DoneOf EXCEPT ![r] = i]
         /\ Store' \subseteq Store \cup SavedKeys(r, i) /\ \A q \in Reqs : Holding'[q] \subseteq Store'
<1>1. /\ RowKeys(table'[r], pool'.hash) = RowKeys(t, pool.hash) \cup SavedKeys(r, i)
      /\ \A q \in Reqs : q # r => RowKeys(table'[q], pool'.hash) = RowKeys(table[q], pool.hash)
      /\ StoreKeys(pool'.hash) \subseteq StoreKeys(pool.hash) \cup SavedKeys(r, i)
      /\ \A q \in Reqs : RowKeys(table'[q], pool'.hash) \subseteq StoreKeys(pool'.hash)
  BY GrowAdds
<1>2. Store = StoreKeys(pool.hash) /\ Store' = StoreKeys(pool'.hash)
  BY DEF Store
<1>3. Holding = [q \in Reqs |-> RowKeys(table[q], pool.hash)] /\ Holding' = [q \in Reqs |-> RowKeys(table'[q], pool'.hash)]
  BY DEF Holding
<1>4. Holding' = [Holding EXCEPT ![r] = RowKeys(t, pool.hash) \cup SavedKeys(r, i)]
  BY <1>1, <1>3
<1>5. DoneOf' = [DoneOf EXCEPT ![r] = i]
  BY DoneIs DEF Grow
<1> QED BY <1>1, <1>2, <1>3, <1>4, <1>5

\* The new checkpoints, in the terms of PrefixStore.
LEMMA SavedIs ==
  ASSUME NEW r \in Reqs, NEW i
  PROVE  Promise!Saved(r, i) = SavedKeys(r, i)
<1>1. [q \in Reqs |-> ~nostore[q]][r] = ~nostore[r]
  OBVIOUS
<1> QED BY <1>1 DEF Promise!Saved, Promise!Fresh, Promise!Key, SavedKeys, Key

LEMMA MovesIs ==
  ASSUME NEW New, Store' \subseteq Store \cup New, \A q \in Reqs : Holding'[q] \subseteq Store'
  PROVE  Promise!Moves(New)
BY SeenAs DEF Promise!Moves

LEMMA AdvanceImplements == ASSUME IInv, IInv', NEW r \in Reqs, Advance(r) PROVE Promise!Advance(r)
<1> DEFINE o == Skipped(r)
           t == Trimmed(r)
           i == Done(r) + 1
<1>1. /\ asked[r] \in Prompts /\ i \in 1..Len(asked[r]) /\ i - 1 = cached[r]
      /\ o.hash = pool.hash /\ PoolOk(o, Held(r, t)) /\ RowOk(t, asked[r], i - 1, pool.hash)
      /\ Len(o.free) >= Len(Order) /\ Grow(r, o, t, i) /\ UNCHANGED <<asked, nostore, misses, asks>>
      /\ \A g \in Groups : g # "swa" => t[g] = table[r][g]
  BY AdvanceIs
<1>2. Running(r) /\ Done(r) < Len(asked[r]) /\ Done(r) = cached[r] /\ cached[r] \in Nat /\ cached[r] > 0
  BY DoneIs DEF Advance, Running, IInv, TypeOK
<1>3. i = Done(r) + 1
  OBVIOUS
<1> HIDE DEF o, t, i
<1>4. /\ Holding' = [Holding EXCEPT ![r] = RowKeys(t, pool.hash) \cup SavedKeys(r, i)]
      /\ DoneOf' = [DoneOf EXCEPT ![r] = i]
      /\ Store' \subseteq Store \cup SavedKeys(r, i) /\ \A q \in Reqs : Holding'[q] \subseteq Store'
  BY <1>1, GrowSeen
<1>5. cached[r] <= Len(asked[r]) /\ RowOk(table[r], asked[r], cached[r], pool.hash)
  BY DEF IInv, RowsOk
<1>6. RowKeys(t, pool.hash) = RowKeys(table[r], pool.hash)
  <2>1. RowOk(t, asked[r], cached[r], pool.hash)
    BY <1>1
  <2>2. Keyed(t, asked[r], cached[r], pool.hash) /\ Keyed(table[r], asked[r], cached[r], pool.hash)
    BY <1>1, <1>2, <1>5, <2>1, RowKeysIs
  <2>3. \A g \in Kinds : t[g] = table[r][g]
    BY <1>1, GroupsAre DEF Kinds
  <2>4. \A k : k \in RowKeys(t, pool.hash) <=> k \in RowKeys(table[r], pool.hash)
    BY <2>2, <2>3 DEF Keyed
  <2> QED BY <2>4
<1>7. DoneOf[r] = Done(r) /\ Holding[r] = RowKeys(table[r], pool.hash)
  BY DEF DoneOf, Holding
<1>8. DoneOf[r] \in 1..(Len(asked[r]) - 1)
  <2>1. asked[r] \in Seq(Segments)
    BY <1>1, PrefixCacheAssumption
  <2> QED BY <1>2, <1>7, <2>1
<1>9. Promise!Moves(Promise!Saved(r, Done(r) + 1))
  <2>1. Promise!Moves(SavedKeys(r, i))
    BY <1>4, MovesIs
  <2> QED BY <1>3, <2>1, SavedIs
<1>10. DoneOf' = [DoneOf EXCEPT ![r] = @ + 1]
  BY <1>3, <1>4, <1>7
<1>11. Holding' = [Holding EXCEPT ![r] = @ \cup Promise!Saved(r, DoneOf[r] + 1)]
  BY <1>3, <1>4, <1>6, <1>7, SavedIs
<1>12. Saves' = Saves /\ asked' = asked /\ misses' = misses
  BY <1>1 DEF Saves
<1>13. Promise!Moves(Promise!Saved(r, DoneOf[r] + 1))
  BY <1>7, <1>9
<1> QED BY <1>8, <1>10, <1>11, <1>12, <1>13, SeenAs DEF Promise!Advance, DoneOf, Saves

\* What a request that is admitted works on.
LEMMA FoundIs ==
  ASSUME IInv, NEW p \in Prompts, NEW s, Reconciled(s, p), RowOk(HitTable(p, s), p, s.hit, pool.hash)
  PROVE  RowKeys(HitTable(p, s), pool.hash) = Promise!Found(p, s.hit)
<1> DEFINE t == HitTable(p, s)
           n == s.hit
<1>1. HitRow(t, p, n) /\ n \in Nat /\ n <= Len(p)
  <2>1. p \in Seq(Segments)
    BY PrefixCacheAssumption
  <2>2. n \in 0..(Len(p) - 1)
    BY DEF Reconciled, Loop
  <2> QED BY <2>1, <2>2, HitTableIs
<1>2. RowOk(t, p, n, pool.hash)
  OBVIOUS
<1> HIDE DEF t, n
<1>3. Keyed(t, p, n, pool.hash)
  BY <1>1, <1>2, RowKeysIs
<1>4. /\ \A i \in 1..n : t["mla"][i] # 0 /\ (t["mamba"][i] # 0 <=> i = n)
      /\ \A g \in Kinds, i \in 1..n : t[g][i] # 0 => pool.hash[t[g][i]] = Key(g, p, i)
  BY <1>1, GroupsAre DEF HitRow, Kinds
<1>5. Promise!Found(p, n) = {Key("mla", p, j) : j \in 1..n} \cup {Key("mamba", p, j) : j \in {n} \ {0}}
  BY DEF Promise!Found, Promise!Key, Key
<1>6. n # 0 => n \in 1..n
  BY <1>1
<1>6a. \A i \in 1..n : i # 0
  OBVIOUS
<1>7. ASSUME NEW k PROVE k \in RowKeys(t, pool.hash) <=>
        (\E j \in 1..n : k = Key("mla", p, j)) \/ (n # 0 /\ k = Key("mamba", p, n))
  <2>1. k \in RowKeys(t, pool.hash) <=> \E g \in Kinds : \E i \in 1..n : t[g][i] # 0 /\ k = Key(g, p, i)
    BY <1>3, <1>4 DEF Keyed
  <2>2. (\E g \in Kinds : \E i \in 1..n : t[g][i] # 0 /\ k = Key(g, p, i)) <=>
          (\E i \in 1..n : t["mla"][i] # 0 /\ k = Key("mla", p, i)) \/ (\E i \in 1..n : t["mamba"][i] # 0 /\ k = Key("mamba", p, i))
    BY DEF Kinds
  <2>3. (\E i \in 1..n : t["mla"][i] # 0 /\ k = Key("mla", p, i)) <=> \E j \in 1..n : k = Key("mla", p, j)
    BY <1>4
  <2>4. (\E i \in 1..n : t["mamba"][i] # 0 /\ k = Key("mamba", p, i)) <=> (n # 0 /\ k = Key("mamba", p, n))
    BY <1>4, <1>6, <1>6a
  <2> QED BY <2>1, <2>2, <2>3, <2>4
<1>8. ASSUME NEW k PROVE k \in Promise!Found(p, n) <=>
        (\E j \in 1..n : k = Key("mla", p, j)) \/ (n # 0 /\ k = Key("mamba", p, n))
  BY <1>5
<1>9. \A k : k \in RowKeys(t, pool.hash) <=> k \in Promise!Found(p, n)
  BY <1>7, <1>8
<1>10. RowKeys(t, pool.hash) = Promise!Found(p, n)
  <2>1. \E X : X = Promise!Found(p, n)
    OBVIOUS
  <2> QED BY <1>5, <1>9
<1> QED BY <1>10 DEF t, n

LEMMA AdmitImplements == ASSUME IInv, IInv', NEW r \in Reqs, Admit(r) PROVE Promise!Admit(r)
<1>1. PICK s, o :
        /\ asked[r] \in Prompts /\ Reconciled(s, asked[r]) /\ s.hit + 1 \in 1..Len(asked[r])
        /\ o.hash = pool.hash /\ PoolOk(o, Held(r, HitTable(asked[r], s)))
        /\ RowOk(HitTable(asked[r], s), asked[r], s.hit, pool.hash)
        /\ Len(o.free) >= Len(Order) /\ Grow(r, o, HitTable(asked[r], s), s.hit + 1)
        /\ misses' = s.longest - s.hit
  BY AdmitIs
<1> DEFINE t == HitTable(asked[r], s)
           i == s.hit + 1
<1>2. s.hit \in Nat /\ i - 1 = s.hit
  BY <1>1 DEF Reconciled, Loop
<1>3. RowKeys(t, pool.hash) = Promise!Found(asked[r], s.hit)
  BY <1>1, FoundIs
<1>4. /\ i \in 1..Len(asked[r]) /\ PoolOk(o, Held(r, t)) /\ RowOk(t, asked[r], i - 1, pool.hash) /\ Grow(r, o, t, i)
  BY <1>1, <1>2
<1>5. Resumes(s, asked[r])
  BY <1>1, HitIsResume
<1> HIDE DEF t
<1>6. /\ Holding' = [Holding EXCEPT ![r] = RowKeys(t, pool.hash) \cup SavedKeys(r, i)]
      /\ DoneOf' = [DoneOf EXCEPT ![r] = i]
      /\ Store' \subseteq Store \cup SavedKeys(r, i) /\ \A q \in Reqs : Holding'[q] \subseteq Store'
  <2> HIDE DEF i
  <2> QED BY <1>1, <1>4, GrowSeen
<1>7. Promise!Resume(Store, asked[r]) = s.hit /\ Promise!MlaRun(Store, asked[r]) = s.longest
  BY <1>5 DEF Resumes, Store
<1>8. asked[r] # << >> /\ DoneOf[r] = 0 /\ UNCHANGED <<asked, nostore>>
  <2>1. ~Running(r) /\ asked[r] # << >> /\ UNCHANGED <<asked, nostore>>
    BY DEF Admit
  <2>2. Done(r) \in Nat
    BY DoneIs DEF IInv, TypeOK
  <2> QED BY <2>1, <2>2 DEF Running, DoneOf
<1>9. Saves' = Saves
  BY <1>8 DEF Saves
<1>10. Promise!Moves(Promise!Saved(r, s.hit + 1)) /\ Promise!Saved(r, s.hit + 1) = SavedKeys(r, s.hit + 1)
  <2>1. Promise!Moves(SavedKeys(r, i))
    BY <1>6, MovesIs
  <2> QED BY <2>1, SavedIs
<1>11. /\ Holding' = [Holding EXCEPT ![r] = Promise!Found(asked[r], s.hit) \cup Promise!Saved(r, s.hit + 1)]
       /\ DoneOf' = [DoneOf EXCEPT ![r] = s.hit + 1] /\ misses' = Promise!MlaRun(Store, asked[r]) - s.hit
  BY <1>1, <1>3, <1>6, <1>7, <1>10
<1> QED BY <1>7, <1>8, <1>9, <1>10, <1>11, SeenAs DEF Promise!Admit, DoneOf, Saves

\* A request leaves and its checkpoints stay.
LEMMA LeaveImplements ==
  ASSUME IInv, IInv', NEW r \in Reqs, Running(r), Release(r), misses' = misses,
         \/ UNCHANGED <<asked, nostore>>
         \/ /\ Done(r) = Len(asked[r])
            /\ asked' = [asked EXCEPT ![r] = << >>] /\ nostore' = [nostore EXCEPT ![r] = FALSE]
  PROVE  Promise!Leave(r)
<1>1. /\ pool'.hash = pool.hash /\ cached'[r] = 0 /\ \A g \in Groups : table'[r][g] = << >>
      /\ \A q \in Reqs : q # r => table'[q] = table[q] /\ cached'[q] = cached[q]
  BY ReleaseOk
<1>2. Store' = Store
  BY <1>1 DEF Store
<1>3. Holding' = [Holding EXCEPT ![r] = {}]
  <2>1. RowOk(table'[r], asked'[r], 0, pool'.hash)
    BY <1>1 DEF IInv, RowsOk
  <2>2. Len(asked'[r]) >= 0
    BY <1>1 DEF IInv, RowsOk
  <2>3. Keyed(table'[r], asked'[r], 0, pool'.hash)
    BY <2>1, <2>2, RowKeysIs
  <2>4. RowKeys(table'[r], pool'.hash) = {}
    BY <2>3 DEF Keyed
  <2>5. Holding = [q \in Reqs |-> RowKeys(table[q], pool.hash)] /\ Holding' = [q \in Reqs |-> RowKeys(table'[q], pool'.hash)]
    BY DEF Holding
  <2> QED BY <1>1, <2>4, <2>5
<1>4. DoneOf' = [DoneOf EXCEPT ![r] = 0] /\ DoneOf[r] > 0 /\ DoneOf[r] = Done(r)
  <2>1. DoneOf = cached /\ DoneOf' = cached' /\ cached' = [cached EXCEPT ![r] = 0]
    BY DoneIs DEF Release
  <2>2. DoneOf[r] = Done(r)
    BY DEF DoneOf
  <2> QED BY <2>1, <2>2 DEF Running
<1>5. \/ asked' = asked /\ Saves' = Saves
      \/ DoneOf[r] = Len(asked[r]) /\ asked' = [asked EXCEPT ![r] = << >>] /\ Saves' = [Saves EXCEPT ![r] = TRUE]
  <2>1. nostore' = nostore => Saves' = Saves
    BY DEF Saves
  <2>2. nostore' = [nostore EXCEPT ![r] = FALSE] => Saves' = [Saves EXCEPT ![r] = TRUE]
    BY DEF Saves, IInv, TypeOK
  <2> QED BY <1>4, <2>1, <2>2
<1> QED BY <1>2, <1>3, <1>4, <1>5, SeenAs DEF Promise!Leave, DoneOf, Saves

LEMMA ResetImplements == ASSUME IInv, IInv', ResetPrefixCache PROVE Promise!Forget
<1>1. /\ pool' = [pool EXCEPT !.hash = [b \in Blocks |-> None]]
      /\ UNCHANGED <<asked, nostore, table, cached, misses>>
  BY DEF ResetPrefixCache
<1>2. \A b \in Blocks : pool'.hash[b] = None
  BY <1>1 DEF IInv, PoolOk, PoolType
<1>3. Store' = {}
  <2>1. Store' = StoreKeys(pool'.hash)
    BY DEF Store
  <2>2. \A k : k \notin StoreKeys(pool'.hash)
    BY <1>2, StoreKeysIs
  <2> QED BY <2>1, <2>2
<1>4. \A r \in Reqs : Done(r) = 0 /\ cached[r] = 0
  <2> TAKE r \in Reqs
  <2>1. Done(r) = 0
    BY ResetIs, GroupsAre DEF Done
  <2> QED BY <2>1, DoneIs
<1>5. Holding' = Holding
  <2>1. ASSUME NEW r \in Reqs
        PROVE  RowKeys(table[r], pool.hash) = {} /\ RowKeys(table[r], pool'.hash) = {}
    <3>1. RowOk(table[r], asked[r], 0, pool.hash) /\ RowOk(table[r], asked[r], 0, pool'.hash) /\ Len(asked[r]) >= 0
      <4>1. RowOk(table[r], asked[r], cached[r], pool.hash) /\ cached[r] <= Len(asked[r])
        BY DEF IInv, RowsOk
      <4>2. (RowOk(table[r], asked[r], cached[r], pool.hash))'
        BY DEF IInv, RowsOk
      <4> QED BY <1>1, <1>4, <4>1, <4>2
    <3>2. Keyed(table[r], asked[r], 0, pool.hash) /\ Keyed(table[r], asked[r], 0, pool'.hash)
      BY <3>1, RowKeysIs
    <3> QED BY <3>2 DEF Keyed
  <2>2. Holding = [q \in Reqs |-> RowKeys(table[q], pool.hash)] /\ Holding' = [q \in Reqs |-> RowKeys(table'[q], pool'.hash)]
    BY DEF Holding
  <2> QED BY <1>1, <2>1, <2>2
<1>6. \A r \in Reqs : DoneOf[r] = 0
  BY <1>4 DEF DoneOf
<1>7. DoneOf' = DoneOf /\ Saves' = Saves
  BY <1>1 DEF DoneOf, Saves, Done
<1> QED BY <1>1, <1>3, <1>5, <1>6, <1>7, SeenAs DEF Promise!Forget, DoneOf, Saves

LEMMA StartImplements == Init => Promise!Init
<1> SUFFICES ASSUME Init PROVE Promise!Init
  OBVIOUS
<1>1. /\ \A b \in Blocks : pool.hash[b] = None
      /\ asked = [r \in Reqs |-> << >>] /\ nostore = [r \in Reqs |-> FALSE]
      /\ table = [r \in Reqs |-> [g \in Groups |-> << >>]] /\ misses = 0
  BY DEF Init
<1>2. Store = {}
  <2>1. \A k : k \notin StoreKeys(pool.hash)
    BY <1>1, StoreKeysIs
  <2> QED BY <2>1 DEF Store
<1>3. Holding = [r \in Reqs |-> {}]
  <2>1. \A row : RowKeys(row, pool.hash) = {}
    BY <1>1 DEF RowKeys, Shared
  <2> QED BY <2>1 DEF Holding
<1>4. DoneOf = [r \in Reqs |-> 0]
  BY <1>1, GroupsAre DEF DoneOf, Done
<1>5. Saves = [r \in Reqs |-> TRUE]
  BY <1>1 DEF Saves
<1> QED BY <1>1, <1>2, <1>3, <1>4, <1>5, SeenAs DEF Promise!Init, DoneOf, Saves

\* Every step is one of PrefixStore, or leaves what it sees alone.
LEMMA StepImplements == IInv /\ IInv' /\ [Next]_vars => [Promise!Next]_(Promise!vars)
<1> SUFFICES ASSUME IInv, IInv', [Next]_vars PROVE Promise!Next \/ UNCHANGED Promise!vars
  OBVIOUS
<1>1. ASSUME NEW r \in Reqs, Ask(r) PROVE Promise!Next
  BY <1>1, AskImplements DEF Promise!Next
<1>2. ASSUME NEW r \in Reqs, Admit(r) PROVE Promise!Next
  BY <1>2, AdmitImplements DEF Promise!Next
<1>3. ASSUME NEW r \in Reqs, Advance(r) PROVE Promise!Next
  BY <1>3, AdvanceImplements DEF Promise!Next
<1>4. ASSUME NEW r \in Reqs, Finish(r) PROVE Promise!Next
  <2>1. Promise!Leave(r)
    BY <1>4, LeaveImplements DEF Finish
  <2> QED BY <2>1 DEF Promise!Next
<1>5. ASSUME NEW r \in Reqs, Preempt(r) PROVE Promise!Next
  <2>1. Promise!Leave(r)
    BY <1>5, LeaveImplements DEF Preempt
  <2> QED BY <2>1 DEF Promise!Next
<1>6. CASE ResetPrefixCache
  BY <1>6, ResetImplements DEF Promise!Next
<1>7. CASE UNCHANGED vars
  <2>1. UNCHANGED <<pool, asked, nostore, table, misses>>
    BY <1>7 DEF vars
  <2>2. Store' = Store /\ Holding' = Holding /\ DoneOf' = DoneOf /\ Saves' = Saves
    BY <2>1 DEF Store, Holding, DoneOf, Saves, Done
  <2> QED BY <2>1, <2>2, SeenAs DEF Promise!vars, DoneOf, Saves
<1> QED BY <1>1, <1>2, <1>3, <1>4, <1>5, <1>6, <1>7 DEF Next

\* The pool, the queue, the tables and the reconciliation of three groups
\* implement PrefixStore: a request resumes at the longest prefix that has
\* both checkpoints whatever the drafter holds, what it works on stays, and
\* one that must not store adds nothing.
THEOREM PromiseKept == Spec => ImplementsPrefixStore
<1>1. Spec => []IInv
  BY Starts, Keeps, PTL DEF Spec
<1>2. Spec => Promise!Spec
  BY <1>1, StartImplements, StepImplements, PTL DEF Spec, Promise!Spec
<1> QED BY <1>2 DEF ImplementsPrefixStore
=============================================================================

--------------------------- MODULE CommonLemmas ---------------------------
(***************************************************************************)
(* Facts the proofs of several modules rest on: least and greatest         *)
(* elements, integer division, what holds step by step up to a bound,      *)
(* parts of sequences, and places in a set of numbers.                     *)
(***************************************************************************)
EXTENDS Integers, Sequences, FiniteSetsExt, FiniteSetTheorems,
  WellFoundedInduction, SequenceTheorems, TLAPS

(* Every nonempty set of naturals has a least element.                     *)
LEMMA MinOfNaturals ==
  ASSUME NEW S \in SUBSET Nat, S # {}
  PROVE  Min(S) \in S /\ \A y \in S : Min(S) <= y
<1>1. IsWellFoundedOn(OpToRel(<, Nat), Nat)
  BY NatLessThanWellFounded, Zenon
<1>2. PICK x \in S : \A y \in S : ~(<<y, x>> \in OpToRel(<, Nat))
  BY <1>1, WFMin
<1>3. \A y \in S : ~(y < x)
  BY <1>2, Zenon DEF OpToRel
<1>4. QED
  <2>1. x \in S /\ \A y \in S : x <= y
    BY <1>3
  <2> QED BY <2>1 DEF Min

(* Every nonempty bounded set of naturals has a greatest element.          *)
LEMMA MaxOfBounded ==
  ASSUME NEW b \in Nat, NEW S \in SUBSET (0..b), S # {}
  PROVE  Max(S) \in S /\ \A y \in S : Max(S) >= y
<1> DEFINE T == {b - x : x \in S}
<1>1. T \in SUBSET Nat /\ T # {}
  <2>1. PICK z \in S : TRUE
    OBVIOUS
  <2>2. b - z \in T
    OBVIOUS
  <2>3. \A x \in S : b - x \in Nat
    OBVIOUS
  <2> QED BY <2>2, <2>3
<1>2. Min(T) \in T /\ \A y \in T : Min(T) <= y
  BY <1>1, MinOfNaturals
<1>3. PICK m \in S : Min(T) = b - m
  BY <1>2
<1>4. \A y \in S : m >= y
  <2> TAKE y \in S
  <2>1. b - y \in T
    OBVIOUS
  <2>2. b - m <= b - y
    BY <1>2, <1>3, <2>1
  <2> QED BY <2>2
<1>5. QED
  BY <1>4 DEF Max

(* The same of two numbers.                                                *)
LEMMA MinOfPair ==
  ASSUME NEW a \in Nat, NEW b \in Nat
  PROVE  Min({a, b}) = IF a <= b THEN a ELSE b
<1>1. {a, b} \in SUBSET Nat /\ {a, b} # {}
  OBVIOUS
<1>2. Min({a, b}) \in {a, b} /\ \A y \in {a, b} : Min({a, b}) <= y
  BY <1>1, MinOfNaturals
<1> QED BY <1>2

LEMMA MaxOfPair ==
  ASSUME NEW a \in Nat, NEW b \in Nat
  PROVE  Max({a, b}) = IF a >= b THEN a ELSE b
<1>1. {a, b} \in SUBSET (0..(a + b)) /\ {a, b} # {}
  OBVIOUS
<1>2. Max({a, b}) \in {a, b} /\ \A y \in {a, b} : Max({a, b}) >= y
  BY <1>1, MaxOfBounded
<1> QED BY <1>2

(* A weighted mean of two values of 0..M, rounded either way, is in 0..M.  *)
LEMMA MixBound ==
  ASSUME NEW M \in Nat, NEW x \in 0..M, NEW y \in 0..M,
         NEW D \in Nat \ {0}, NEW a \in 0..D
  PROVE  LET n == x * a + y * (D - a)
         IN  /\ n \div D \in 0..M
             /\ n % D # 0 => n \div D + 1 \in 0..M
<1> DEFINE n == x * a + y * (D - a)
<1>1. n \in Nat
  OBVIOUS
<1>2. x * a <= M * a /\ y * (D - a) <= M * (D - a)
  OBVIOUS
<1>3. M * a + M * (D - a) = M * D
  OBVIOUS
<1>4. n <= M * D
  BY <1>1, <1>2, <1>3
<1> DEFINE q == n \div D
           m == n % D
<1>5. q \in Nat /\ m \in 0..(D - 1) /\ n = D * q + m
  BY <1>1
<1>6. D * q + m <= D * M
  BY <1>4, <1>5
<1>7. q <= M
  <2> SUFFICES ASSUME q >= M + 1 PROVE FALSE
    BY <1>5
  <2>1. D * q >= D * (M + 1)
    BY <1>5
  <2> QED BY <2>1, <1>5, <1>6
<1>8. m # 0 => q + 1 <= M
  <2> SUFFICES ASSUME q >= M, m # 0 PROVE FALSE
    BY <1>5
  <2>1. D * q >= D * M
    BY <1>5
  <2> QED BY <2>1, <1>5, <1>6
<1> QED BY <1>5, <1>7, <1>8

----------------------------------------------------------------------------
(* What is done step by step, and parts of sequences                       *)

\* What holds at 0, and at i when it holds at i - 1, holds up to n.  The steps
\* are the members of a set: no operator is a parameter.
LEMMA UpTo ==
  ASSUME NEW n \in Nat, NEW B, 0 \in B, \A i \in 1..n : i - 1 \in B => i \in B
  PROVE  \A i \in 0..n : i \in B
<1> DEFINE Bad == {i \in 0..n : i \notin B}
<1> SUFFICES ASSUME Bad # {} PROVE FALSE
  OBVIOUS
<1>1. Min(Bad) \in Bad /\ \A y \in Bad : Min(Bad) <= y
  <2>1. Bad \in SUBSET Nat
    OBVIOUS
  <2> HIDE DEF Bad
  <2> QED BY <2>1, MinOfNaturals
<1> DEFINE m == Min(Bad)
<1>2. m \in 0..n /\ m \notin B /\ \A y \in 0..n : y \notin B => m <= y
  BY <1>1
<1> HIDE DEF m, Bad
<1>3. m \in 1..n
  BY <1>2
<1>4. m - 1 \in B
  BY <1>2, <1>3
<1> QED BY <1>2, <1>3, <1>4

\* F[i] applied in turn, from s: what a recursive function over 0..n computes.
Iterates(f, n, S, s, F) ==
  /\ f \in [0..n -> S] /\ f = [i \in 0..n |-> IF i = 0 THEN s ELSE F[i][f[i - 1]]]

\* A function defined from its value before exists, and stays in S.
LEMMA Iterated ==
  ASSUME NEW n \in Nat, NEW S, NEW s \in S, NEW F \in [1..n -> [S -> S]]
  PROVE  \E f : Iterates(f, n, S, s, F)
<1> DEFINE Good(k) == \E f \in [0..k -> S] : f[0] = s /\ \A i \in 1..k : f[i] = F[i][f[i - 1]]
           B == {k \in 0..n : Good(k)}
<1>1. Good(0)
  <2> DEFINE f == [i \in 0..0 |-> s]
  <2>1. f \in [0..0 -> S] /\ f[0] = s
    OBVIOUS
  <2>2. 1..0 = {}
    OBVIOUS
  <2> HIDE DEF f
  <2> QED BY <2>1, <2>2
<1>2. ASSUME NEW k \in 1..n, Good(k - 1) PROVE Good(k)
  <2>1. PICK f \in [0..(k - 1) -> S] : f[0] = s /\ \A i \in 1..(k - 1) : f[i] = F[i][f[i - 1]]
    BY <1>2
  <2> DEFINE h == [i \in 0..k |-> IF i = k THEN F[k][f[k - 1]] ELSE f[i]]
  <2>2. F[k][f[k - 1]] \in S
    OBVIOUS
  <2>3. h \in [0..k -> S]
    BY <2>2
  <2>4. h[0] = s
    BY <2>1
  <2>5. ASSUME NEW i \in 1..k PROVE h[i] = F[i][h[i - 1]]
    BY <2>1
  <2> HIDE DEF h
  <2> QED BY <2>3, <2>4, <2>5
<1> HIDE DEF Good
<1>3. 0 \in B /\ \A i \in 1..n : i - 1 \in B => i \in B
  BY <1>1, <1>2
<1>4. Good(n)
  <2>1. \A i \in 0..n : i \in B
    <3> HIDE DEF B
    <3> QED BY <1>3, UpTo
  <2> QED BY <2>1
<1>5. PICK f \in [0..n -> S] : f[0] = s /\ \A i \in 1..n : f[i] = F[i][f[i - 1]]
  BY <1>4 DEF Good
<1>6. \A i \in 0..n : f[i] = IF i = 0 THEN s ELSE F[i][f[i - 1]]
  BY <1>5
<1> QED BY <1>5, <1>6 DEF Iterates

\* The sums of the first numbers of f.
Sums(u, n, f) ==
  /\ u \in [0..n -> Nat] /\ u = [k \in 0..n |-> IF k = 0 THEN 0 ELSE u[k - 1] + f[k]]

LEMMA Summed ==
  ASSUME NEW n \in Nat, NEW f \in [1..n -> Nat]
  PROVE  \E u : Sums(u, n, f)
<1> DEFINE F == [k \in 1..n |-> [x \in Nat |-> x + f[k]]]
<1>1. F \in [1..n -> [Nat -> Nat]] /\ \A k \in 1..n, x \in Nat : F[k][x] = x + f[k]
  OBVIOUS
<1> HIDE DEF F
<1>2. PICK u : Iterates(u, n, Nat, 0, F)
  BY <1>1, Iterated
<1>3. u \in [0..n -> Nat] /\ u = [k \in 0..n |-> IF k = 0 THEN 0 ELSE F[k][u[k - 1]]]
  BY <1>2 DEF Iterates
<1>4. ASSUME NEW k \in 1..n PROVE F[k][u[k - 1]] = u[k - 1] + f[k]
  <2>1. k - 1 \in 0..n
    OBVIOUS
  <2>2. u[k - 1] \in Nat
    BY <1>3, <2>1
  <2> QED BY <1>1, <2>2
<1>5. u = [k \in 0..n |-> IF k = 0 THEN 0 ELSE u[k - 1] + f[k]]
  <2>1. \A k \in 0..n : k = 0 \/ k \in 1..n
    OBVIOUS
  <2> QED BY <1>3, <1>4, <2>1
<1> QED BY <1>3, <1>5 DEF Sums

\* A sum up to a place does not fall below the sums before it.
LEMMA SumsGrow ==
  ASSUME NEW n \in Nat, NEW f \in [1..n -> Nat], NEW u, Sums(u, n, f)
  PROVE  /\ u[0] = 0 /\ \A k \in 0..n : u[k] \in Nat
         /\ \A k \in 1..n : u[k] = u[k - 1] + f[k]
         /\ \A k \in 1..n, m \in 0..n : k <= m => u[k - 1] + f[k] <= u[m]
<1>1. u[0] = 0 /\ (\A k \in 0..n : u[k] \in Nat) /\ \A k \in 1..n : u[k] = u[k - 1] + f[k] /\ f[k] \in Nat
  BY DEF Sums
<1>2. ASSUME NEW k \in 1..n PROVE \A m \in 0..n : k <= m => u[k] <= u[m]
  <2> DEFINE B == {m \in 0..n : k <= m => u[k] <= u[m]}
  <2>1. 0 \in B
    OBVIOUS
  <2>2. ASSUME NEW m \in 1..n, m - 1 \in B PROVE m \in B
    <3>1. m = k \/ m < k \/ k <= m - 1
      OBVIOUS
    <3>2. u[m - 1] \in Nat /\ u[m] = u[m - 1] + f[m] /\ f[m] \in Nat /\ u[k] \in Nat
      <4>1. m - 1 \in 0..n /\ k \in 0..n
        OBVIOUS
      <4> QED BY <1>1, <4>1
    <3> QED BY <2>2, <3>1, <3>2
  <2> HIDE DEF B
  <2>3. \A m \in 0..n : m \in B
    BY <2>1, <2>2, UpTo
  <2> QED BY <2>3 DEF B
<1>3. \A k \in 1..n, m \in 0..n : k <= m => u[k - 1] + f[k] <= u[m]
  <2> TAKE k \in 1..n, m \in 0..n
  <2> QED BY <1>1, <1>2
<1> QED BY <1>1, <1>3

\* A concatenation, by its elements.
LEMMA Joined ==
  ASSUME NEW S, NEW u \in Seq(S), NEW v \in Seq(S)
  PROVE  LET x == u \o v
         IN  /\ x \in Seq(S) /\ Len(x) = Len(u) + Len(v) /\ Len(u) \in Nat /\ Len(v) \in Nat
             /\ \A i \in 1..Len(u) : x[i] = u[i]
             /\ \A i \in 1..Len(v) : x[Len(u) + i] = v[i]
<1> DEFINE x == u \o v
<1>1. x \in Seq(S) /\ Len(x) = Len(u) + Len(v) /\ Len(u) \in Nat /\ Len(v) \in Nat
  BY ConcatProperties
<1>2. \A i \in 1..Len(u) : x[i] = u[i]
  OBVIOUS
<1>3. \A i \in 1..Len(v) : x[Len(u) + i] = v[i]
  OBVIOUS
<1> QED BY <1>1, <1>2, <1>3

\* A part of a sequence, by its elements.
LEMMA PartIs ==
  ASSUME NEW S, NEW x \in Seq(S), NEW a \in Nat, NEW b \in Nat, a <= b, b <= Len(x)
  PROVE  LET y == SubSeq(x, a + 1, b)
         IN  y \in Seq(S) /\ Len(y) = b - a /\ \A i \in 1..(b - a) : y[i] = x[a + i]
OBVIOUS

\* Sequences are equal when their elements are.
LEMMA SameSeq ==
  ASSUME NEW S, NEW x \in Seq(S), NEW y \in Seq(S), Len(x) = Len(y), \A i \in 1..Len(x) : x[i] = y[i]
  PROVE  x = y
OBVIOUS

\* One element more.
LEMMA Extend ==
  ASSUME NEW S, NEW u \in Seq(S), NEW ts \in Seq(S), NEW k \in 0..(Len(ts) - 1)
  PROVE  Append(u \o SubSeq(ts, 1, k), ts[k + 1]) = u \o SubSeq(ts, 1, k + 1)
<1> DEFINE a == SubSeq(ts, 1, k)
           b == SubSeq(ts, 1, k + 1)
           e == ts[k + 1]
<1>1. /\ a \in Seq(S) /\ Len(a) = k /\ (\A i \in 1..k : a[i] = ts[i])
      /\ b \in Seq(S) /\ Len(b) = k + 1 /\ (\A i \in 1..(k + 1) : b[i] = ts[i])
      /\ e \in S /\ b[k + 1] = e /\ k \in Nat
  OBVIOUS
<1> HIDE DEF a, b, e
<1> DEFINE p == u \o a
           x == Append(p, e)
           y == u \o b
           n == Len(u)
<1>2. /\ p \in Seq(S) /\ Len(p) = n + k /\ n \in Nat /\ (\A i \in 1..n : p[i] = u[i])
      /\ (\A i \in 1..k : p[n + i] = a[i])
  <2>1. a \in Seq(S) /\ Len(a) = k
    BY <1>1
  <2>2. /\ p \in Seq(S) /\ Len(p) = n + Len(a) /\ n \in Nat /\ (\A i \in 1..n : p[i] = u[i])
        /\ (\A i \in 1..Len(a) : p[n + i] = a[i])
    <3>1. u \in Seq(S) /\ a \in Seq(S)
      BY <2>1
    <3> QED BY <3>1, Joined
  <2> HIDE DEF p, n
  <2> QED BY <2>1, <2>2
<1>3. /\ y \in Seq(S) /\ Len(y) = n + (k + 1) /\ (\A i \in 1..n : y[i] = u[i])
      /\ (\A i \in 1..(k + 1) : y[n + i] = b[i])
  <2>1. b \in Seq(S) /\ Len(b) = k + 1
    BY <1>1
  <2>2. /\ y \in Seq(S) /\ Len(y) = n + Len(b) /\ n \in Nat /\ (\A i \in 1..n : y[i] = u[i])
        /\ (\A i \in 1..Len(b) : y[n + i] = b[i])
    <3>1. u \in Seq(S) /\ b \in Seq(S)
      BY <2>1
    <3> QED BY <3>1, Joined
  <2> HIDE DEF y, n
  <2> QED BY <2>1, <2>2
<1> HIDE DEF p, n
<1>4. x \in Seq(S) /\ Len(x) = n + k + 1 /\ (\A i \in 1..(n + k) : x[i] = p[i]) /\ x[n + k + 1] = e
  BY <1>1, <1>2
<1> HIDE DEF x, y
<1>5. \A i \in 1..Len(x) : x[i] = y[i]
  <2> TAKE i \in 1..Len(x)
  <2>1. i \in 1..n \/ i = n + k + 1 \/ (i - n \in 1..k /\ i = n + (i - n))
    BY <1>1, <1>2, <1>4
  <2>2. CASE i \in 1..n
    <3>1. i \in 1..(n + k)
      BY <1>1, <1>2, <2>2
    <3> QED BY <1>2, <1>3, <1>4, <2>2, <3>1
  <2>3. CASE i = n + k + 1
    <3>1. i = n + (k + 1) /\ k + 1 \in 1..(k + 1)
      BY <1>1, <1>2, <2>3
    <3>2. y[n + (k + 1)] = b[k + 1]
      BY <1>3, <3>1
    <3>3. x[i] = e
      BY <1>4, <2>3
    <3> QED BY <1>1, <3>1, <3>2, <3>3
  <2>4. ASSUME NEW j, j \in 1..k, i = n + j PROVE x[i] = y[i]
    <3>1. i \in 1..(n + k) /\ j \in 1..(k + 1)
      BY <1>1, <1>2, <2>4
    <3>2. p[n + j] = a[j]
      BY <1>2, <2>4
    <3>3. y[n + j] = b[j]
      BY <1>3, <3>1
    <3>4. a[j] = b[j]
      BY <1>1, <2>4, <3>1
    <3>5. x[i] = p[i]
      BY <1>4, <3>1
    <3> QED BY <2>4, <3>2, <3>3, <3>4, <3>5
  <2> QED BY <2>1, <2>2, <2>3, <2>4
<1>6. Len(x) = Len(y)
  BY <1>1, <1>2, <1>3, <1>4
<1>7. x = y
  BY <1>3, <1>4, <1>5, <1>6, SameSeq
<1> QED BY <1>7 DEF x, y, p, a, b, e

\* A part that the longer sequence keeps.
LEMMA PartKept ==
  ASSUME NEW S, NEW u \in Seq(S), NEW v \in Seq(S), NEW a \in Nat, NEW b \in Nat, a <= b, b <= Len(u)
  PROVE  SubSeq(u \o v, a + 1, b) = SubSeq(u, a + 1, b)
<1> DEFINE x == u \o v
           y == SubSeq(x, a + 1, b)
           z == SubSeq(u, a + 1, b)
<1>1. /\ x \in Seq(S) /\ Len(x) = Len(u) + Len(v) /\ Len(u) \in Nat /\ Len(v) \in Nat
      /\ \A i \in 1..Len(u) : x[i] = u[i]
  BY Joined
<1> HIDE DEF x
<1>2. b <= Len(x)
  BY <1>1
<1>3. y \in Seq(S) /\ Len(y) = b - a /\ \A i \in 1..(b - a) : y[i] = x[a + i]
  BY <1>1, <1>2, PartIs
<1>4. z \in Seq(S) /\ Len(z) = b - a /\ \A i \in 1..(b - a) : z[i] = u[a + i]
  BY PartIs
<1> HIDE DEF y, z
<1>5. \A i \in 1..(b - a) : a + i \in 1..Len(u)
  BY <1>1
<1>6. y = z
  BY <1>1, <1>3, <1>4, <1>5, SameSeq
<1> QED BY <1>6 DEF x, y, z

\* A part that goes over from one sequence to the next.
LEMMA PartGrows ==
  ASSUME NEW S, NEW u \in Seq(S), NEW v \in Seq(S), NEW a \in 0..Len(u), NEW k \in 0..Len(v)
  PROVE  SubSeq(u, a + 1, Len(u)) \o SubSeq(v, 1, k) = SubSeq(u \o v, a + 1, Len(u) + k)
<1> DEFINE x == u \o v
           y == SubSeq(u, a + 1, Len(u))
           z == SubSeq(v, 1, k)
           w == y \o z
           r == SubSeq(x, a + 1, Len(u) + k)
<1>1. /\ x \in Seq(S) /\ Len(x) = Len(u) + Len(v) /\ Len(u) \in Nat /\ Len(v) \in Nat
      /\ (\A i \in 1..Len(u) : x[i] = u[i]) /\ \A i \in 1..Len(v) : x[Len(u) + i] = v[i]
  BY Joined
<1> HIDE DEF x
<1>2. a \in Nat /\ a <= Len(u) /\ k \in Nat /\ k <= Len(v) /\ 0 \in Nat /\ 0 <= k /\ 0 + 1 = 1 /\ k - 0 = k
      /\ Len(u) + k \in Nat /\ a <= Len(u) + k /\ Len(u) + k <= Len(x)
  BY <1>1
<1>3. y \in Seq(S) /\ Len(y) = Len(u) - a /\ \A i \in 1..(Len(u) - a) : y[i] = u[a + i]
  BY <1>1, <1>2, PartIs
<1>4. z \in Seq(S) /\ Len(z) = k /\ \A i \in 1..k : z[i] = v[i]
  OBVIOUS
<1>5. r \in Seq(S) /\ Len(r) = Len(u) + k - a /\ \A i \in 1..(Len(u) + k - a) : r[i] = x[a + i]
  BY <1>1, <1>2, PartIs
<1> HIDE DEF y, z, r
<1>6. w \in Seq(S) /\ Len(w) = Len(y) + Len(z) /\ (\A i \in 1..Len(y) : w[i] = y[i])
      /\ \A i \in 1..Len(z) : w[Len(y) + i] = z[i]
  <2>1. y \in Seq(S) /\ z \in Seq(S)
    BY <1>3, <1>4
  <2> QED BY <2>1, Joined
<1> HIDE DEF w
<1>7. Len(w) = Len(r)
  BY <1>1, <1>2, <1>3, <1>4, <1>5, <1>6
<1>8. ASSUME NEW i \in 1..Len(w) PROVE w[i] = r[i]
  <2>1. r[i] = x[a + i]
    BY <1>1, <1>2, <1>5, <1>7
  <2>2. CASE i \in 1..Len(y)
    <3>1. a + i \in 1..Len(u)
      BY <1>1, <1>2, <1>3, <2>2
    <3> QED BY <1>1, <1>3, <1>6, <2>1, <2>2, <3>1
  <2>3. CASE ~(i \in 1..Len(y))
    <3> DEFINE j == i - Len(y)
    <3>1. j \in 1..k /\ i = Len(y) + j /\ a + i = Len(u) + j
      BY <1>1, <1>2, <1>3, <1>4, <1>6, <2>3
    <3> HIDE DEF j
    <3>2. w[i] = z[j] /\ z[j] = v[j]
      BY <1>4, <1>6, <3>1
    <3>3. x[a + i] = v[j]
      BY <1>1, <1>2, <3>1
    <3> QED BY <2>1, <3>2, <3>3
  <2> QED BY <2>2, <2>3
<1>9. w = r
  BY <1>5, <1>6, <1>7, <1>8, SameSeq
<1> QED BY <1>9 DEF x, y, z, w, r

\* A part of what was added.
LEMMA PartAdded ==
  ASSUME NEW S, NEW u \in Seq(S), NEW v \in Seq(S), NEW c \in 0..Len(v), NEW k \in 0..(Len(v) - c),
         NEW r \in Seq(S), Len(r) = Len(v) - c, \A j \in 1..Len(r) : r[j] = v[c + j]
  PROVE  SubSeq(u \o v, Len(u) + c + 1, Len(u) + c + k) = SubSeq(r, 1, k)
<1> DEFINE x == u \o v
           a == Len(u) + c
           y == SubSeq(x, a + 1, a + k)
           z == SubSeq(r, 1, k)
<1>1. /\ x \in Seq(S) /\ Len(x) = Len(u) + Len(v) /\ Len(u) \in Nat /\ Len(v) \in Nat
      /\ \A i \in 1..Len(v) : x[Len(u) + i] = v[i]
  BY Joined
<1> HIDE DEF x
<1>2. a \in Nat /\ a + k \in Nat /\ a <= a + k /\ a + k <= Len(x) /\ (a + k) - a = k /\ k <= Len(r)
  BY <1>1
<1>3. z \in Seq(S) /\ Len(z) = k /\ \A i \in 1..k : z[i] = r[i]
  BY <1>2
<1>4. \A i \in 1..k : i \in 1..Len(r) /\ c + i \in 1..Len(v) /\ a + i = Len(u) + (c + i)
  BY <1>1
<1> HIDE DEF a
<1>5. y \in Seq(S) /\ Len(y) = k /\ \A i \in 1..k : y[i] = x[a + i]
  <2> DEFINE b == a + k
  <2>1. a \in Nat /\ b \in Nat /\ a <= b /\ b <= Len(x) /\ b - a = k
    BY <1>2
  <2> HIDE DEF b
  <2>2. LET p == SubSeq(x, a + 1, b)
        IN  p \in Seq(S) /\ Len(p) = b - a /\ \A i \in 1..(b - a) : p[i] = x[a + i]
    BY <1>1, <2>1, PartIs
  <2>3. y = SubSeq(x, a + 1, b)
    BY DEF b
  <2> HIDE DEF y
  <2> QED BY <2>1, <2>2, <2>3
<1> HIDE DEF y, z
<1>6. \A i \in 1..k : y[i] = z[i]
  <2> TAKE i \in 1..k
  <2>1. y[i] = x[Len(u) + (c + i)]
    BY <1>4, <1>5
  <2>2. x[Len(u) + (c + i)] = v[c + i]
    BY <1>1, <1>4
  <2>3. z[i] = r[i] /\ r[i] = v[c + i]
    BY <1>3, <1>4
  <2> QED BY <2>1, <2>2, <2>3
<1>7. y = z
  BY <1>3, <1>5, <1>6, SameSeq
<1> QED BY <1>7 DEF x, y, z, a

----------------------------------------------------------------------------
(* Places in a set of naturals                                           *)

\* How many elements of a set come no later than i.
Rank(P, i) == Cardinality({j \in P : j <= i})

LEMMA Ranks ==
  ASSUME NEW n \in Nat, NEW P \in SUBSET (1..n)
  PROVE  /\ Cardinality(P) \in Nat
         /\ \A i \in P : Rank(P, i) \in 1..Cardinality(P)
         /\ \A i, j \in P : Rank(P, i) = Rank(P, j) => i = j
         /\ \A k \in 1..Cardinality(P) : \E i \in P : Rank(P, i) = k
<1> DEFINE Upto(m) == {j \in P : j <= m}
<1>0. P \subseteq 1..n /\ \A j \in P : j \in 1..n /\ j \in Nat
  OBVIOUS
<1>1. IsFiniteSet(P) /\ Cardinality(P) \in Nat
  <2>1. IsFiniteSet(1..n)
    BY FS_Interval
  <2>2. IsFiniteSet(P)
    BY <1>0, <2>1, FS_Subset
  <2> QED BY <2>2, FS_CardinalityType
<1>2. ASSUME NEW m
      PROVE  IsFiniteSet(Upto(m)) /\ Cardinality(Upto(m)) \in Nat /\ Cardinality(Upto(m)) <= Cardinality(P)
  <2>1. Upto(m) \in SUBSET P
    OBVIOUS
  <2> HIDE DEF Upto
  <2>2. IsFiniteSet(Upto(m)) /\ Cardinality(Upto(m)) <= Cardinality(P)
    BY <1>1, <2>1, FS_Subset
  <2> QED BY <2>2, FS_CardinalityType
<1>3. Cardinality(Upto(0)) = 0 /\ Cardinality(Upto(n)) = Cardinality(P)
  <2>1. Upto(0) = {} /\ Upto(n) = P
    <3>1. \A j \in P : ~(j <= 0) /\ j <= n
      BY <1>0
    <3> QED BY <3>1
  <2> HIDE DEF Upto
  <2> QED BY <2>1, FS_EmptySet
<1>4. ASSUME NEW m \in 1..n
      PROVE  Cardinality(Upto(m)) = IF m \in P THEN Cardinality(Upto(m - 1)) + 1 ELSE Cardinality(Upto(m - 1))
  <2>1. CASE m \in P
    <3>1. Upto(m) = Upto(m - 1) \cup {m} /\ m \notin Upto(m - 1)
      <4>1. (\A j \in P : j <= m <=> j <= m - 1 \/ j = m) /\ ~(m <= m - 1)
        BY <1>0
      <4> QED BY <2>1, <4>1
    <3> HIDE DEF Upto
    <3> QED BY <1>2, <2>1, <3>1, FS_AddElement
  <2>2. CASE m \notin P
    <3>1. Upto(m) = Upto(m - 1)
      <4>1. \A j \in P : j <= m <=> j <= m - 1
        BY <1>0, <2>2
      <4> QED BY <4>1
    <3> QED BY <2>2, <3>1
  <2> QED BY <2>1, <2>2
<1>5. ASSUME NEW i \in P, NEW j \in P, i < j
      PROVE  Cardinality(Upto(i)) < Cardinality(Upto(j))
  <2>1. Upto(i) \in SUBSET Upto(j - 1) /\ j \in 1..n
    <3>1. i \in 1..n /\ j \in 1..n /\ \A x \in P : x <= i => x <= j - 1
      BY <1>0, <1>5
    <3> QED BY <3>1
  <2>2. Cardinality(Upto(i)) <= Cardinality(Upto(j - 1))
    <3> HIDE DEF Upto
    <3> QED BY <1>2, <2>1, FS_Subset
  <2> HIDE DEF Upto
  <2> QED BY <1>2, <1>4, <2>1, <2>2
<1>6. \A i \in P : Cardinality(Upto(i)) \in 1..Cardinality(P)
  <2> TAKE i \in P
  <2>1. i \in 1..n
    BY <1>0
  <2> HIDE DEF Upto
  <2> QED BY <1>1, <1>2, <1>4, <2>1
<1>7. ASSUME NEW k \in 1..Cardinality(P) PROVE \E i \in P : Cardinality(Upto(i)) = k
  <2> DEFINE S == {m \in 0..n : Cardinality(Upto(m)) >= k}
             m == Min(S)
  <2>1. S \in SUBSET Nat /\ n \in S
    <3> HIDE DEF Upto
    <3> QED BY <1>1, <1>3
  <2>2. m \in S /\ \A y \in S : m <= y
    BY <2>1, MinOfNaturals
  <2> HIDE DEF m
  <2>3. m \in 1..n
    <3>1. m \in 0..n /\ Cardinality(Upto(m)) >= k
      BY <2>2
    <3> HIDE DEF S, Upto
    <3>2. m # 0
      BY <1>1, <1>3, <3>1
    <3> QED BY <3>1, <3>2
  <2>4. m - 1 \in 0..n /\ m - 1 \notin S
    <3>1. ~(m <= m - 1) /\ m - 1 \in 0..n
      BY <2>3
    <3> HIDE DEF S
    <3> QED BY <2>2, <3>1
  <2> HIDE DEF Upto
  <2>5. Cardinality(Upto(m)) >= k /\ Cardinality(Upto(m - 1)) < k
    BY <1>1, <1>2, <2>2, <2>4
  <2> QED BY <1>1, <1>2, <1>4, <2>3, <2>5
<1>8. \A i : Rank(P, i) = Cardinality(Upto(i))
  BY DEF Rank
<1>9. \A i, j \in P : i < j \/ j < i \/ i = j
  BY <1>0
<1> HIDE DEF Upto
<1>10. \A i, j \in P : Cardinality(Upto(i)) = Cardinality(Upto(j)) => i = j
  BY <1>2, <1>5, <1>9
<1> QED BY <1>1, <1>6, <1>7, <1>8, <1>10
=============================================================================

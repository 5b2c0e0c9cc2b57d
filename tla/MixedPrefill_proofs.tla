------------------------ MODULE MixedPrefill_proofs ------------------------
(***************************************************************************)
(* Proofs about the decode floor (MixedPrefill): the variables keep their  *)
(* types, a prefill beside a decoding peer stays within the cap, and a     *)
(* request whose turn has come is stalled by the policy only.  For any     *)
(* requests, prompts, budget, thresholds, block sizes and preemptions.     *)
(***************************************************************************)
EXTENDS MixedPrefill, CommonLemmas

----------------------------------------------------------------------------
(* Operators                                                               *)

LEMMA MinOfTwo ==
  ASSUME NEW x \in Nat, NEW y \in Nat
  PROVE  Min({x, y}) \in {x, y} /\ Min({x, y}) <= x /\ Min({x, y}) <= y
<1>1. {x, y} \in SUBSET Nat /\ {x, y} # {}
  OBVIOUS
<1> HIDE DEF Min
<1> QED BY <1>1, MinOfNaturals

LEMMA MaxWithZero ==
  ASSUME NEW x \in Int
  PROVE  Max({x, 0}) = IF x >= 0 THEN x ELSE 0
<1>1. CASE x >= 0
  BY <1>1 DEF Max
<1>2. CASE x < 0
  BY <1>2 DEF Max
<1> QED BY <1>1, <1>2

LEMMA FloorBelow ==
  ASSUME NEW n \in Nat, NEW b \in Nat \ {0}
  PROVE  Floor(n, b) \in Nat /\ Floor(n, b) <= n
<1> DEFINE q == n \div b
           m == n % b
<1>1. q \in Nat /\ m \in 0..(b - 1) /\ n = b * q + m
  OBVIOUS
<1>2. b * q \in Nat /\ q * b = b * q
  BY <1>1
<1> QED BY <1>1, <1>2 DEF Floor

\* The policy answers with the configured cap or not at all.
LEMMA PolicyTyped ==
  ASSUME TypeOK, NEW r
  PROVE  Policy(r) \in Nat \cup {Off} /\ Policy(r) \in {cap, Off}
BY MixedPrefillAssumption DEF TypeOK, Policy

\* A capped chunk is no longer, and it is empty only when the policy skips.
LEMMA CappedWithin ==
  ASSUME TypeOK, NEW r \in Requests, NEW start \in Nat, NEW n \in Nat
  PROVE  /\ Capped(r, start, n) \in Nat /\ Capped(r, start, n) <= n
         /\ Policy(r) # Off /\ start < prompt[r] => Capped(r, start, n) <= Policy(r)
         /\ n > 0 /\ Capped(r, start, n) = 0 => Policy(r) = 0 /\ start < prompt[r]
<1>1. CASE Policy(r) # Off /\ start < prompt[r]
  <2>1. Policy(r) \in Nat
    BY <1>1, PolicyTyped
  <2>2. Capped(r, start, n) = Min({n, Policy(r)})
    BY <1>1 DEF Capped
  <2> HIDE DEF Policy
  <2> QED BY <1>1, <2>1, <2>2, MinOfTwo
<1>2. CASE ~(Policy(r) # Off /\ start < prompt[r])
  BY <1>2 DEF Capped
<1> QED BY <1>1, <1>2

LEMMA LongPrefillWithin ==
  ASSUME TypeOK, NEW n \in Nat
  PROVE  /\ LongPrefill(n) \in Nat /\ LongPrefill(n) <= n
         /\ n > 0 => LongPrefill(n) > 0
<1>1. threshold \in Nat
  BY MixedPrefillAssumption DEF TypeOK
<1> QED BY <1>1 DEF LongPrefill

LEMMA TokensTyped ==
  ASSUME TypeOK, NEW r \in Requests
  PROVE  Tokens(r) \in Nat /\ prompt[r] \in Nat /\ made[r] \in Nat
<1>1. prompt[r] \in Nat /\ made[r] \in Nat
  <2>1. prompt \in [Requests -> Prompts \cup {0}] /\ made \in [Requests -> Nat]
    BY DEF TypeOK
  <2>2. \A p \in Prompts \cup {0} : p \in Nat
    BY MixedPrefillAssumption
  <2> QED BY <2>1, <2>2
<1> QED BY <1>1 DEF Tokens

LEMMA StopsTyped ==
  ASSUME TypeOK, NEW r \in Requests, NEW start \in Nat
  PROVE  Stops(r, start) \subseteq Int
<1>1. Tokens(r) \in Nat /\ prompt[r] \in Nat
  BY TokensTyped
<1>2. LastCache(r) \in Int
  <2> DEFINE pos == Floor(Tokens(r), Block)
  <2>1. pos \in Nat
    BY <1>1, FloorBelow, MixedPrefillAssumption
  <2> DEFINE back == pos - Block
  <2>2. back \in Int
    BY <2>1, MixedPrefillAssumption
  <2>3. LastCache(r) = IF useEagle THEN Max({back, 0}) ELSE pos
    BY Zenon DEF LastCache
  <2> HIDE DEF back, pos
  <2>4. Max({back, 0}) \in Int
    BY <2>2, MaxWithZero
  <2> QED BY <2>1, <2>3, <2>4
<1>3. (start \div Block + 1) * Block \in Int
  <2>1. start \div Block \in Nat
    BY MixedPrefillAssumption
  <2> QED BY <2>1, MixedPrefillAssumption
<1>4. Floor(prompt[r], HashBlock) \in Int
  BY <1>1, FloorBelow, MixedPrefillAssumption
<1> QED BY <1>2, <1>3, <1>4 DEF Stops

\* The aligned split schedules no more than it is given, and something if it
\* is given something: truncation to a block boundary leaves progress.
LEMMA SplitKeepsProgress ==
  ASSUME TypeOK, NEW r \in Requests, NEW start \in Nat, NEW n \in Nat
  PROVE  /\ AlignedSplit(r, start, n) \in Nat /\ AlignedSplit(r, start, n) <= n
         /\ n > 0 => AlignedSplit(r, start, n) > 0
<1> DEFINE stop1 == start + n
           end == IF stop1 < PrefillEnd(r) /\ Aligns(start, stop1)
                    THEN Floor(stop1, Block) ELSE stop1
           cuts == {s \in Stops(r, start) : start < s /\ s < end}
           first == Min(cuts \cup {end})
<1>1. end \in Nat /\ start <= end /\ end <= start + n /\ (n > 0 => start < end)
  <2>1. Floor(stop1, Block) \in Nat /\ Floor(stop1, Block) <= stop1
    BY FloorBelow, MixedPrefillAssumption
  <2>2. CASE stop1 < PrefillEnd(r) /\ Aligns(start, stop1)
    <3>1. end = Floor(stop1, Block) /\ Floor(stop1, Block) > start
      BY <2>2 DEF Aligns
    <3> HIDE DEF end
    <3> QED BY <2>1, <3>1
  <2>3. CASE ~(stop1 < PrefillEnd(r) /\ Aligns(start, stop1))
    <3>1. end = start + n
      BY <2>3
    <3> HIDE DEF end
    <3> QED BY <3>1
  <2> QED BY <2>2, <2>3
<1>2. \A s \in cuts : s \in Nat /\ start < s
  <2>1. Stops(r, start) \subseteq Int
    BY StopsTyped
  <2> QED BY <2>1
<1>3. AlignedSplit(r, start, n) =
        IF start >= PrefillEnd(r) THEN n ELSE Max({first - start, 0})
  BY Zenon DEF AlignedSplit
<1> HIDE DEF end, cuts
<1>4. first \in cuts \cup {end} /\ first <= end
  <2>1. cuts \cup {end} \in SUBSET Nat /\ cuts \cup {end} # {}
    BY <1>1, <1>2
  <2> QED BY <2>1, MinOfNaturals
<1> HIDE DEF first
<1>5. first \in Nat /\ start <= first /\ first <= start + n /\ (n > 0 => start < first)
  BY <1>1, <1>2, <1>4
<1> DEFINE d == first - start
<1>6. d \in Nat /\ d <= n /\ (n > 0 => d > 0)
  BY <1>5
<1>7. AlignedSplit(r, start, n) \in {n, Max({d, 0})}
  BY <1>3, Zenon
<1> HIDE DEF d
<1>8. Max({d, 0}) = d
  BY <1>6, MaxWithZero
<1> QED BY <1>6, <1>7, <1>8

----------------------------------------------------------------------------
(* Queues                                                                  *)

LEMMA ElemsIs ==
  ASSUME NEW s, NEW x
  PROVE  x \in Elems(s) <=> \E i \in 1..Len(s) : s[i] = x
BY DEF Elems

LEMMA AppendOnce ==
  ASSUME NEW S, NEW s \in Seq(S), NEW x \in S, Once(s), x \notin Elems(s)
  PROVE  /\ Append(s, x) \in Seq(S) /\ Once(Append(s, x))
         /\ Elems(Append(s, x)) = Elems(s) \cup {x}
         /\ Len(Append(s, x)) = Len(s) + 1
         /\ Append(s, x)[Len(s) + 1] = x
         /\ \A i \in 1..Len(s) : Append(s, x)[i] = s[i]
<1> DEFINE t == Append(s, x)
<1>1. /\ t \in Seq(S) /\ Len(t) = Len(s) + 1 /\ t[Len(s) + 1] = x
      /\ \A i \in 1..Len(s) : t[i] = s[i]
  OBVIOUS
<1>2. Len(s) \in Nat
  OBVIOUS
<1> HIDE DEF t
<1>3. Elems(t) = Elems(s) \cup {x}
  <2>1. \A i \in 1..Len(t) : t[i] \in Elems(s) \cup {x}
    BY <1>1, <1>2 DEF Elems
  <2>2. x \in Elems(t)
    BY <1>1, <1>2 DEF Elems
  <2>3. \A i \in 1..Len(s) : s[i] \in Elems(t)
    BY <1>1, <1>2 DEF Elems
  <2> QED BY <2>1, <2>2, <2>3 DEF Elems
<1>4. Once(t)
  BY <1>1, <1>2 DEF Once, Elems
<1> QED BY <1>1, <1>3, <1>4 DEF t

LEMMA TailOnce ==
  ASSUME NEW S, NEW s \in Seq(S), s # <<>>, Once(s)
  PROVE  /\ Tail(s) \in Seq(S) /\ Once(Tail(s)) /\ Head(s) \in S
         /\ Head(s) \notin Elems(Tail(s)) /\ Elems(s) = Elems(Tail(s)) \cup {Head(s)}
<1> DEFINE t == Tail(s)
<1>1. /\ t \in Seq(S) /\ Len(s) \in Nat \ {0} /\ Len(t) = Len(s) - 1
      /\ \A i \in 1..Len(t) : t[i] = s[i + 1]
      /\ Head(s) = s[1] /\ s[1] \in S
  OBVIOUS
<1> HIDE DEF t
<1>2. Once(t) /\ s[1] \notin Elems(t)
  BY SMTT(30), <1>1 DEF Once, Elems
<1>3. Elems(s) = Elems(t) \cup {s[1]}
  <2>1. \A i \in 1..Len(t) : t[i] \in Elems(s)
    BY <1>1 DEF Elems
  <2>2. s[1] \in Elems(s)
    BY <1>1 DEF Elems
  <2>3. \A i \in 1..Len(s) : s[i] \in Elems(t) \cup {s[1]}
    <3> TAKE i \in 1..Len(s)
    <3>1. CASE i = 1
      BY <3>1
    <3>2. CASE i # 1
      <4>1. i - 1 \in 1..Len(t) /\ t[i - 1] = s[i]
        BY <1>1, <3>2
      <4> QED BY <4>1 DEF Elems
    <3> QED BY <3>1, <3>2
  <2> QED BY <2>1, <2>2, <2>3 DEF Elems
<1> QED BY <1>1, <1>2, <1>3 DEF t

LEMMA FirstOnes ==
  ASSUME NEW S, NEW s, NEW n \in Nat, \A i \in 1..n : s[i] \in S
  PROVE  /\ SubSeq(s, 1, n) \in Seq(S) /\ Len(SubSeq(s, 1, n)) = n
         /\ \A i \in 1..n : SubSeq(s, 1, n)[i] = s[i]
OBVIOUS

LEMMA FrontOnce ==
  ASSUME NEW S, NEW s \in Seq(S), Len(s) > 0, Once(s)
  PROVE  LET t == SubSeq(s, 1, Len(s) - 1) v == s[Len(s)] IN
         /\ t \in Seq(S) /\ Once(t) /\ v \in S /\ Len(t) = Len(s) - 1
         /\ \A i \in 1..Len(t) : t[i] = s[i] /\ s[i] # v
         /\ v \notin Elems(t) /\ Elems(s) = Elems(t) \cup {v}
<1> DEFINE t == SubSeq(s, 1, Len(s) - 1)
           v == s[Len(s)]
<1>1. /\ t \in Seq(S) /\ Len(s) \in Nat \ {0} /\ Len(t) = Len(s) - 1
      /\ v \in S /\ \A i \in 1..Len(t) : t[i] = s[i]
  <2>1. Len(s) \in Nat \ {0} /\ v \in S /\ \A i \in 1..(Len(s) - 1) : s[i] \in S
    OBVIOUS
  <2> DEFINE n == Len(s) - 1
  <2>2. n \in Nat /\ t = SubSeq(s, 1, n) /\ \A i \in 1..n : s[i] \in S
    BY <2>1
  <2> HIDE DEF n, t
  <2>3. t \in Seq(S) /\ Len(t) = n /\ \A i \in 1..n : t[i] = s[i]
    BY <2>2, FirstOnes
  <2> QED BY <2>1, <2>3 DEF n
<1> HIDE DEF t
<1>2. Once(t) /\ \A i \in 1..Len(t) : s[i] # v
  BY <1>1 DEF Once
<1>3. v \notin Elems(t) /\ Elems(s) = Elems(t) \cup {v}
  <2>1. \A i \in 1..Len(t) : t[i] \in Elems(s)
    BY <1>1 DEF Elems
  <2>2. v \in Elems(s)
    BY <1>1 DEF Elems
  <2>3. \A i \in 1..Len(s) : s[i] \in Elems(t) \cup {v}
    BY <1>1 DEF Elems
  <2>4. v \notin Elems(t)
    BY <1>1, <1>2 DEF Elems
  <2> QED BY <2>1, <2>2, <2>3, <2>4 DEF Elems
<1> QED BY <1>1, <1>2, <1>3 DEF t

LEMMA ConcatOnce ==
  ASSUME NEW S, NEW s \in Seq(S), NEW t \in Seq(S), Once(s), Once(t), Apart(s, t)
  PROVE  s \o t \in Seq(S) /\ Once(s \o t) /\ Elems(s \o t) = Elems(s) \cup Elems(t)
<1> DEFINE u == s \o t
<1>1. /\ u \in Seq(S) /\ Len(s) \in Nat /\ Len(t) \in Nat /\ Len(u) = Len(s) + Len(t)
      /\ \A i \in 1..Len(s) : u[i] = s[i]
  OBVIOUS
<1>2. \A i \in 1..Len(u) : i > Len(s) => u[i] = t[i - Len(s)] /\ i - Len(s) \in 1..Len(t)
  BY <1>1
<1> HIDE DEF u
<1>3. Elems(u) = Elems(s) \cup Elems(t)
  <2>1. \A i \in 1..Len(u) : u[i] \in Elems(s) \cup Elems(t)
    BY SMTT(30), <1>1, <1>2 DEF Elems
  <2>2. \A i \in 1..Len(s) : s[i] \in Elems(u)
    BY <1>1 DEF Elems
  <2>3. \A i \in 1..Len(t) : t[i] \in Elems(u)
    <3> TAKE i \in 1..Len(t)
    <3>1. i + Len(s) \in 1..Len(u) /\ u[i + Len(s)] = t[i]
      BY SMTT(30), <1>1, <1>2
    <3> QED BY <3>1 DEF Elems
  <2> QED BY <2>1, <2>2, <2>3 DEF Elems
<1>4. Once(u)
  <2> SUFFICES ASSUME NEW i \in 1..Len(u), NEW j \in 1..Len(u), u[i] = u[j] PROVE i = j
    BY DEF Once
  <2>1. CASE i \in 1..Len(s) /\ j \in 1..Len(s)
    BY <1>1, <2>1 DEF Once
  <2>2. CASE i > Len(s) /\ j > Len(s)
    BY SMTT(30), <1>1, <1>2, <2>2 DEF Once
  <2>5. \A k \in 1..Len(s), l \in 1..Len(u) : l > Len(s) => u[k] # u[l]
    <3> TAKE k \in 1..Len(s), l \in 1..Len(u)
    <3>1. u[k] \in Elems(s)
      BY <1>1 DEF Elems
    <3>2. l > Len(s) => u[l] \in Elems(t)
      BY <1>2 DEF Elems
    <3> QED BY <3>1, <3>2 DEF Apart
  <2>3. CASE i \in 1..Len(s) /\ j > Len(s)
    BY <2>3, <2>5
  <2>4. CASE j \in 1..Len(s) /\ i > Len(s)
    BY <2>4, <2>5
  <2> QED BY <1>1, <2>1, <2>2, <2>3, <2>4
<1> QED BY <1>1, <1>3, <1>4 DEF u

\* What is picked from a queue is a queue of what was picked, no longer.
LEMMA PickOnce ==
  ASSUME NEW S, NEW s \in Seq(S), Once(s), NEW f \in Picks(s)
  PROVE  LET t == [i \in DOMAIN f |-> s[f[i]]] IN
         /\ t \in Seq(S) /\ Once(t) /\ Len(t) <= Len(s)
         /\ Elems(t) = {s[k] : k \in {f[i] : i \in DOMAIN f}}
<1> DEFINE t == [i \in DOMAIN f |-> s[f[i]]]
<1>1. PICK n \in 0..Len(s) :
        f \in [1..n -> 1..Len(s)] /\ \A i, j \in 1..n : i < j => f[i] < f[j]
  BY DEF Picks
<1>2. /\ Len(s) \in Nat /\ n \in Nat /\ DOMAIN f = 1..n
      /\ \A k \in 1..Len(s) : s[k] \in S
  BY <1>1
<1>3. t \in Seq(S) /\ Len(t) = n /\ \A i \in 1..n : t[i] = s[f[i]]
  BY <1>1, <1>2
<1> HIDE DEF t
<1>4. Once(t)
  <2> SUFFICES ASSUME NEW i \in 1..n, NEW j \in 1..n, t[i] = t[j] PROVE i = j
    BY <1>3 DEF Once
  <2>1. f[i] = f[j]
    BY <1>1, <1>3 DEF Once
  <2>2. ~(i < j) /\ ~(j < i)
    BY <1>1, <2>1
  <2> QED BY <1>2, <2>2
<1>5. Elems(t) = {s[k] : k \in {f[i] : i \in DOMAIN f}}
  BY <1>2, <1>3 DEF Elems
<1> QED BY <1>2, <1>3, <1>4, <1>5 DEF t

----------------------------------------------------------------------------
(* The inductive invariant                                                 *)

\* A queued request has a prompt and tokens to make; only a running one has
\* tokens of this step, and those are still to be computed.
Accounted ==
  /\ \A r \in Elems(running) \cup Elems(waiting) \cup Elems(skipped) :
       prompt[r] > 0 /\ left[r] > 0
  /\ \A r \in Elems(running) :
       computed[r] < Tokens(r) /\ computed[r] + sched[r] <= Tokens(r)
  /\ \A r \in Requests \ Elems(running) : sched[r] = 0

\* Inside a step the loop is at a place of the running list, or past its end;
\* from there on nothing has been scheduled.
Turns ==
  /\ phase # "idle" => turn \in 1..(Len(running) + 1)
  /\ phase = "run" => \A j \in turn..Len(running) : sched[running[j]] = 0

\* The cap, for two places of the running list at any point of a step.
Beside(i, j) ==
  LET q == running[i] r == running[j] IN
  /\ computed[q] < prompt[q] /\ computed[r] >= prompt[r]
  /\ j < turn \/ j < i \/ sched[r] = 0
  => sched[q] <= cap

WithinCap == phase # "idle" /\ cap # Off => \A i, j \in 1..Len(running) : Beside(i, j)

IInv == TypeOK /\ Accounted /\ Turns /\ WithinCap /\ NoStall

\* Who runs is queued nowhere else.
LEMMA RunningIs ==
  ASSUME TypeOK, NEW i \in 1..Len(running)
  PROVE  running[i] \in Requests /\ running[i] \in Elems(running)
BY DEF TypeOK, QueuesOK, Elems

LEMMA QueuedAreRequests ==
  ASSUME TypeOK
  PROVE  /\ Elems(running) \subseteq Requests /\ Elems(waiting) \subseteq Requests
         /\ Elems(skipped) \subseteq Requests
<1>1. ASSUME NEW s \in Seq(Requests) PROVE Elems(s) \subseteq Requests
  BY DEF Elems
<1> QED BY <1>1 DEF TypeOK, QueuesOK

\* What the running loop gives the request whose turn it is.
LEMMA TurnGives ==
  ASSUME TypeOK, Accounted, Turns, RunTurn
  PROVE  LET r == running[turn] IN
         /\ r \in Requests /\ r \in Elems(running) /\ turn \in 1..Len(running)
         /\ sched[r] = 0
         /\ \E s \in Nat :
              /\ sched' = [sched EXCEPT ![r] = s]
              /\ budget' = budget - s /\ s <= budget /\ computed[r] + s <= Tokens(r)
              /\ Policy(r) # Off /\ computed[r] < prompt[r] => s <= Policy(r)
              /\ s = 0 => Policy(r) = 0 /\ computed[r] < prompt[r]
<1> DEFINE r == running[turn]
           todo == Tokens(r) - computed[r]
           n0 == Min({LongPrefill(todo), budget})
           n == Capped(r, computed[r], n0)
           s == AlignedSplit(r, computed[r], n)
<1>1. turn \in 1..Len(running) /\ budget > 0 /\ phase = "run"
  BY DEF RunTurn, InRunLoop, Turns
<1>2. r \in Requests /\ r \in Elems(running)
  BY <1>1, RunningIs
<1>3. sched[r] = 0
  BY <1>1 DEF Turns, TypeOK
<1>4. sched' = [sched EXCEPT ![r] = s] /\ budget' = budget - s
  BY DEF RunTurn
<1> HIDE DEF r
<1>5. computed[r] \in Nat /\ Tokens(r) \in Nat /\ budget \in Nat /\ todo \in Nat \ {0}
  BY <1>2, TokensTyped DEF TypeOK, Accounted
<1>6. n0 \in Nat /\ 0 < n0 /\ n0 <= todo /\ n0 <= budget
  <2> HIDE DEF todo
  <2>1. LongPrefill(todo) \in Nat /\ LongPrefill(todo) <= todo /\ LongPrefill(todo) > 0
    BY <1>5, LongPrefillWithin
  <2> HIDE DEF LongPrefill
  <2> QED BY <1>1, <1>5, <2>1, MinOfTwo
<1> HIDE DEF n0
<1>7. /\ n \in Nat /\ n <= n0
      /\ Policy(r) # Off /\ computed[r] < prompt[r] => n <= Policy(r)
      /\ n = 0 => Policy(r) = 0 /\ computed[r] < prompt[r]
  BY <1>2, <1>5, <1>6, CappedWithin
<1> HIDE DEF n
<1>8. s \in Nat /\ s <= n /\ (n > 0 => s > 0)
  BY <1>2, <1>5, <1>7, SplitKeepsProgress
<1> HIDE DEF s
<1>9. s <= budget /\ computed[r] + s <= Tokens(r)
  <2>1. s <= n0
    BY <1>6, <1>7, <1>8
  <2> QED BY <1>5, <1>6, <1>8, <2>1
<1>10. Policy(r) # Off /\ computed[r] < prompt[r] => s <= Policy(r)
  <2>1. Policy(r) # Off => Policy(r) \in Nat
    BY PolicyTyped
  <2> QED BY <1>7, <1>8, <2>1
<1>11. s = 0 => Policy(r) = 0 /\ computed[r] < prompt[r]
  BY <1>7, <1>8
<1> QED BY <1>1, <1>2, <1>3, <1>4, <1>8, <1>9, <1>10, <1>11 DEF r

\* What the waiting loop gives a request it admits at the hit h.
LEMMA AdmissionGives ==
  ASSUME TypeOK, NEW r \in Requests, NEW h \in Hits(r), budget > 0
  PROVE  LET n == Min({Capped(r, h, LongPrefill(Tokens(r) - h)), budget})
             s == AlignedSplit(r, h, n)
         IN  /\ h \in Nat /\ h < Tokens(r)
             /\ s \in Nat /\ s <= budget /\ h + s <= Tokens(r)
             /\ Policy(r) # Off /\ h < prompt[r] => s <= Policy(r)
<1> DEFINE todo == Tokens(r) - h
           n0 == LongPrefill(todo)
           n1 == Capped(r, h, n0)
           n == Min({n1, budget})
           s == AlignedSplit(r, h, n)
<1>1. h \in Nat /\ h < Tokens(r) /\ Tokens(r) \in Nat /\ budget \in Nat /\ todo \in Nat
  <2>1. Tokens(r) \in Nat
    BY TokensTyped
  <2>2. budget \in Nat
    BY DEF TypeOK
  <2>3. h \in 0..(Tokens(r) - 1)
    BY DEF Hits
  <2> HIDE DEF Tokens
  <2> QED BY <2>1, <2>2, <2>3
<1>2. n0 \in Nat /\ n0 <= todo
  <2> HIDE DEF todo
  <2> QED BY <1>1, LongPrefillWithin
<1> HIDE DEF n0
<1>3. n1 \in Nat /\ n1 <= n0 /\ (Policy(r) # Off /\ h < prompt[r] => n1 <= Policy(r))
  BY <1>1, <1>2, CappedWithin
<1> HIDE DEF n1
<1>4. n \in Nat /\ n <= n1 /\ n <= budget
  BY <1>1, <1>3, MinOfTwo
<1> HIDE DEF n
<1>5. s \in Nat /\ s <= n
  BY <1>1, <1>4, SplitKeepsProgress
<1> HIDE DEF s
<1>6. s <= n1 /\ s <= n0 /\ s <= budget
  BY <1>1, <1>2, <1>3, <1>4, <1>5
<1>7. h + s <= Tokens(r)
  BY <1>1, <1>2, <1>5, <1>6
<1>8. Policy(r) # Off /\ h < prompt[r] => s <= Policy(r)
  <2>1. Policy(r) # Off => Policy(r) \in Nat
    BY PolicyTyped
  <2> QED BY <1>3, <1>5, <1>6, <2>1
<1> QED BY <1>1, <1>5, <1>6, <1>7, <1>8 DEF s, n, n1, n0

----------------------------------------------------------------------------
(* The steps                                                               *)

LEMMA InitHolds == Init => IInv
<1> SUFFICES ASSUME Init PROVE IInv
  OBVIOUS
<1>1. \A s \in {running, waiting, skipped} : s = <<>> /\ Elems(s) = {} /\ Once(s)
  BY DEF Init, Elems, Once
<1>2. /\ prompt \in [Requests -> Prompts \cup {0}] /\ left = prompt
      /\ made = prompt /\ computed = prompt /\ \A r \in Requests : prompt[r] = 0
      /\ sched \in [Requests -> Nat] /\ \A r \in Requests : sched[r] = 0
      /\ prompt \in [Requests -> Nat]
  BY DEF Init, NoSched
<1>3. TypeOK
  <2>1. /\ running \in Seq(Requests) /\ waiting \in Seq(Requests) /\ skipped \in Seq(Requests)
        /\ Len(running) = 0
    BY <1>1
  <2>2. 0 \in 0..Budget /\ 0 \in 0..MaxPreempts /\ 0 <= MaxSeqs
    BY MixedPrefillAssumption
  <2>3. budget \in 0..Budget /\ preempts \in 0..MaxPreempts /\ turn \in Nat /\ preempted \in BOOLEAN
    BY <2>2 DEF Init
  <2>4. Apart(running, waiting) /\ Apart(running, skipped) /\ Apart(waiting, skipped)
    BY <1>1 DEF Apart
  <2> QED BY <1>1, <1>2, <2>1, <2>2, <2>3, <2>4 DEF Init, TypeOK, QueuesOK
<1>4. Accounted
  BY <1>1, <1>2 DEF Accounted
<1> QED BY <1>3, <1>4 DEF Init, IInv, Turns, WithinCap, NoStall

LEMMA ArriveStep ==
  ASSUME IInv, NEW r \in Requests, Arrive(r)
  PROVE  IInv'
<1> USE DEF IInv
<1>1. /\ phase = "idle" /\ prompt[r] = 0 /\ waiting' = Append(waiting, r)
      /\ UNCHANGED <<knobs, made, computed, running, skipped, phase, turn, budget,
                     sched, preempted, preempts>>
  BY DEF Arrive
<1>2. PICK p \in Prompts, o \in Outputs :
        prompt' = [prompt EXCEPT ![r] = p] /\ left' = [left EXCEPT ![r] = o]
  BY DEF Arrive
<1>3. r \notin Elems(running) \cup Elems(waiting) \cup Elems(skipped)
  BY <1>1 DEF Accounted
<1>4. waiting' \in Seq(Requests) /\ Once(waiting') /\ Elems(waiting') = Elems(waiting) \cup {r}
  BY <1>1, <1>3, AppendOnce DEF TypeOK, QueuesOK
<1>5. p \in Nat \ {0} /\ o \in Nat \ {0}
  BY MixedPrefillAssumption
<1>6. TypeOK'
  <2>1. prompt' \in [Requests -> Prompts \cup {0}] /\ left' \in [Requests -> Nat]
    BY <1>2, <1>5 DEF TypeOK
  <2>2. Apart(running, waiting)' /\ Apart(running, skipped)' /\ Apart(waiting, skipped)'
    BY <1>1, <1>3, <1>4 DEF TypeOK, QueuesOK, Apart
  <2> QED BY <1>1, <1>4, <2>1, <2>2 DEF TypeOK, QueuesOK, knobs
<1>7. Accounted'
  <2>1. \A x \in Requests \ {r} : prompt'[x] = prompt[x] /\ left'[x] = left[x] /\ Tokens(x)' = Tokens(x)
    BY <1>1, <1>2 DEF TypeOK, Tokens
  <2>2. prompt'[r] > 0 /\ left'[r] > 0
    BY <1>2, <1>5 DEF TypeOK
  <2>3. \A x \in Elems(running) \cup Elems(waiting) \cup Elems(skipped) : x \in Requests \ {r}
    BY <1>3, QueuedAreRequests
  <2>4. Elems(running)' = Elems(running) /\ Elems(skipped)' = Elems(skipped)
    BY <1>1
  <2> QED BY <1>1, <1>4, <2>1, <2>2, <2>3, <2>4 DEF Accounted
<1> QED BY <1>1, <1>6, <1>7 DEF Turns, WithinCap, NoStall

LEMMA BeginStepStep ==
  ASSUME IInv, BeginStep
  PROVE  IInv'
<1> USE DEF IInv
<1>1. /\ phase' = "run" /\ turn' = 1 /\ budget' = Budget /\ sched' = NoSched /\ preempted' = FALSE
      /\ UNCHANGED <<knobs, reqs, running, waiting, skipped, preempts>>
  BY DEF BeginStep
<1>2. sched' \in [Requests -> Nat] /\ \A r \in Requests : sched'[r] = 0
  BY <1>1 DEF NoSched
<1>3. TypeOK'
  <2>1. Budget \in Nat
    BY MixedPrefillAssumption
  <2>2. Budget \in 0..Budget
    BY <2>1
  <2>3. turn' \in Nat /\ preempted' \in BOOLEAN /\ budget' \in 0..Budget
        /\ phase' \in {"idle", "run", "wait", "exec"}
    BY <1>1, <2>2
  <2>4. UNCHANGED <<cap, threshold, useEagle, prompt, made, left, computed,
                    running, waiting, skipped, preempts>>
    BY <1>1 DEF knobs, reqs
  <2> QED BY <1>2, <2>3, <2>4 DEF TypeOK, QueuesOK
<1>4. Accounted'
  <2>1. \A r \in Elems(running) : computed[r] \in Nat /\ Tokens(r) \in Nat /\ r \in Requests
    <3> TAKE r \in Elems(running)
    <3>1. r \in Requests
      BY QueuedAreRequests
    <3> QED BY <3>1, TokensTyped DEF TypeOK
  <2>2. \A r : Tokens(r)' = Tokens(r)
    BY <1>1 DEF Tokens, reqs
  <2> QED BY <1>1, <1>2, <2>1, <2>2 DEF Accounted, reqs
<1>5. \A i \in 1..Len(running) : sched'[running[i]] = 0
  BY <1>2, RunningIs
<1>6. Turns'
  <2>1. Len(running) \in Nat
    BY DEF TypeOK
  <2> QED BY <1>1, <1>5, <2>1 DEF Turns
<1>7. WithinCap'
  <2>1. cap # Off => cap \in Nat
    BY MixedPrefillAssumption DEF TypeOK
  <2> QED BY <1>1, <1>5, <2>1 DEF WithinCap, Beside, knobs
<1>8. NoStall'
  BY <1>1 DEF NoStall
<1> QED BY <1>3, <1>4, <1>6, <1>7, <1>8

LEMMA RunTurnStep ==
  ASSUME IInv, RunTurn
  PROVE  IInv'
<1> USE DEF IInv
<1> DEFINE r == running[turn]
<1>1. /\ phase = "run" /\ turn' = turn + 1 /\ turn \in 1..Len(running)
      /\ UNCHANGED <<knobs, reqs, running, waiting, skipped, phase, preempted, preempts>>
  BY TurnGives DEF RunTurn, InRunLoop
<1>2. r \in Requests /\ r \in Elems(running) /\ sched[r] = 0
  BY TurnGives
<1>3. PICK s \in Nat :
        /\ sched' = [sched EXCEPT ![r] = s]
        /\ budget' = budget - s /\ s <= budget /\ computed[r] + s <= Tokens(r)
        /\ Policy(r) # Off /\ computed[r] < prompt[r] => s <= Policy(r)
        /\ s = 0 => Policy(r) = 0 /\ computed[r] < prompt[r]
  BY TurnGives
<1>4. \A i \in 1..Len(running) : running[i] = r <=> i = turn
  BY <1>1 DEF TypeOK, QueuesOK, Once
<1> HIDE DEF r
<1>5. sched'[r] = s /\ \A x \in Requests \ {r} : sched'[x] = sched[x]
  BY <1>2, <1>3 DEF TypeOK
<1>6. TypeOK'
  <2>1. sched' \in [Requests -> Nat] /\ turn' \in Nat
    BY <1>1, <1>2, <1>3 DEF TypeOK
  <2>2. budget' \in 0..Budget
    <3>1. budget \in 0..Budget /\ Budget \in Nat
      BY MixedPrefillAssumption DEF TypeOK
    <3> QED BY <1>3, <3>1
  <2> QED BY <1>1, <2>1, <2>2 DEF TypeOK, QueuesOK, knobs, reqs
<1>7. Accounted'
  <2>1. \A x : Tokens(x)' = Tokens(x)
    BY <1>1 DEF Tokens, reqs
  <2>2. \A x \in Elems(running) : x \in Requests
    BY DEF TypeOK, QueuesOK, Elems
  <2> QED BY <1>1, <1>2, <1>3, <1>5, <2>1, <2>2 DEF Accounted, reqs
<1>8. Turns'
  <2>1. \A j \in (turn + 1)..Len(running) : running[j] \in Requests \ {r} /\ j \in turn..Len(running)
    BY <1>1, <1>4, RunningIs
  <2> QED BY <1>1, <1>5, <2>1 DEF Turns
<1>9. WithinCap'
  <2> SUFFICES ASSUME cap # Off, NEW i \in 1..Len(running), NEW j \in 1..Len(running)
               PROVE  Beside(i, j)'
    BY <1>1 DEF WithinCap, knobs
  <2>1. cap \in Nat
    BY MixedPrefillAssumption DEF TypeOK
  <2> DEFINE q == running[i]
             p == running[j]
  <2>2. SUFFICES ASSUME computed[q] < prompt[q], computed[p] >= prompt[p]
                 PROVE  sched'[q] <= cap
    BY <1>1 DEF Beside, knobs, reqs
  <2>3. q \in Requests /\ p \in Requests /\ q \in Elems(running) /\ p \in Elems(running)
    BY RunningIs
  <2>4. CASE i = turn
    <3>1. q = r
      BY <2>4 DEF r
    <3>2. p # q
      <4>1. computed[q] \in Nat /\ prompt[q] \in Nat
        BY <2>3, TokensTyped DEF TypeOK
      <4> QED BY <2>2, <4>1
    <3>3. Policy(r) = cap
      BY <2>2, <2>3, <3>1, <3>2 DEF Policy, Decoding
    <3> QED BY <1>3, <1>5, <2>2, <3>1, <3>3
  <2>5. CASE i # turn
    <3>1. q # r
      BY <1>4, <2>5
    <3>2. j < turn \/ sched[p] = 0
      BY <1>1 DEF Turns
    <3>3. Beside(i, j)
      BY <1>1 DEF WithinCap
    <3>4. sched[q] <= cap
      BY <2>2, <3>2, <3>3 DEF Beside
    <3> QED BY <1>5, <2>3, <3>1, <3>4
  <2> QED BY <2>4, <2>5
<1>10. NoStall'
  <2> SUFFICES ASSUME ~preempted, NEW i \in 1..turn, sched'[running[i]] = 0
               PROVE  /\ cap = 0 /\ computed[running[i]] < prompt[running[i]]
                      /\ \E p \in Elems(running) \ {running[i]} : computed[p] >= prompt[p]
    BY <1>1 DEF NoStall, knobs, reqs
  <2>1. CASE i = turn
    <3>1. running[i] = r /\ s = 0
      BY <1>5, <2>1 DEF r
    <3>2. Policy(r) = 0 /\ computed[r] < prompt[r]
      BY <1>3, <3>1
    <3>3. cap = 0 /\ \E p \in Elems(running) \ {r} : computed[p] >= prompt[p]
      BY <3>2, MixedPrefillAssumption DEF Policy, Decoding
    <3> QED BY <3>1, <3>2, <3>3
  <2>2. CASE i # turn
    <3>1. i \in 1..(turn - 1) /\ i \in 1..Len(running)
      BY <1>1, <2>2
    <3>2. running[i] \in Requests \ {r}
      BY <1>4, <2>2, <3>1, RunningIs
    <3>3. sched[running[i]] = 0
      BY <1>5, <3>2
    <3> QED BY <1>1, <3>1, <3>3 DEF NoStall
  <2> QED BY <2>1, <2>2
<1> QED BY <1>6, <1>7, <1>8, <1>9, <1>10

LEMMA PreemptStep ==
  ASSUME IInv, Preempt
  PROVE  IInv'
<1> USE DEF IInv
<1> DEFINE v == running[Len(running)]
<1>1. /\ phase = "run" /\ turn <= Len(running) /\ preempts < MaxPreempts
      /\ running' = SubSeq(running, 1, Len(running) - 1) /\ waiting' = <<v>> \o waiting
      /\ computed' = [computed EXCEPT ![v] = 0] /\ preempted' = TRUE /\ preempts' = preempts + 1
      /\ UNCHANGED <<knobs, prompt, made, left, skipped, phase, turn, budget, sched>>
  BY DEF Preempt, InRunLoop
<1>2. Len(running) \in Nat \ {0} /\ turn \in 1..Len(running)
  BY <1>1 DEF Turns, TypeOK
<1>3. /\ running' \in Seq(Requests) /\ Once(running') /\ v \in Requests
      /\ Len(running') = Len(running) - 1
      /\ \A i \in 1..Len(running') : running'[i] = running[i] /\ running[i] # v
      /\ v \notin Elems(running') /\ Elems(running) = Elems(running') \cup {v}
  <2>1. running \in Seq(Requests) /\ Once(running) /\ Len(running) > 0
    BY <1>2 DEF TypeOK, QueuesOK
  <2> DEFINE t == SubSeq(running, 1, Len(running) - 1)
  <2>2. /\ t \in Seq(Requests) /\ Once(t) /\ v \in Requests /\ Len(t) = Len(running) - 1
        /\ \A i \in 1..Len(t) : t[i] = running[i] /\ running[i] # v
        /\ v \notin Elems(t) /\ Elems(running) = Elems(t) \cup {v}
    BY <2>1, FrontOnce
  <2>3. running' = t
    BY <1>1
  <2> HIDE DEF t
  <2> QED BY <2>2, <2>3
<1>4. sched[v] = 0
  BY <1>1, <1>2 DEF Turns
<1>5. waiting' \in Seq(Requests) /\ Once(waiting') /\ Elems(waiting') = Elems(waiting) \cup {v}
  <2> HIDE DEF v
  <2>1. <<v>> \in Seq(Requests) /\ Once(<<v>>) /\ Elems(<<v>>) = {v}
    BY <1>3 DEF Once, Elems
  <2>2. Apart(<<v>>, waiting)
    BY <1>3, <2>1 DEF TypeOK, QueuesOK, Apart
  <2> DEFINE one == <<v>>
  <2>3. one \in Seq(Requests) /\ Once(one) /\ Apart(one, waiting) /\ Elems(one) = {v} /\ waiting' = one \o waiting
    BY <1>1, <2>1, <2>2
  <2> HIDE DEF one
  <2>4. waiting \in Seq(Requests) /\ Once(waiting)
    BY DEF TypeOK, QueuesOK
  <2>5. /\ one \o waiting \in Seq(Requests) /\ Once(one \o waiting)
        /\ Elems(one \o waiting) = Elems(one) \cup Elems(waiting)
    BY <2>3, <2>4, ConcatOnce
  <2> QED BY <2>3, <2>5
<1> HIDE DEF v
<1>6. computed'[v] = 0 /\ \A x \in Requests \ {v} : computed'[x] = computed[x]
  BY <1>1, <1>3 DEF TypeOK
<1>7. TypeOK'
  <2>1. computed' \in [Requests -> Nat] /\ preempts' \in 0..MaxPreempts
    BY <1>1, <1>3, MixedPrefillAssumption DEF TypeOK
  <2>2. Len(running') <= MaxSeqs
    BY <1>2, <1>3, MixedPrefillAssumption DEF TypeOK, QueuesOK
  <2>3. Apart(running, waiting)' /\ Apart(running, skipped)' /\ Apart(waiting, skipped)'
    BY <1>1, <1>3, <1>5 DEF TypeOK, QueuesOK, Apart
  <2> QED BY <1>1, <1>3, <1>5, <2>1, <2>2, <2>3 DEF TypeOK, QueuesOK, knobs
<1>8. Accounted'
  <2>1. \A x : Tokens(x)' = Tokens(x)
    BY <1>1 DEF Tokens
  <2>2. \A x \in Elems(running') : x \in Elems(running) /\ x \in Requests \ {v}
    BY <1>3, QueuedAreRequests
  <2>3. \A x \in Requests \ Elems(running') : sched'[x] = 0
    BY <1>1, <1>3, <1>4 DEF Accounted
  <2> QED BY <1>1, <1>3, <1>5, <1>6, <2>1, <2>2, <2>3 DEF Accounted
<1>9. \A i \in 1..Len(running') :
        /\ i \in 1..Len(running) /\ running'[i] = running[i]
        /\ computed'[running[i]] = computed[running[i]]
  <2> TAKE i \in 1..Len(running')
  <2>1. i \in 1..Len(running) /\ running'[i] = running[i] /\ running[i] # v
    BY <1>2, <1>3
  <2> QED BY <1>6, <2>1, RunningIs
<1>10. Turns'
  <2>1. turn \in 1..(Len(running') + 1)
    BY <1>2, <1>3
  <2>2. \A j \in turn..Len(running') : j \in turn..Len(running) /\ running'[j] = running[j]
    BY <1>2, <1>3
  <2>3. \A j \in turn..Len(running) : sched[running[j]] = 0
    BY <1>1 DEF Turns
  <2>4. turn' = turn /\ phase' = "run" /\ sched' = sched
    BY <1>1
  <2> QED BY <2>1, <2>2, <2>3, <2>4 DEF Turns
<1>11. WithinCap'
  <2> SUFFICES ASSUME cap # Off, NEW i \in 1..Len(running'), NEW j \in 1..Len(running')
               PROVE  Beside(i, j)'
    BY <1>1 DEF WithinCap, knobs
  <2>1. Beside(i, j)
    BY <1>1, <1>9 DEF WithinCap
  <2>2. /\ running'[i] = running[i] /\ computed'[running[i]] = computed[running[i]]
        /\ running'[j] = running[j] /\ computed'[running[j]] = computed[running[j]]
    BY <1>9
  <2>3. UNCHANGED <<cap, prompt, turn, sched>>
    BY <1>1 DEF knobs
  <2> QED BY <2>1, <2>2, <2>3 DEF Beside
<1>12. NoStall'
  BY <1>1 DEF NoStall
<1> QED BY <1>7, <1>8, <1>10, <1>11, <1>12

\* The steps that move no token: the end of a loop, a request skipped.
LEMMA NoTokensStep ==
  ASSUME IInv, UNCHANGED <<knobs, reqs, running, turn, sched>>,
         budget' = budget, preempted' = preempted, preempts' = preempts,
         waiting' \in Seq(Requests), Once(waiting'), skipped' \in Seq(Requests), Once(skipped'),
         Apart(waiting', skipped'),
         Elems(waiting') \cup Elems(skipped') = Elems(waiting) \cup Elems(skipped),
         phase # "idle", phase' \in {"wait", "exec"}
  PROVE  IInv'
<1> USE DEF IInv
<1>1. TypeOK'
  <2>1. Apart(running, waiting)' /\ Apart(running, skipped)'
    BY DEF TypeOK, QueuesOK, Apart
  <2> QED BY <2>1 DEF TypeOK, QueuesOK, knobs, reqs
<1>2. Accounted'
  <2>1. \A x : Tokens(x)' = Tokens(x)
    BY DEF Tokens, reqs
  <2> QED BY <2>1 DEF Accounted, reqs
<1>3. Turns' /\ WithinCap' /\ NoStall'
  BY DEF Turns, WithinCap, Beside, NoStall, knobs, reqs
<1> QED BY <1>1, <1>2, <1>3

LEMMA EndRunStep ==
  ASSUME IInv, EndRun
  PROVE  IInv'
<1>1. phase' \in {"wait", "exec"} /\ phase = "run"
  BY DEF EndRun
<1> QED BY <1>1, NoTokensStep DEF EndRun, IInv, TypeOK, QueuesOK

LEMMA RequeuedIs ==
  ASSUME TypeOK
  PROVE  /\ Requeued \in Seq(Requests) /\ Once(Requeued)
         /\ Elems(Requeued) = Elems(waiting) \cup Elems(skipped)
         /\ <<>> \in Seq(Requests) /\ Once(<<>>) /\ Elems(<<>>) = {}
<1>1. Apart(skipped, waiting)
  BY DEF TypeOK, QueuesOK, Apart
<1>2. <<>> \in Seq(Requests) /\ Once(<<>>) /\ Elems(<<>>) = {}
  BY DEF Once, Elems
<1> QED BY <1>1, <1>2, ConcatOnce DEF TypeOK, QueuesOK, Requeued

LEMMA EndWaitStep ==
  ASSUME IInv, EndWait
  PROVE  IInv'
<1>1. Apart(waiting', skipped') /\ Elems(waiting') \cup Elems(skipped') = Elems(waiting) \cup Elems(skipped)
  BY RequeuedIs DEF EndWait, Apart, IInv
<1>2. waiting' \in Seq(Requests) /\ Once(waiting') /\ skipped' \in Seq(Requests) /\ Once(skipped')
  BY RequeuedIs DEF EndWait, IInv
<1> QED BY <1>1, <1>2, NoTokensStep DEF EndWait

LEMMA WaitSkipStep ==
  ASSUME IInv, WaitSkip
  PROVE  IInv'
<1> DEFINE r == Head(waiting)
<1>1. /\ phase = "wait" /\ waiting # <<>> /\ waiting' = Tail(waiting) /\ skipped' = Append(skipped, r)
      /\ UNCHANGED <<knobs, reqs, running, phase, turn, budget, sched, preempted, preempts>>
  BY DEF WaitSkip, InWaitLoop, AfterSkip
<1>2. /\ Tail(waiting) \in Seq(Requests) /\ Once(Tail(waiting)) /\ r \in Requests
      /\ r \notin Elems(Tail(waiting)) /\ Elems(waiting) = Elems(Tail(waiting)) \cup {r}
  BY <1>1, TailOnce DEF IInv, TypeOK, QueuesOK
<1> HIDE DEF r
<1>3. r \notin Elems(skipped)
  BY <1>2 DEF IInv, TypeOK, QueuesOK, Apart
<1>4. skipped' \in Seq(Requests) /\ Once(skipped') /\ Elems(skipped') = Elems(skipped) \cup {r}
  BY <1>1, <1>2, <1>3, AppendOnce DEF IInv, TypeOK, QueuesOK
<1>5. Apart(waiting', skipped')
  BY <1>1, <1>2, <1>4 DEF IInv, TypeOK, QueuesOK, Apart
<1>6. Elems(waiting') \cup Elems(skipped') = Elems(waiting) \cup Elems(skipped)
  BY <1>1, <1>2, <1>4
<1> QED BY <1>1, <1>2, <1>4, <1>5, <1>6, NoTokensStep

\* A request comes from the head of the waiting queue to the end of the running
\* list: the policy was asked about the peers that were there.
LEMMA AdmitStep ==
  ASSUME IInv, phase = "wait", waiting # <<>>, Len(running) < MaxSeqs,
         NEW r, r = Head(waiting), NEW h \in Nat, NEW s \in Nat \ {0},
         h < Tokens(r), h + s <= Tokens(r), s <= budget,
         Policy(r) # Off /\ h < prompt[r] => s <= Policy(r),
         running' = Append(running, r), waiting' = Tail(waiting),
         computed' = [computed EXCEPT ![r] = h], sched' = [sched EXCEPT ![r] = s],
         budget' = budget - s,
         UNCHANGED <<phase, skipped, knobs, prompt, made, left, turn, preempted, preempts>>
  PROVE  IInv'
<1> USE DEF IInv
<1>1. /\ waiting' \in Seq(Requests) /\ Once(waiting') /\ r \in Requests
      /\ r \notin Elems(waiting') /\ Elems(waiting) = Elems(waiting') \cup {r}
  BY TailOnce DEF TypeOK, QueuesOK
<1>2. r \notin Elems(running) /\ r \notin Elems(skipped)
  BY <1>1 DEF TypeOK, QueuesOK, Apart
<1>3. /\ running' \in Seq(Requests) /\ Once(running') /\ Len(running') = Len(running) + 1
      /\ Elems(running') = Elems(running) \cup {r} /\ running'[Len(running) + 1] = r
      /\ \A i \in 1..Len(running) : running'[i] = running[i]
  <2>1. running \in Seq(Requests) /\ Once(running)
    BY DEF TypeOK, QueuesOK
  <2>2. running' = Append(running, r)
    OBVIOUS
  <2> QED BY <1>1, <1>2, <2>1, <2>2, AppendOnce
<1>4. /\ computed'[r] = h /\ sched'[r] = s
      /\ \A x \in Requests \ {r} : computed'[x] = computed[x] /\ sched'[x] = sched[x]
  BY <1>1 DEF TypeOK
<1>5. Len(running) \in Nat /\ turn \in 1..(Len(running) + 1)
  BY DEF TypeOK, Turns
<1>6. TypeOK'
  <2>1. computed' \in [Requests -> Nat] /\ sched' \in [Requests -> Nat]
    <3>1. computed \in [Requests -> Nat] /\ sched \in [Requests -> Nat]
      BY DEF TypeOK
    <3>2. s \in Nat
      OBVIOUS
    <3> QED BY <1>1, <3>1, <3>2
  <2>2. budget' \in 0..Budget /\ Len(running') <= MaxSeqs
    <3>1. budget \in 0..Budget /\ Budget \in Nat /\ MaxSeqs \in Nat
      BY MixedPrefillAssumption DEF TypeOK
    <3>2. budget' \in 0..Budget
      BY <3>1
    <3> QED BY <1>3, <1>5, <3>1, <3>2
  <2>3. Apart(running, waiting)' /\ Apart(running, skipped)' /\ Apart(waiting, skipped)'
    <3>1. Apart(running, waiting) /\ Apart(running, skipped) /\ Apart(waiting, skipped)
      BY DEF TypeOK, QueuesOK
    <3>2. skipped' = skipped /\ Elems(running') = Elems(running) \cup {r}
      BY <1>3
    <3> QED BY <1>1, <1>2, <3>1, <3>2 DEF Apart
  <2> QED BY <1>1, <1>3, <2>1, <2>2, <2>3 DEF TypeOK, QueuesOK, knobs
<1>7. Accounted'
  <2>1. \A x : Tokens(x)' = Tokens(x)
    BY DEF Tokens
  <2>2. \A x \in Elems(running) : x \in Requests \ {r}
    BY <1>2, QueuedAreRequests
  <2> QED BY <1>1, <1>3, <1>4, <2>1, <2>2 DEF Accounted
<1>8. Turns'
  BY <1>3, <1>5 DEF Turns
<1>9. WithinCap'
  <2> SUFFICES ASSUME cap # Off, NEW i \in 1..(Len(running) + 1), NEW j \in 1..(Len(running) + 1)
               PROVE  Beside(i, j)'
    BY <1>3 DEF WithinCap, knobs
  <2>1. CASE i \in 1..Len(running) /\ j \in 1..Len(running)
    <3>1. running[i] \in Requests \ {r} /\ running[j] \in Requests \ {r}
      BY <1>2, <2>1, RunningIs
    <3>2. running'[i] = running[i] /\ running'[j] = running[j] /\ Beside(i, j)
      BY <1>3, <2>1 DEF WithinCap
    <3> QED BY <1>4, <3>1, <3>2 DEF Beside, knobs
  <2>2. CASE j = Len(running) + 1
    <3>1. running'[j] = r /\ sched'[r] # 0 /\ ~(j < turn) /\ ~(j < i)
      BY <1>3, <1>4, <1>5, <2>2
    <3> QED BY <3>1 DEF Beside
  <2>3. CASE i = Len(running) + 1 /\ j \in 1..Len(running)
    <3> DEFINE p == running[j]
    <3>1. p \in Elems(running) \ {r} /\ p \in Requests /\ running'[j] = p /\ running'[i] = r
      BY <1>2, <1>3, <2>3, RunningIs
    <3>2. computed'[p] = computed[p]
      BY <1>4, <3>1
    <3> HIDE DEF p
    <3> SUFFICES ASSUME computed'[r] < prompt[r], computed[p] >= prompt[p] PROVE sched'[r] <= cap
      BY <3>1, <3>2 DEF Beside, knobs
    <3>3. Policy(r) = cap
      BY <3>1 DEF Policy, Decoding
    <3> QED BY <1>4, <3>3
  <2> QED BY <1>5, <2>1, <2>2, <2>3
<1> QED BY <1>6, <1>7, <1>8, <1>9 DEF NoStall

LEMMA WaitAdmitStep ==
  ASSUME IInv, WaitAdmit
  PROVE  IInv'
<1> DEFINE r == Head(waiting)
           n(h) == Min({Capped(r, h, LongPrefill(Tokens(r) - h)), budget})
           s(h) == AlignedSplit(r, h, n(h))
<1>1. /\ phase = "wait" /\ waiting # <<>> /\ Len(running) < MaxSeqs /\ budget > 0
      /\ UNCHANGED <<knobs, prompt, made, left, turn, preempted, preempts>>
  BY DEF WaitAdmit, InWaitLoop
<1>2. r \in Requests
  BY <1>1, TailOnce DEF IInv, TypeOK, QueuesOK
<1>3. PICK h \in Hits(r) :
        IF s(h) = 0
          THEN /\ phase' = "exec" /\ waiting' = Requeued /\ skipped' = <<>>
               /\ UNCHANGED <<computed, running, budget, sched>>
          ELSE /\ running' = Append(running, r) /\ waiting' = Tail(waiting)
               /\ computed' = [computed EXCEPT ![r] = h] /\ sched' = [sched EXCEPT ![r] = s(h)]
               /\ budget' = budget - s(h) /\ UNCHANGED <<phase, skipped>>
  BY DEF WaitAdmit
<1>4. /\ h \in Nat /\ h < Tokens(r) /\ s(h) \in Nat /\ s(h) <= budget /\ h + s(h) <= Tokens(r)
      /\ Policy(r) # Off /\ h < prompt[r] => s(h) <= Policy(r)
  BY <1>1, <1>2, AdmissionGives DEF IInv
<1> DEFINE got == s(h)
<1> HIDE DEF s
<1>5. CASE got = 0
  <2>1. Apart(waiting', skipped') /\ Elems(waiting') \cup Elems(skipped') = Elems(waiting) \cup Elems(skipped)
    BY <1>3, <1>5, RequeuedIs DEF Apart, IInv
  <2>2. waiting' \in Seq(Requests) /\ Once(waiting') /\ skipped' \in Seq(Requests) /\ Once(skipped')
    BY <1>3, <1>5, RequeuedIs DEF IInv
  <2>3. UNCHANGED reqs /\ phase' = "exec" /\ UNCHANGED <<running, budget, sched>>
    BY <1>1, <1>3, <1>5 DEF reqs
  <2> QED BY <1>1, <2>1, <2>2, <2>3, NoTokensStep
<1>6. CASE got # 0
  <2>1. got \in Nat \ {0}
    BY <1>4, <1>6
  <2>2. /\ running' = Append(running, r) /\ waiting' = Tail(waiting)
        /\ computed' = [computed EXCEPT ![r] = h] /\ sched' = [sched EXCEPT ![r] = got]
        /\ budget' = budget - got /\ UNCHANGED <<phase, skipped>>
    BY <1>3, <1>6
  <2>3. /\ h < Tokens(r) /\ h + got <= Tokens(r) /\ got <= budget
        /\ Policy(r) # Off /\ h < prompt[r] => got <= Policy(r)
    BY <1>4
  <2> HIDE DEF got
  <2> QED BY <1>1, <1>4, <2>1, <2>2, <2>3, AdmitStep
<1> QED BY <1>5, <1>6

LEMMA ExecuteStep ==
  ASSUME IInv, Execute
  PROVE  IInv'
<1> USE DEF IInv
<1> DEFINE new == [r \in Requests |-> computed[r] + sched[r]]
           samples(r) == sched[r] > 0 /\ new[r] = Tokens(r)
           ends(r) == samples(r) /\ left[r] = 1
<1>1. /\ phase' = "idle" /\ sched' = NoSched
      /\ UNCHANGED <<knobs, prompt, waiting, skipped, turn, budget, preempted, preempts>>
      /\ computed' = new
      /\ made' = [r \in Requests |-> IF samples(r) THEN made[r] + 1 ELSE made[r]]
      /\ left' = [r \in Requests |-> IF samples(r) THEN left[r] - 1 ELSE left[r]]
  BY DEF Execute
<1>2. PICK f \in Picks(running) :
        /\ {f[i] : i \in DOMAIN f} = {i \in DOMAIN running : ~ends(running[i])}
        /\ running' = [i \in DOMAIN f |-> running[f[i]]]
  BY DEF Execute
<1>3. /\ running' \in Seq(Requests) /\ Once(running') /\ Len(running') <= Len(running)
      /\ Elems(running') = {running[k] : k \in {f[i] : i \in DOMAIN f}}
  <2> DEFINE t == [i \in DOMAIN f |-> running[f[i]]]
  <2>1. running \in Seq(Requests) /\ Once(running) /\ running' = t
    BY <1>2 DEF TypeOK, QueuesOK
  <2>2. /\ t \in Seq(Requests) /\ Once(t) /\ Len(t) <= Len(running)
        /\ Elems(t) = {running[k] : k \in {f[i] : i \in DOMAIN f}}
    BY <2>1, PickOnce
  <2> HIDE DEF t
  <2> QED BY <2>1, <2>2
<1>4. \A r \in Elems(running') : r \in Elems(running) /\ ~ends(r)
  <2>1. DOMAIN running = 1..Len(running)
    BY DEF TypeOK
  <2> QED BY <1>2, <1>3, <2>1 DEF Elems
<1>5. \A r \in Requests : /\ computed[r] \in Nat /\ sched[r] \in Nat /\ made[r] \in Nat
                          /\ left[r] \in Nat /\ prompt[r] \in Nat /\ Tokens(r) = prompt[r] + made[r]
  BY TokensTyped DEF TypeOK, Tokens
<1>6. \A r \in Requests : sched[r] > 0 => r \in Elems(running) /\ left[r] > 0
  BY <1>5 DEF Accounted
<1>7. \A r \in Requests : /\ computed'[r] = computed[r] + sched[r]
                          /\ samples(r) => made'[r] = made[r] + 1 /\ left'[r] = left[r] - 1
                          /\ ~samples(r) => made'[r] = made[r] /\ left'[r] = left[r]
                          /\ sched'[r] = 0
  BY <1>1 DEF NoSched
<1>8. TypeOK'
  <2>1. \A r \in Requests : computed'[r] \in Nat /\ made'[r] \in Nat /\ left'[r] \in Nat
    BY <1>5, <1>6, <1>7
  <2>2. /\ computed' \in [Requests -> Nat] /\ made' \in [Requests -> Nat] /\ left' \in [Requests -> Nat]
        /\ sched' \in [Requests -> Nat]
    <3>1. computed' \in [Requests -> Nat] /\ sched' \in [Requests -> Nat]
      BY <1>1, <1>5 DEF NoSched
    <3> HIDE DEF samples
    <3>2. made' \in [Requests -> Nat] /\ left' \in [Requests -> Nat]
      BY <1>1, <2>1
    <3> QED BY <3>1, <3>2
  <2>3. Apart(running, waiting)' /\ Apart(running, skipped)' /\ Apart(waiting, skipped)'
    BY <1>1, <1>4 DEF TypeOK, QueuesOK, Apart
  <2>4. Len(running') <= MaxSeqs
    <3>1. Len(running) \in Nat /\ Len(running') \in Nat /\ Len(running) <= MaxSeqs /\ MaxSeqs \in Nat
      BY <1>3, MixedPrefillAssumption DEF TypeOK, QueuesOK
    <3> QED BY <1>3, <3>1
  <2> QED BY <1>1, <1>3, <2>2, <2>3, <2>4 DEF TypeOK, QueuesOK, knobs
<1>9. Accounted'
  <2>1. \A r \in Elems(running') : r \in Elems(running) /\ r \in Requests
    BY <1>4, QueuedAreRequests
  <2>2. ASSUME NEW r \in Elems(running')
        PROVE  prompt'[r] > 0 /\ left'[r] > 0 /\ computed'[r] < Tokens(r)'
               /\ computed'[r] + sched'[r] <= Tokens(r)'
    <3>1. r \in Requests /\ r \in Elems(running) /\ ~ends(r)
      BY <1>4, <2>1
    <3>2. prompt[r] > 0 /\ left[r] > 0 /\ computed[r] < Tokens(r) /\ new[r] <= Tokens(r)
      BY <3>1 DEF Accounted
    <3>3. Tokens(r)' = prompt[r] + made'[r]
      BY <1>1 DEF Tokens
    <3> QED BY <1>1, <1>5, <1>7, <3>1, <3>2, <3>3
  <2>3. ASSUME NEW r \in Elems(waiting') \cup Elems(skipped')
        PROVE  prompt'[r] > 0 /\ left'[r] > 0
    <3>1. r \in Elems(waiting) \cup Elems(skipped) /\ r \in Requests
      BY <1>1, <2>3, QueuedAreRequests
    <3>2. sched[r] = 0
      BY <3>1 DEF TypeOK, QueuesOK, Apart, Accounted
    <3> QED BY <1>1, <1>7, <3>1, <3>2 DEF Accounted
  <2> QED BY <1>7, <2>2, <2>3 DEF Accounted
<1> QED BY <1>1, <1>8, <1>9 DEF Turns, WithinCap, NoStall

----------------------------------------------------------------------------
(* The theorems                                                            *)

LEMMA Inductive == Spec => []IInv
<1>1. IInv /\ [Next]_vars => IInv'
  <2> SUFFICES ASSUME IInv, [Next]_vars PROVE IInv'
    OBVIOUS
  <2>1. ASSUME NEW r \in Requests, Arrive(r) PROVE IInv'
    BY <2>1, ArriveStep
  <2>2. CASE BeginStep
    BY <2>2, BeginStepStep
  <2>3. CASE RunTurn
    BY <2>3, RunTurnStep
  <2>4. CASE EndRun
    BY <2>4, EndRunStep
  <2>5. CASE WaitSkip
    BY <2>5, WaitSkipStep
  <2>6. CASE WaitAdmit
    BY <2>6, WaitAdmitStep
  <2>7. CASE EndWait
    BY <2>7, EndWaitStep
  <2>8. CASE Execute
    BY <2>8, ExecuteStep
  <2>9. CASE Preempt
    BY <2>9, PreemptStep
  <2>10. CASE UNCHANGED vars
    <3>1. TypeOK' /\ Accounted' /\ Turns'
      BY <2>10 DEF vars, knobs, reqs, IInv, TypeOK, QueuesOK, Accounted, Turns, Tokens
    <3>2. WithinCap' /\ NoStall'
      BY <2>10 DEF vars, knobs, reqs, IInv, WithinCap, Beside, NoStall
    <3> QED BY <3>1, <3>2 DEF IInv
  <2> QED BY <2>1, <2>2, <2>3, <2>4, <2>5, <2>6, <2>7, <2>8, <2>9, <2>10 DEF Next, Engine
<1> QED BY <1>1, InitHolds, PTL DEF Spec

\* Every variable keeps its type and a request stays in one queue at most,
\* through preemptions, skips and the return of the skipped.
THEOREM TypeCorrect == Spec => []TypeOK
<1>1. IInv => TypeOK
  BY DEF IInv
<1> QED BY <1>1, Inductive, PTL

\* The policy holds at every step of the engine, for any cap, although it is
\* asked while the loops admit and preempt.
THEOREM PrefillBesideDecodeIsCapped == Spec => []MixedChunkWithinCap
<1>1. IInv => MixedChunkWithinCap
  <2> SUFFICES ASSUME IInv, phase = "exec", cap # Off, NEW i \in DOMAIN running, NEW j \in DOMAIN running
               PROVE  Beside(i, j)
    BY DEF MixedChunkWithinCap, Beside
  <2>1. DOMAIN running = 1..Len(running)
    BY DEF IInv, TypeOK
  <2> QED BY <2>1 DEF IInv, WithinCap
<1> QED BY <1>1, Inductive, PTL

\* Nor does any cap, threshold or block size starve a request whose turn it
\* is: only the policy's skip, beside a peer that decodes.
THEOREM OnlyThePolicyStalls == Spec => []NoStall
<1>1. IInv => NoStall
  BY DEF IInv
<1> QED BY <1>1, Inductive, PTL
=============================================================================

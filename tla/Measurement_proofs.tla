------------------------- MODULE Measurement_proofs -------------------------
(***************************************************************************)
(* Proofs about the measuring tools: the boots behind the observations of  *)
(* the prefill watchdog (PrefillWatch), the end that the power sampler     *)
(* reports (PowerSampler), and the comparisons of the A/B harness          *)
(* (BenchAb), for every number of scrapes, arms, benchmarks and troubles.  *)
(***************************************************************************)
EXTENDS Measurement, FiniteSetTheorems, CommonLemmas

----------------------------------------------------------------------------
(* The watchdog                                                            *)
(*                                                                         *)
(* The observations so far are of the boot of the last snapshot: a scrape  *)
(* either finds that boot again, or forgets them.                          *)

Boots == Nat \ {0}
Snapshots == [boot : Boots, prompt : Nat, costs : SUBSET {1, 2}, ttft : Int, start : Nat]
Observations == [tok : Int, boots : SUBSET Nat, costs : SUBSET {1, 2}]

\* What the engine exports, and what the scrapes so far made of it.
WatchTyped ==
  /\ engine \in [boot : Boots, prompt : Nat, ttft : Nat, cost : {1, 2}, start : BOOLEAN, hist : BOOLEAN]
  /\ served \in [n : Nat, costs : SUBSET {1, 2}]
  /\ snaps.n \in Nat /\ obs \in Seq(Observations)
  /\ snaps.n > 0 => snaps.last \in Snapshots
  /\ snaps.n = 0 => obs = << >>

\* A snapshot says which boot it is of, when the engine exports it.
Stamped == snaps.n > 0 /\ engine.start => snaps.last.start = snaps.last.boot

WatchInv == tool = "watchdog" => WatchTyped /\ Stamped /\ Watch!ObservationsAreOfOneBoot

\* One step of observations_from_snapshots: with the start times, all that is
\* left behind it is of the boot of the second snapshot.
LEMMA ObserveKeepsOneBoot ==
  ASSUME WatchTyped, NEW p \in Snapshots, NEW c \in Snapshots
  PROVE  /\ Watch!Observe(p, c) \in Seq(Observations)
         /\ (/\ p.start = p.boot /\ c.start = c.boot
             /\ \A k \in DOMAIN obs : obs[k].boots = {p.boot})
              => \A k \in DOMAIN Watch!Observe(p, c) : Watch!Observe(p, c)[k].boots = {c.boot}
<1> DEFINE prompt == c.prompt - p.prompt
           ttft == IF p.ttft < 0 \/ c.ttft < 0 THEN 0 ELSE c.ttft - p.ttft
           o == [tok |-> IF ttft > 0 THEN (12 * prompt) \div ttft ELSE 12 * prompt,
                 boots |-> {p.boot, c.boot}, costs |-> c.costs]
           x == Watch!Observe(p, c)
<1>1. o \in Observations
  <2>1. prompt \in Int /\ ttft \in Int
    BY DEF Snapshots
  <2>2. (IF ttft > 0 THEN (12 * prompt) \div ttft ELSE 12 * prompt) \in Int
    BY <2>1
  <2>3. {p.boot, c.boot} \subseteq Nat /\ c.costs \in SUBSET {1, 2}
    BY DEF Snapshots, Boots
  <2> QED BY <2>2, <2>3 DEF Observations
<1>2. \/ x = << >>
      \/ /\ x = obs \/ x = Append(obs, o)
         /\ ~(p.start # 0 /\ c.start # 0 /\ p.start # c.start)
  BY DEF Watch!Observe, Watch!Scale
<1>3. o.boots = {p.boot, c.boot}
  OBVIOUS
<1>4. p.boot # 0 /\ c.boot # 0
  BY DEF Snapshots, Boots
<1>5. obs \in Seq(Observations)
  BY DEF WatchTyped
<1> HIDE DEF o, x
<1>6. CASE x = << >>
  BY <1>6 DEF x
<1>7. CASE x = obs /\ ~(p.start # 0 /\ c.start # 0 /\ p.start # c.start)
  BY <1>4, <1>5, <1>7 DEF x
<1>8. CASE x = Append(obs, o) /\ ~(p.start # 0 /\ c.start # 0 /\ p.start # c.start)
  <2>1. /\ x \in Seq(Observations) /\ DOMAIN x = 1..(Len(obs) + 1) /\ DOMAIN obs = 1..Len(obs)
        /\ (\A k \in 1..Len(obs) : x[k] = obs[k]) /\ x[Len(obs) + 1] = o
    BY <1>1, <1>5, <1>8
  <2>2. ASSUME p.start = p.boot, c.start = c.boot, \A k \in DOMAIN obs : obs[k].boots = {p.boot},
               NEW k \in DOMAIN x
        PROVE  x[k].boots = {c.boot}
    <3>1. p.boot = c.boot
      BY <1>4, <1>8, <2>2
    <3>2. CASE k \in 1..Len(obs)
      BY <2>1, <2>2, <3>1, <3>2
    <3>3. CASE k = Len(obs) + 1
      BY <1>3, <2>1, <3>1, <3>3
    <3> QED BY <1>5, <2>1, <2>2, <3>2, <3>3
  <2> QED BY <2>1, <2>2 DEF x
<1> QED BY <1>2, <1>6, <1>7, <1>8

LEMMA WatchInit == Init => WatchInv
<1> SUFFICES ASSUME Watch!Init PROVE WatchTyped /\ Stamped /\ Watch!ObservationsAreOfOneBoot
  BY DEF Init, WatchInv
<1> QED BY DEF Watch!Init, WatchTyped, Stamped, Watch!ObservationsAreOfOneBoot, Watch!Costs, Boots

LEMMA WatchStep == WatchInv /\ [Next]_vars => WatchInv'
<1> SUFFICES ASSUME WatchInv, [Next]_vars, tool' = "watchdog"
             PROVE  (WatchTyped /\ Stamped /\ Watch!ObservationsAreOfOneBoot)'
  BY DEF WatchInv
<1>1. CASE UNCHANGED vars
  BY <1>1 DEF vars, wvars, WatchInv, WatchTyped, Stamped, Watch!ObservationsAreOfOneBoot
<1>2. CASE Next
  <2>1. Watch!Next
    BY <1>2 DEF Next, Benchmarking, Sampling, Watching
  <2>2. WatchTyped /\ Stamped /\ Watch!ObservationsAreOfOneBoot
    BY <1>2 DEF Next, Benchmarking, Sampling, Watching, WatchInv
  <2>3. CASE Watch!Serve \/ Watch!SlowDown \/ Watch!Restart
    <3>1. snaps' = snaps /\ obs' = obs /\ engine'.start = engine.start
      BY <2>2, <2>3 DEF Watch!Serve, Watch!SlowDown, Watch!Restart, WatchTyped
    <3>2. /\ engine' \in [boot : Boots, prompt : Nat, ttft : Nat, cost : {1, 2}, start : BOOLEAN, hist : BOOLEAN]
          /\ served' \in [n : Nat, costs : SUBSET {1, 2}]
      <4> DEFINE Engines == [boot : Nat \ {0}, prompt : Nat, ttft : Nat, cost : {1, 2},
                             start : BOOLEAN, hist : BOOLEAN]
      <4>1. engine \in Engines /\ served \in [n : Nat, costs : SUBSET {1, 2}]
        BY <2>2 DEF WatchTyped, Boots
      <4>2. CASE Watch!Serve
        <5>1. engine' = [engine EXCEPT !.prompt = @ + 1, !.ttft = @ + engine.cost]
              /\ served' = [n |-> served.n + 1, costs |-> served.costs \cup {engine.cost}]
          BY <4>2 DEF Watch!Serve
        <5>2. engine.prompt + 1 \in Nat /\ engine.ttft + engine.cost \in Nat /\ served.n + 1 \in Nat
              /\ served.costs \cup {engine.cost} \subseteq {1, 2}
          BY <4>1
        <5> QED BY <4>1, <5>1, <5>2 DEF Boots
      <4>3. CASE Watch!SlowDown
        BY <4>1, <4>3 DEF Watch!SlowDown, Boots
      <4>4. CASE Watch!Restart
        <5>1. engine' = [engine EXCEPT !.boot = @ + 1, !.prompt = 0, !.ttft = 0, !.cost = 1]
              /\ served' = served
          BY <4>4 DEF Watch!Restart
        <5>2. engine.boot + 1 \in Nat \ {0}
          BY <4>1
        <5> QED BY <4>1, <5>1, <5>2 DEF Boots
      <4> QED BY <2>3, <4>2, <4>3, <4>4
    <3> QED BY <2>2, <3>1, <3>2 DEF WatchTyped, Stamped, Watch!ObservationsAreOfOneBoot
  <2>4. CASE Watch!Scrape
    <3> DEFINE snap == [boot |-> engine.boot, prompt |-> engine.prompt, costs |-> served.costs,
                        ttft |-> IF engine.hist THEN engine.ttft ELSE -1,
                        start |-> IF engine.start THEN engine.boot ELSE 0]
    <3>1. /\ snaps' = [n |-> snaps.n + 1, last |-> snap] /\ UNCHANGED engine
          /\ obs' = IF snaps.n = 0 THEN << >> ELSE Watch!Observe(snaps.last, snap)
          /\ served' = [n |-> 0, costs |-> {}]
      BY <2>4 DEF Watch!Scrape
    <3>2. snap \in Snapshots /\ snap.boot = engine.boot /\ (engine.start => snap.start = snap.boot)
      BY <2>2 DEF WatchTyped, Snapshots, Boots
    <3> HIDE DEF snap
    <3>3. snaps'.n = snaps.n + 1 /\ snaps'.last = snap
      BY <3>1
    <3>4. snaps.n \in Nat /\ (snaps.n # 0 => snaps.last \in Snapshots)
      BY <2>2 DEF WatchTyped
    <3>5. /\ obs' \in Seq(Observations)
          /\ engine.start => \A k \in DOMAIN obs' : obs'[k].boots = {snap.boot}
      <4>1. CASE snaps.n = 0
        BY <3>1, <4>1
      <4>2. CASE snaps.n # 0
        <5>1. obs' = Watch!Observe(snaps.last, snap) /\ snaps.last \in Snapshots
          BY <3>1, <3>4, <4>2
        <5>2. engine.start => /\ snaps.last.start = snaps.last.boot
                              /\ \A k \in DOMAIN obs : obs[k].boots = {snaps.last.boot}
          BY <2>2, <3>4, <4>2 DEF Stamped, Watch!ObservationsAreOfOneBoot
        <5> QED BY <2>2, <3>2, <5>1, <5>2, ObserveKeepsOneBoot
      <4> QED BY <4>1, <4>2
    <3>6. WatchTyped'
      BY <2>2, <3>1, <3>2, <3>3, <3>4, <3>5 DEF WatchTyped
    <3> QED BY <3>1, <3>2, <3>3, <3>5, <3>6 DEF Stamped, Watch!ObservationsAreOfOneBoot
  <2>5. CASE \E log \in Logs : Watch!Judge(log)
    BY <2>2, <2>5 DEF Watch!Judge, WatchTyped, Stamped, Watch!ObservationsAreOfOneBoot
  <2> QED BY <2>1, <2>3, <2>4, <2>5 DEF Watch!Next
<1> QED BY <1>1, <1>2

\* prefill-watchdog.py:253: when the engine exports its start time, what is
\* compared was observed of the boot that is scraped last, however often the
\* engine restarts between scrapes and whatever its counters then say.
THEOREM ObservedBootsAgree == Spec => []ObservationsAreOfOneBoot
<1>1. WatchInv => ObservationsAreOfOneBoot
  BY DEF WatchInv, ObservationsAreOfOneBoot
<1> QED BY WatchInit, WatchStep, <1>1, PTL DEF Spec

----------------------------------------------------------------------------
(* The judgement                                                           *)
(*                                                                         *)
(* While the engine has not restarted, an interval whose prompts all took  *)
(* the same time is observed at exactly that speed, however many there     *)
(* were: so is the median of any number of such intervals.                 *)

Speed(c) == 12 \div c

\* What was served since the last scrape is what the counters have gone up by.
Since ==
  engine.boot = 1 /\ engine.hist /\ snaps.n > 0 =>
    /\ engine.prompt - snaps.last.prompt = served.n
    /\ snaps.last.ttft \in Nat /\ snaps.last.ttft <= engine.ttft
    /\ served.costs = {} <=> served.n = 0
    /\ served.n = 0 => engine.ttft = snaps.last.ttft
    /\ \A c \in {1, 2} : served.costs = {c} => engine.ttft - snaps.last.ttft = c * served.n

AtSpeed(o) == o.costs # {} /\ \A c \in {1, 2} : o.costs = {c} => o.tok = Speed(c)

Rates == [k \in DOMAIN obs |-> obs[k].tok]

\* The verdict is that of the observations, when they say enough.
Judged ==
  /\ verdict.code \in -1..2
  /\ verdict.code >= 0 => /\ Watch!Analyze(Rates) = "ok" => verdict.code = 0
                          /\ Watch!Analyze(Rates) = "degraded" => verdict.code = 2

DropInv ==
  tool = "watchdog" =>
    /\ Since /\ Judged
    /\ engine.boot = 1 /\ engine.hist => \A k \in DOMAIN obs : AtSpeed(obs[k])

LEMMA Quotient ==
  ASSUME NEW p \in Nat \ {0}, NEW c \in {1, 2}
  PROVE  (12 * p) \div (c * p) = Speed(c)
<1>1. CASE c = 1
  <2> DEFINE q == (12 * p) \div p
             m == (12 * p) % p
  <2>1. q \in Nat /\ m \in 0..(p - 1) /\ 12 * p = p * q + m
    OBVIOUS
  <2> HIDE DEF q, m
  <2>2. ~(q <= 11)
    <3> SUFFICES ASSUME q <= 11 PROVE FALSE
      OBVIOUS
    <3>1. p * q <= p * 11
      BY <2>1
    <3> QED BY <2>1, <3>1
  <2>3. ~(q >= 13)
    <3> SUFFICES ASSUME q >= 13 PROVE FALSE
      OBVIOUS
    <3>1. p * q >= p * 13
      BY <2>1
    <3> QED BY <2>1, <3>1
  <2>4. q = 12
    BY <2>1, <2>2, <2>3
  <2> QED BY <1>1, <2>4 DEF q, Speed
<1>2. CASE c = 2
  <2> DEFINE d == 2 * p
             q == (12 * p) \div d
             m == (12 * p) % d
  <2>1. d \in Nat \ {0} /\ 12 * p = 6 * d
    OBVIOUS
  <2>2. q \in Nat /\ m \in 0..(d - 1) /\ 6 * d = d * q + m
    BY <2>1
  <2> HIDE DEF d, q, m
  <2>3. ~(q <= 5)
    <3> SUFFICES ASSUME q <= 5 PROVE FALSE
      OBVIOUS
    <3>1. d * q <= d * 5
      BY <2>1, <2>2
    <3> QED BY <2>1, <2>2, <3>1
  <2>4. ~(q >= 7)
    <3> SUFFICES ASSUME q >= 7 PROVE FALSE
      OBVIOUS
    <3>1. d * q >= d * 7
      BY <2>1, <2>2
    <3> QED BY <2>1, <2>2, <3>1
  <2>5. q = 6
    BY <2>2, <2>3, <2>4
  <2> QED BY <1>2, <2>5 DEF q, d, Speed
<1> QED BY <1>1, <1>2

LEMMA WatchCounts == \A S : Watch!Cardinality(S) = Cardinality(S)
BY DEF Watch!Cardinality, Cardinality

\* The median of equal values is that value.
LEMMA MedianOfEquals ==
  ASSUME NEW n \in Nat \ {0}, NEW s \in [1..n -> Int], Len(s) = n, NEW x \in Int,
         \A i \in 1..n : s[i] = x
  PROVE  Watch!Median2(s) = 2 * x
<1>1. Watch!Range(s) = {x}
  <2>1. Watch!Range(s) = {s[i] : i \in 1..n}
    BY DEF Watch!Range
  <2>2. 1 \in 1..n
    OBVIOUS
  <2> QED BY <2>1, <2>2
<1>2. ASSUME NEW k \in 1..n PROVE Watch!Ranked(s, k) = x
  <2>1. {i \in DOMAIN s : s[i] < x} = {} /\ {i \in DOMAIN s : s[i] <= x} = 1..n
    OBVIOUS
  <2>2. Cardinality({}) = 0 /\ Cardinality(1..n) = n
    <3>1. Cardinality(1..n) = IF 1 > n THEN 0 ELSE n - 1 + 1
      BY FS_Interval
    <3> QED BY <3>1, FS_EmptySet
  <2>3. Cardinality({i \in DOMAIN s : s[i] < x}) < k /\ Cardinality({i \in DOMAIN s : s[i] <= x}) >= k
    <3>1. Cardinality({i \in DOMAIN s : s[i] < x}) = 0
      BY <2>1, <2>2, Zenon
    <3>2. Cardinality({i \in DOMAIN s : s[i] <= x}) = n
      BY <2>1, <2>2, Zenon
    <3> QED BY <3>1, <3>2
  <2>4. Watch!Ranked(s, k) = CHOOSE v \in {x} :
          /\ Cardinality({i \in DOMAIN s : s[i] < v}) < k
          /\ Cardinality({i \in DOMAIN s : s[i] <= v}) >= k
    BY <1>1, WatchCounts DEF Watch!Ranked
  <2> QED BY <2>3, <2>4
<1>3. CASE n % 2 = 1
  <2>1. (n + 1) \div 2 \in 1..n
    OBVIOUS
  <2> QED BY <1>2, <1>3, <2>1 DEF Watch!Median2
<1>4. CASE n % 2 # 1
  <2>1. n \div 2 \in 1..n /\ n \div 2 + 1 \in 1..n
    BY <1>4
  <2>2. Watch!Median2(s) = x + x
    BY <1>2, <1>4, <2>1 DEF Watch!Median2
  <2> QED BY <2>2
<1> QED BY <1>3, <1>4

\* What analyze_series says of two stretches at one speed each.
LEMMA AnalyzeIs ==
  ASSUME NEW n \in Nat, NEW s \in Seq(Int), Len(s) = n, n > Window,
         NEW x \in Int, NEW y \in Int,
         \A i \in 1..(n - Window) : s[i] = x, \A i \in (n - Window + 1)..n : s[i] = y
  PROVE  Watch!Analyze(s) = IF 10 * (2 * y) <= 7 * (2 * x) THEN "degraded" ELSE "ok"
<1>1. Window \in Nat \ {0} /\ BaselineWindow \in Nat \ {0}
  BY MeasurementAssumption DEF MeasurementAssumption
<1> DEFINE from == IF n - Window - BaselineWindow > 0 THEN n - Window - BaselineWindow ELSE 0
           recent == SubSeq(s, n - Window + 1, n)
           baseline == SubSeq(s, from + 1, n - Window)
<1>2. Watch!Median2(recent) = 2 * y
  <2> DEFINE a == n - Window
  <2>1. a \in Nat /\ a <= n /\ n - a = Window
    BY <1>1
  <2>2. recent \in Seq(Int) /\ Len(recent) = Window /\ \A i \in 1..Window : recent[i] = s[a + i]
    <3>1. recent = SubSeq(s, a + 1, n)
      OBVIOUS
    <3> HIDE DEF a, recent
    <3>2. recent \in Seq(Int) /\ Len(recent) = n - a /\ \A i \in 1..(n - a) : recent[i] = s[a + i]
      BY <2>1, <3>1, PartIs
    <3> QED BY <2>1, <3>2
  <2>3. \A i \in 1..Window : a + i \in (n - Window + 1)..n
    BY <1>1, <2>1
  <2> HIDE DEF a
  <2> HIDE DEF recent
  <2>4. recent \in [1..Window -> Int] /\ \A i \in 1..Window : recent[i] = y
    BY <2>2, <2>3
  <2> QED BY <1>1, <2>2, <2>4, MedianOfEquals
<1>3. Watch!Median2(baseline) = 2 * x
  <2>1. from \in Nat /\ from < n - Window /\ n - Window \in Nat /\ n - Window <= n
    BY <1>1
  <2> HIDE DEF from
  <2> DEFINE m == (n - Window) - from
  <2>2. m \in Nat \ {0}
    BY <2>1
  <2>3. baseline \in Seq(Int) /\ Len(baseline) = m /\ \A i \in 1..m : baseline[i] = s[from + i]
    <3> DEFINE b == n - Window
    <3>1. b \in Nat /\ from <= b /\ b <= Len(s) /\ m = b - from /\ baseline = SubSeq(s, from + 1, b)
      BY <2>1
    <3> HIDE DEF b, m, baseline
    <3>2. LET z == SubSeq(s, from + 1, b)
          IN  z \in Seq(Int) /\ Len(z) = b - from /\ \A i \in 1..(b - from) : z[i] = s[from + i]
      BY <2>1, <3>1, PartIs
    <3> QED BY <3>1, <3>2
  <2>4. \A i \in 1..m : from + i \in 1..(n - Window)
    BY <2>1
  <2> HIDE DEF m, baseline
  <2>5. baseline \in [1..m -> Int] /\ \A i \in 1..m : baseline[i] = x
    BY <2>3, <2>4
  <2> QED BY <2>2, <2>3, <2>5, MedianOfEquals
<1>4. ~(n < Window + 1)
  BY <1>1
<1> QED BY <1>2, <1>3, <1>4 DEF Watch!Analyze

LEMMA DropInit == Init => DropInv
<1> SUFFICES ASSUME Watch!Init
             PROVE  Since /\ Judged /\ (engine.boot = 1 /\ engine.hist => \A k \in DOMAIN obs : AtSpeed(obs[k]))
  BY DEF Init, DropInv
<1>1. snaps.n = 0 /\ DOMAIN obs = {} /\ verdict.code = -1
  BY DEF Watch!Init
<1> QED BY <1>1 DEF Since, Judged

\* What a scrape observes of an engine that has not restarted.
LEMMA ObserveAtSpeed ==
  ASSUME WatchTyped, Since, engine.boot = 1, engine.hist, snaps.n > 0,
         \A k \in DOMAIN obs : AtSpeed(obs[k]), NEW snap,
         snap = [boot |-> engine.boot, prompt |-> engine.prompt, costs |-> served.costs,
                 ttft |-> engine.ttft, start |-> IF engine.start THEN engine.boot ELSE 0]
  PROVE  \A k \in DOMAIN Watch!Observe(snaps.last, snap) : AtSpeed(Watch!Observe(snaps.last, snap)[k])
<1> DEFINE p == snaps.last
           prompt == snap.prompt - p.prompt
           ttft == snap.ttft - p.ttft
           o == [tok |-> IF ttft > 0 THEN (12 * prompt) \div ttft ELSE 12 * prompt,
                 boots |-> {p.boot, snap.boot}, costs |-> snap.costs]
           x == Watch!Observe(p, snap)
<1>1. /\ prompt = served.n /\ served.n \in Nat /\ ttft \in Nat
      /\ ~(p.ttft < 0) /\ ~(snap.ttft < 0) /\ snap.costs = served.costs
      /\ served.costs = {} <=> served.n = 0
      /\ \A c \in {1, 2} : served.costs = {c} => ttft = c * served.n
  BY DEF WatchTyped, Since
<1>2. x = << >> \/ x = obs \/ (x = Append(obs, o) /\ prompt # 0)
  BY <1>1 DEF Watch!Observe, Watch!Scale
<1>3. prompt # 0 => AtSpeed(o)
  <2> SUFFICES ASSUME prompt # 0, NEW c \in {1, 2}, served.costs = {c}
               PROVE  o.tok = Speed(c)
    BY <1>1 DEF AtSpeed
  <2>1. served.n \in Nat \ {0} /\ prompt = served.n /\ ttft = c * served.n /\ ttft > 0
    BY <1>1
  <2>2. o.tok = (12 * served.n) \div (c * served.n)
    BY <2>1
  <2> QED BY <2>1, <2>2, Quotient
<1>4. obs \in Seq(Observations)
  BY DEF WatchTyped
<1> HIDE DEF o, x, prompt, ttft
<1>5. CASE x = << >>
  BY <1>5 DEF x
<1>6. CASE x = obs
  BY <1>6 DEF x
<1>7. CASE x = Append(obs, o) /\ prompt # 0
  <2>1. /\ DOMAIN x = 1..(Len(obs) + 1) /\ DOMAIN obs = 1..Len(obs) /\ Len(obs) \in Nat
        /\ (\A k \in 1..Len(obs) : x[k] = obs[k]) /\ x[Len(obs) + 1] = o
    BY <1>4, <1>7
  <2>2. \A k \in DOMAIN x : AtSpeed(x[k])
    <3> TAKE k \in DOMAIN x
    <3>1. k \in DOMAIN obs \/ k = Len(obs) + 1
      BY <2>1
    <3> QED BY <1>3, <1>7, <2>1, <3>1
  <2> QED BY <2>2 DEF x
<1> QED BY <1>2, <1>5, <1>6, <1>7

LEMMA DropStep == WatchInv /\ DropInv /\ [Next]_vars => DropInv'
<1> SUFFICES ASSUME WatchInv, DropInv, [Next]_vars, tool' = "watchdog"
             PROVE  /\ Since' /\ Judged'
                    /\ engine'.boot = 1 /\ engine'.hist => \A k \in DOMAIN obs' : AtSpeed(obs'[k])
  BY DEF DropInv, AtSpeed
<1>1. tool = "watchdog" /\ (Watch!Next \/ UNCHANGED wvars)
  BY DEF Next, Benchmarking, Sampling, Watching, vars, wvars
<1>2. /\ WatchTyped /\ Since /\ Judged
      /\ engine.boot = 1 /\ engine.hist => \A k \in DOMAIN obs : AtSpeed(obs[k])
  BY <1>1 DEF WatchInv, DropInv
<1> DEFINE Engines == [boot : Nat \ {0}, prompt : Nat, ttft : Nat, cost : {1, 2},
                       start : BOOLEAN, hist : BOOLEAN]
<1>3. engine \in Engines /\ served \in [n : Nat, costs : SUBSET {1, 2}] /\ snaps.n \in Nat
  BY <1>2 DEF WatchTyped, Boots
<1>4. CASE UNCHANGED wvars
  BY <1>2, <1>4 DEF wvars, Since, Judged, Rates
<1>5. CASE Watch!Serve
  <2>1. /\ engine' = [engine EXCEPT !.prompt = @ + 1, !.ttft = @ + engine.cost]
        /\ served' = [n |-> served.n + 1, costs |-> served.costs \cup {engine.cost}]
        /\ snaps' = snaps /\ obs' = obs /\ verdict' = verdict
    BY <1>5 DEF Watch!Serve
  <2>2. /\ engine'.boot = engine.boot /\ engine'.hist = engine.hist
        /\ engine'.prompt = engine.prompt + 1 /\ engine'.ttft = engine.ttft + engine.cost
    BY <1>3, <2>1
  <2>3. Since'
    <3> SUFFICES ASSUME engine.boot = 1, engine.hist, snaps.n > 0
                 PROVE  /\ engine'.prompt - snaps.last.prompt = served'.n
                        /\ snaps.last.ttft \in Nat /\ snaps.last.ttft <= engine'.ttft
                        /\ served'.costs = {} <=> served'.n = 0
                        /\ served'.n = 0 => engine'.ttft = snaps.last.ttft
                        /\ \A c \in {1, 2} : served'.costs = {c} => engine'.ttft - snaps.last.ttft = c * served'.n
      BY <2>1, <2>2 DEF Since
    <3>1. /\ engine.prompt - snaps.last.prompt = served.n
          /\ snaps.last.ttft \in Nat /\ snaps.last.ttft <= engine.ttft
          /\ served.costs = {} <=> served.n = 0
          /\ served.n = 0 => engine.ttft = snaps.last.ttft
          /\ \A c \in {1, 2} : served.costs = {c} => engine.ttft - snaps.last.ttft = c * served.n
      BY <1>2 DEF Since
    <3>2. /\ engine.prompt \in Nat /\ engine.ttft \in Nat /\ engine.cost \in {1, 2} /\ served.n \in Nat
          /\ snaps.last.prompt \in Nat
      BY <1>2, <1>3 DEF WatchTyped, Snapshots
    <3>3. served'.n = served.n + 1 /\ served'.costs = served.costs \cup {engine.cost}
      BY <2>1
    <3>4. ASSUME NEW c \in {1, 2}, served'.costs = {c}
          PROVE  engine'.ttft - snaps.last.ttft = c * served'.n
      <4>1. engine.cost = c /\ (served.costs = {c} \/ served.costs = {})
        BY <3>3, <3>4
      <4>2. CASE served.costs = {c}
        <5>1. engine.ttft - snaps.last.ttft = c * served.n
          BY <3>1, <4>2
        <5> QED BY <2>2, <3>1, <3>2, <3>3, <4>1, <5>1
      <4>3. CASE served.costs = {}
        <5>1. served.n = 0 /\ engine.ttft = snaps.last.ttft
          BY <3>1, <4>3
        <5> QED BY <2>2, <3>1, <3>2, <3>3, <4>1, <5>1
      <4> QED BY <4>1, <4>2, <4>3
    <3>5. engine'.prompt - snaps.last.prompt = served'.n /\ snaps.last.ttft <= engine'.ttft
          /\ served'.costs # {} /\ served'.n # 0
      BY <2>2, <3>1, <3>2, <3>3
    <3> QED BY <3>1, <3>4, <3>5
  <2> QED BY <1>2, <2>1, <2>2, <2>3 DEF Judged, Rates
<1>6. CASE Watch!SlowDown
  <2>1. /\ engine' = [engine EXCEPT !.cost = 2]
        /\ served' = served /\ snaps' = snaps /\ obs' = obs /\ verdict' = verdict
    BY <1>6 DEF Watch!SlowDown
  <2>2. /\ engine'.boot = engine.boot /\ engine'.hist = engine.hist
        /\ engine'.prompt = engine.prompt /\ engine'.ttft = engine.ttft
    BY <1>3, <2>1
  <2> QED BY <1>2, <2>1, <2>2 DEF Since, Judged, Rates
<1>7. CASE Watch!Restart
  <2>1. /\ engine' = [engine EXCEPT !.boot = @ + 1, !.prompt = 0, !.ttft = 0, !.cost = 1]
        /\ obs' = obs /\ verdict' = verdict
    BY <1>7 DEF Watch!Restart
  <2>2. engine'.boot # 1
    BY <1>3, <2>1
  <2> QED BY <1>2, <2>1, <2>2 DEF Since, Judged, Rates
<1>8. CASE Watch!Scrape
  <2> DEFINE snap == [boot |-> engine.boot, prompt |-> engine.prompt, costs |-> served.costs,
                      ttft |-> IF engine.hist THEN engine.ttft ELSE -1,
                      start |-> IF engine.start THEN engine.boot ELSE 0]
  <2>1. /\ verdict.code < 0 /\ verdict' = verdict /\ engine' = engine
        /\ snaps' = [n |-> snaps.n + 1, last |-> snap] /\ served' = [n |-> 0, costs |-> {}]
        /\ obs' = IF snaps.n = 0 THEN << >> ELSE Watch!Observe(snaps.last, snap)
    BY <1>8 DEF Watch!Scrape
  <2>2. verdict'.code = -1
    BY <1>2, <2>1 DEF Judged
  <2>3. Judged'
    BY <2>2 DEF Judged
  <2>4. Since'
    <3>1. snaps'.last = snap /\ served'.n = 0 /\ served'.costs = {}
      BY <2>1
    <3>2. engine.hist => snap.ttft = engine.ttft /\ snap.prompt = engine.prompt
      OBVIOUS
    <3>3. engine.prompt \in Nat /\ engine.ttft \in Nat /\ engine.prompt - engine.prompt = 0
      BY <1>3
    <3> HIDE DEF snap
    <3> QED BY <2>1, <3>1, <3>2, <3>3 DEF Since
  <2>5. ASSUME engine.boot = 1, engine.hist PROVE \A k \in DOMAIN obs' : AtSpeed(obs'[k])
    <3>1. CASE snaps.n = 0
      BY <2>1, <3>1
    <3>2. CASE snaps.n # 0
      <4>1. snap = [boot |-> engine.boot, prompt |-> engine.prompt, costs |-> served.costs,
                    ttft |-> engine.ttft, start |-> IF engine.start THEN engine.boot ELSE 0]
        BY <2>5
      <4>2. snaps.n > 0
        BY <1>3, <3>2
      <4> HIDE DEF snap
      <4>3. \A k \in DOMAIN Watch!Observe(snaps.last, snap) : AtSpeed(Watch!Observe(snaps.last, snap)[k])
        BY <1>2, <2>5, <4>1, <4>2, ObserveAtSpeed
      <4> QED BY <2>1, <3>2, <4>3
    <3> QED BY <3>1, <3>2
  <2> QED BY <2>1, <2>3, <2>4, <2>5
<1>9. CASE \E log \in Logs : Watch!Judge(log)
  <2>1. PICK log : Watch!Judge(log)
    BY <1>9
  <2> DEFINE metrics == Watch!Analyze(Rates)
             logs == IF metrics # "insufficient" \/ log = Watch!Missing THEN {}
                     ELSE {Watch!Analyze(Watch!LogValues(log))}
             usable == ({metrics} \cup logs) \ {"insufficient"}
  <2>2. /\ verdict' = IF usable = {} THEN [status |-> "ERROR", code |-> 1]
                      ELSE IF "degraded" \in usable THEN [status |-> "DEGRADED", code |-> 2]
                      ELSE [status |-> "OK", code |-> 0]
        /\ engine' = engine /\ served' = served /\ snaps' = snaps /\ obs' = obs
    BY <2>1 DEF Watch!Judge, Rates
  <2>3. Rates' = Rates
    BY <2>2 DEF Rates
  <2>4. metrics # "insufficient" => usable = {metrics}
    OBVIOUS
  <2> HIDE DEF usable
  <2>5. /\ verdict'.code \in -1..2
        /\ (metrics = "ok" => verdict'.code = 0) /\ (metrics = "degraded" => verdict'.code = 2)
    BY <2>2, <2>4
  <2>6. Watch!Analyze(Rates)' = metrics
    BY <2>3 DEF Watch!Analyze, Watch!Median2, Watch!Ranked, Watch!Range
  <2>7. Judged'
    BY <2>5, <2>6 DEF Judged
  <2>8. Since'
    BY <1>2, <2>2 DEF Since
  <2> QED BY <1>2, <2>2, <2>7, <2>8
<1> QED BY <1>1, <1>4, <1>5, <1>6, <1>7, <1>8, <1>9 DEF Watch!Next

\* prefill-watchdog.py:294-365: of an engine that did not restart, a constant
\* speed is never called degraded, however unevenly it was loaded, and a window
\* at half the speed of the intervals before it always is, for every length of
\* the windows and every number of scrapes.
THEOREM ADropIsADrop == Spec => []DropIsReportedAndOnlyADrop
<1>1. WatchInv /\ DropInv => DropIsReportedAndOnlyADrop
  <2> DEFINE n == Len(obs)
             costs(K) == UNION {obs[k].costs : k \in K}
  <2> SUFFICES ASSUME WatchTyped, Judged, \A k \in DOMAIN obs : AtSpeed(obs[k]),
                      verdict.code >= 0, n > Window
               PROVE  /\ Cardinality(costs(1..n)) = 1 => verdict.code = 0
                      /\ costs((n - Window + 1)..n) = {2} /\ costs(1..(n - Window)) = {1} => verdict.code = 2
    BY WatchCounts DEF WatchInv, DropInv, DropIsReportedAndOnlyADrop, Watch!DropIsReportedAndOnlyADrop
  <2>1. /\ n \in Nat /\ DOMAIN obs = 1..n /\ Window \in Nat \ {0}
        /\ \A k \in 1..n : obs[k].tok \in Int /\ obs[k].costs \subseteq {1, 2} /\ AtSpeed(obs[k])
    <3>1. obs \in Seq(Observations) /\ Window \in Nat \ {0}
      BY MeasurementAssumption DEF WatchTyped, MeasurementAssumption
    <3>2. n \in Nat /\ DOMAIN obs = 1..n /\ \A k \in 1..n : obs[k] \in Observations
      BY <3>1
    <3> QED BY <3>1, <3>2 DEF Observations
  <2>2. Rates \in Seq(Int) /\ Len(Rates) = n /\ \A k \in 1..n : Rates[k] = obs[k].tok
    <3>1. Rates = [k \in 1..n |-> obs[k].tok]
      BY <2>1 DEF Rates
    <3> HIDE DEF n
    <3> QED BY <2>1, <3>1
  <2> HIDE DEF n
  <2>3. ASSUME NEW c \in {1, 2}, NEW K \in SUBSET (1..n), costs(K) = {c}
        PROVE  \A k \in K : Rates[k] = Speed(c)
    <3> TAKE k \in K
    <3>1. k \in 1..n /\ obs[k].costs \subseteq costs(K) /\ AtSpeed(obs[k])
      BY <2>1
    <3>2. obs[k].costs = {c}
      BY <2>3, <3>1 DEF AtSpeed
    <3> QED BY <2>2, <3>1, <3>2 DEF AtSpeed
  <2>4. Speed(1) = 12 /\ Speed(2) = 6
    BY DEF Speed
  <2>5. ASSUME Cardinality(costs(1..n)) = 1 PROVE verdict.code = 0
    <3>1. PICK c : costs(1..n) = {c}
      <4>1. IsFiniteSet({1, 2}) /\ costs(1..n) \in SUBSET {1, 2}
        <5>1. {1, 2} = {1} \cup {2} /\ IsFiniteSet({1})
          BY FS_Singleton
        <5>2. IsFiniteSet({1} \cup {2})
          BY <5>1, FS_AddElement
        <5>3. \A k \in 1..n : obs[k].costs \subseteq {1, 2}
          BY <2>1
        <5>4. costs(1..n) \subseteq {1, 2}
          BY <5>3
        <5> QED BY <5>1, <5>2, <5>4
      <4> HIDE DEF costs
      <4>2. IsFiniteSet(costs(1..n))
        BY <4>1, FS_Subset
      <4> QED BY <2>5, <4>2, FS_Singleton
    <3>2. c \in {1, 2}
      <4>1. c \in costs(1..n)
        BY <3>1
      <4> QED BY <2>1, <4>1
    <3> HIDE DEF costs
    <3>3. \A k \in 1..n : Rates[k] = Speed(c)
      BY <2>3, <3>1, <3>2
    <3>4. Speed(c) \in {6, 12} /\ Speed(c) \in Int
      BY <2>4, <3>2
    <3>5. /\ \A k \in 1..(n - Window) : Rates[k] = Speed(c)
          /\ \A k \in (n - Window + 1)..n : Rates[k] = Speed(c)
      BY <2>1, <3>3
    <3>6. Watch!Analyze(Rates) = IF 10 * (2 * Speed(c)) <= 7 * (2 * Speed(c)) THEN "degraded" ELSE "ok"
      BY <2>1, <2>2, <3>4, <3>5, AnalyzeIs
    <3>7. Watch!Analyze(Rates) = "ok"
      BY <3>4, <3>6
    <3> QED BY <3>7 DEF Judged
  <2>6. ASSUME costs((n - Window + 1)..n) = {2}, costs(1..(n - Window)) = {1} PROVE verdict.code = 2
    <3>1. (n - Window + 1)..n \in SUBSET (1..n) /\ 1..(n - Window) \in SUBSET (1..n)
      BY <2>1
    <3> HIDE DEF costs
    <3>2. /\ \A k \in 1..(n - Window) : Rates[k] = 12
          /\ \A k \in (n - Window + 1)..n : Rates[k] = 6
      BY <2>3, <2>4, <2>6, <3>1
    <3>3. Watch!Analyze(Rates) = IF 10 * (2 * 6) <= 7 * (2 * 12) THEN "degraded" ELSE "ok"
      BY <2>1, <2>2, <3>2, AnalyzeIs
    <3> QED BY <3>3 DEF Judged
  <2> QED BY <2>5, <2>6
<1> QED BY WatchInit, WatchStep, DropInit, DropStep, <1>1, PTL DEF Spec

----------------------------------------------------------------------------
(* The power sampler                                                       *)
(*                                                                         *)
(* There is a command from the phase "load" on.  A phase "load" that ended *)
(* did so because the command was over, or the sampler was told to end it, *)
(* by the timeout or a signal; and behind that phase the code of the       *)
(* command is the one that was recorded.                                   *)

PwFields == {"step", "phase", "now", "tick", "until", "offset", "previous", "stop", "result",
             "rc", "timedOut", "exit"}
Before == {"none", "idle_before", "watch"}

PowerTyped ==
  /\ DOMAIN pw = PwFields /\ DOMAIN child = {"state", "rc", "counter"}
  /\ pw.step \in {"spawn", "sample", "finished", "wait", "ended", "final", "done"}
  /\ pw.phase \in Before \cup {"load", "idle_after"}
  /\ pw.step = "spawn" => pw.phase = "none"
  /\ child.state \in {"none", "running", "ended"}
  /\ child.state = "ended" => child.rc \in {0, 1, -15, -9}

\* No command yet.
NotSpawned == pw.phase \in Before => child.state = "none" /\ pw.exit # 124

\* The command runs, or its end is about to be seen.
Loaded ==
  pw.phase = "load" =>
    /\ child.state # "none"
    /\ pw.step \notin {"final", "done"} /\ child.state = "ended" => child.rc \in {0, 1}
    /\ pw.step = "ended" => pw.result = "timeout" \/ pw.stop # "none" \/ child.state = "ended"

\* The command is over, and its code was recorded.
Told ==
  pw.phase = "idle_after" \/ (pw.phase = "load" /\ pw.step \in {"final", "done"}) =>
    /\ child.state = "ended" /\ pw.rc = child.rc
    /\ pw.stop = "none" /\ ~pw.timedOut => pw.exit = child.rc
    /\ pw.exit = 124 => pw.timedOut

PowerInv == tool = "bench-power" => PowerTyped /\ NotSpawned /\ Loaded /\ Told

LEMMA PowerInit == Init => PowerInv
<1> SUFFICES ASSUME Power!Init PROVE PowerTyped /\ NotSpawned /\ Loaded /\ Told
  BY DEF Init, PowerInv
<1> DEFINE p == [step |-> "spawn", phase |-> "none", now |-> 0, tick |-> 0,
                 until |-> IF opts.mode = "watch" THEN opts.timeout ELSE opts.idle, offset |-> 0,
                 previous |-> -1, stop |-> "none", result |-> "none",
                 rc |-> -1, timedOut |-> FALSE, exit |-> 0]
<1>1. /\ pw = IF Power!Phase0(opts) = "spawn" THEN p ELSE Power!Enter(p, Power!Phase0(opts))
      /\ child = [state |-> "none", rc |-> -1, counter |-> 0]
  BY DEF Power!Init, Power!None
<1>2. Power!Phase0(opts) \in {"watch", "idle_before", "spawn"}
  BY DEF Power!Phase0
<1>3. DOMAIN p = PwFields /\ p.exit = 0 /\ p.step = "spawn" /\ p.phase = "none"
  BY DEF PwFields
<1> HIDE DEF p
<1>4. /\ DOMAIN pw = PwFields /\ pw.exit = 0 /\ pw.step \in {"spawn", "sample"}
      /\ pw.phase \in Before /\ (pw.step = "spawn" => pw.phase = "none")
  BY <1>1, <1>2, <1>3 DEF Power!Enter, PwFields, Before
<1>5. DOMAIN child = {"state", "rc", "counter"} /\ child.state = "none"
  BY <1>1
<1> QED BY <1>4, <1>5 DEF PowerTyped, NotSpawned, Loaded, Told, Before

\* Steps that leave the command alone, the phase, and what the sampler knows.
LEMMA PowerKept ==
  ASSUME PowerTyped, NotSpawned, Loaded, Told, child' = child,
         DOMAIN pw' = PwFields, pw'.phase = pw.phase, pw'.exit = pw.exit, pw'.rc = pw.rc,
         pw'.timedOut = pw.timedOut, pw'.stop = "none" => pw.stop = "none",
         pw'.step \in {"sample", "finished", "wait", "ended"},
         pw.step \notin {"spawn", "final", "done"},
         pw'.phase = "load" /\ pw'.step = "ended"
           => pw'.result = "timeout" \/ pw'.stop # "none" \/ child.state = "ended"
  PROVE  (PowerTyped /\ NotSpawned /\ Loaded /\ Told)'
BY DEF PowerTyped, NotSpawned, Loaded, Told, Before

LEMMA PowerStep == PowerInv /\ [Next]_vars => PowerInv'
<1> SUFFICES ASSUME PowerInv, [Next]_vars, tool' = "bench-power"
             PROVE  (PowerTyped /\ NotSpawned /\ Loaded /\ Told)'
  BY DEF PowerInv
<1>1. CASE UNCHANGED vars
  BY <1>1 DEF vars, pvars, PowerInv, PowerTyped, NotSpawned, Loaded, Told
<1>2. CASE Next
  <2>1. Power!Next
    BY <1>2 DEF Next, Benchmarking, Sampling, Watching
  <2>2. PowerTyped /\ NotSpawned /\ Loaded /\ Told
    BY <1>2 DEF Next, Benchmarking, Sampling, Watching, PowerInv
  <2>3. ASSUME NEW d \in Durations, NEW reading, Power!Sample(d, reading)
        PROVE  (PowerTyped /\ NotSpawned /\ Loaded /\ Told)'
    <3>1. /\ pw.step = "sample" /\ child' = child
          /\ \E t, o, v : pw' = [pw EXCEPT !.step = "finished", !.now = t, !.tick = @ + Interval,
                                           !.offset = o, !.previous = v]
      BY <2>3 DEF Power!Sample
    <3>2. /\ DOMAIN pw' = PwFields /\ pw'.phase = pw.phase /\ pw'.exit = pw.exit /\ pw'.rc = pw.rc
          /\ pw'.timedOut = pw.timedOut /\ pw'.stop = pw.stop /\ pw'.step = "finished"
      BY <2>2, <3>1 DEF PowerTyped, PwFields
    <3> QED BY <2>2, <3>1, <3>2, PowerKept
  <2>4. ASSUME NEW over \in 0..Latency, Power!Wait(over)
        PROVE  (PowerTyped /\ NotSpawned /\ Loaded /\ Told)'
    <3>1. /\ pw.step = "wait" /\ child' = child
          /\ \/ \E t : pw' = [pw EXCEPT !.step = "sample", !.now = t]
             \/ pw' = [pw EXCEPT !.step = "sample"]
      BY <2>4 DEF Power!Wait
    <3>2. /\ DOMAIN pw' = PwFields /\ pw'.phase = pw.phase /\ pw'.exit = pw.exit /\ pw'.rc = pw.rc
          /\ pw'.timedOut = pw.timedOut /\ pw'.stop = pw.stop /\ pw'.step = "sample"
      BY <2>2, <3>1 DEF PowerTyped, PwFields
    <3> QED BY <2>2, <3>1, <3>2, PowerKept
  <2>5. CASE Power!Finished
    <3>1. /\ pw.step = "finished" /\ child' = child
          /\ \/ /\ pw' = [pw EXCEPT !.step = "ended", !.result = Power!Poll]
                /\ Power!Poll # "none" \/ pw.stop # "none"
             \/ \E t : pw' = [pw EXCEPT !.step = "wait", !.tick = t]
      BY <2>5 DEF Power!Finished
    <3>2. /\ DOMAIN pw' = PwFields /\ pw'.phase = pw.phase /\ pw'.exit = pw.exit /\ pw'.rc = pw.rc
          /\ pw'.timedOut = pw.timedOut /\ pw'.stop = pw.stop /\ pw'.step \in {"ended", "wait"}
      BY <2>2, <3>1 DEF PowerTyped, PwFields
    <3>3. pw.phase = "load" => Power!Poll \in {"timeout", "none"} \/ child.state = "ended"
      BY DEF Power!Poll
    <3>4. pw'.step = "ended" => pw'.result = Power!Poll /\ (Power!Poll # "none" \/ pw.stop # "none")
      BY <2>2, <3>1 DEF PowerTyped, PwFields
    <3> QED BY <2>2, <3>1, <3>2, <3>3, <3>4, PowerKept
  <2>6. CASE Power!Spawn
    <3>1. pw.phase \in Before /\ child.state = "none"
      BY <2>2, <2>6 DEF Power!Spawn, PowerTyped, NotSpawned, Before
    <3>2. CASE \E e : e # 124 /\ pw' = [pw EXCEPT !.step = "final", !.exit = e] /\ child' = child
      <4>1. /\ DOMAIN pw' = PwFields /\ pw'.phase = pw.phase /\ pw'.step = "final" /\ pw'.exit # 124
        BY <2>2, <3>2 DEF PowerTyped, PwFields
      <4> QED BY <2>2, <3>1, <3>2, <4>1 DEF PowerTyped, NotSpawned, Loaded, Told, Before
    <3>3. CASE /\ child' = [child EXCEPT !.state = "running"]
               /\ pw' = [Power!Enter(pw, "load") EXCEPT !.until = pw.now + opts.timeout]
      <4>1. DOMAIN pw' = PwFields /\ pw'.phase = "load" /\ pw'.step = "sample"
        BY <2>2, <3>3 DEF PowerTyped, PwFields, Power!Enter
      <4>2. DOMAIN child' = {"state", "rc", "counter"} /\ child'.state = "running"
        BY <2>2, <3>3 DEF PowerTyped
      <4> QED BY <4>1, <4>2 DEF PowerTyped, NotSpawned, Loaded, Told, Before
    <3>4. 128 + Power!SigNo(pw.stop) # 124 /\ 2 # 124
      BY DEF Power!SigNo
    <3>5. \/ \E e : e # 124 /\ pw' = [pw EXCEPT !.step = "final", !.exit = e] /\ child' = child
          \/ /\ child' = [child EXCEPT !.state = "running"]
             /\ pw' = [Power!Enter(pw, "load") EXCEPT !.until = pw.now + opts.timeout]
      BY <2>6, <3>4 DEF Power!Spawn
    <3> QED BY <3>2, <3>3, <3>5
  <2>7. CASE Power!LoadEnded
    <3>1. PICK c \in IF pw.result = "timeout" \/ pw.stop # "none" THEN Power!Terminated(child) ELSE {child} :
            LET timeout == pw.result = "timeout"
                code == IF timeout THEN 124 ELSE IF pw.stop # "none" THEN 128 + Power!SigNo(pw.stop)
                        ELSE IF c.rc >= 0 THEN c.rc ELSE 128 - c.rc
                p == [pw EXCEPT !.rc = c.rc, !.timedOut = timeout, !.exit = code, !.until = pw.now + opts.idle]
            IN /\ pw.step = "ended" /\ pw.phase = "load" /\ child' = c
               /\ pw' = IF opts.idle > 0 /\ pw.stop = "none" THEN Power!Enter(p, "idle_after")
                        ELSE [p EXCEPT !.step = "final"]
      BY <2>7 DEF Power!LoadEnded
    <3> DEFINE timeout == pw.result = "timeout"
               code == IF timeout THEN 124 ELSE IF pw.stop # "none" THEN 128 + Power!SigNo(pw.stop)
                       ELSE IF c.rc >= 0 THEN c.rc ELSE 128 - c.rc
               p == [pw EXCEPT !.rc = c.rc, !.timedOut = timeout, !.exit = code, !.until = pw.now + opts.idle]
    <3>2. /\ pw.step = "ended" /\ pw.phase = "load" /\ child' = c
          /\ pw' = Power!Enter(p, "idle_after") \/ pw' = [p EXCEPT !.step = "final"]
      BY <3>1
    <3>3. c.state = "ended" /\ c.rc \in {0, 1, -15, -9} /\ DOMAIN c = {"state", "rc", "counter"}
      <4>1. CASE child.state = "ended"
        BY <2>2, <4>1 DEF Power!Terminated, PowerTyped
      <4>2. CASE child.state = "running"
        <5>1. c \in {[child EXCEPT !.state = "ended", !.rc = rc] : rc \in {-15, -9}}
          BY <2>2, <3>2, <4>2 DEF Power!Terminated, Loaded
        <5> QED BY <2>2, <5>1 DEF PowerTyped
      <4> QED BY <2>2, <3>2, <4>1, <4>2 DEF Loaded, PowerTyped
    <3>4. /\ code = 124 => timeout
          /\ pw.stop = "none" /\ ~timeout => code = IF c.rc >= 0 THEN c.rc ELSE 128 - c.rc
      BY <3>3 DEF Power!SigNo
    <3>5. DOMAIN p = PwFields /\ p.rc = c.rc /\ p.timedOut = timeout /\ p.exit = code /\ p.stop = pw.stop
          /\ p.phase = pw.phase
      BY <2>2 DEF PowerTyped, PwFields
    <3> HIDE DEF p, code
    <3>6. /\ DOMAIN pw' = PwFields /\ pw'.rc = c.rc /\ pw'.timedOut = timeout /\ pw'.exit = code
          /\ pw'.stop = pw.stop
          /\ \/ pw'.phase = "idle_after" /\ pw'.step = "sample"
             \/ pw'.phase = "load" /\ pw'.step = "final"
      BY <3>2, <3>5 DEF Power!Enter, PwFields
    <3>7. pw.stop = "none" /\ ~timeout => code = c.rc
      <4>1. pw.stop = "none" /\ ~timeout => c \in {child} /\ child.state = "ended" /\ child.rc \in {0, 1}
        BY <2>2, <3>1, <3>2 DEF Loaded
      <4> QED BY <3>4, <4>1
    <3> QED BY <3>2, <3>3, <3>4, <3>6, <3>7 DEF PowerTyped, NotSpawned, Loaded, Told, Before
  <2>8. CASE Power!Finalize
    <3>1. /\ DOMAIN pw' = PwFields /\ pw'.step = "done" /\ pw'.phase = pw.phase /\ pw'.exit = pw.exit
          /\ pw'.rc = pw.rc /\ pw'.timedOut = pw.timedOut /\ pw'.stop = pw.stop
      BY <2>2, <2>8 DEF Power!Finalize, PowerTyped, PwFields
    <3>2. child.state # "running"
      BY <2>2, <2>8 DEF Power!Finalize, PowerTyped, NotSpawned, Told, Before
    <3>3. child' = child
      BY <2>8, <3>2 DEF Power!Finalize, Power!Terminated
    <3>4. pw.phase = "load" => pw.step = "final"
      BY <2>8 DEF Power!Finalize
    <3> QED BY <2>2, <3>1, <3>2, <3>3, <3>4 DEF PowerTyped, NotSpawned, Loaded, Told, Before
  <2>9. CASE Power!Signal
    <3>1. /\ DOMAIN pw' = PwFields /\ pw'.step = pw.step /\ pw'.phase = pw.phase /\ pw'.exit = pw.exit
          /\ pw'.rc = pw.rc /\ pw'.timedOut = pw.timedOut /\ pw'.result = pw.result
          /\ pw.stop = "none" /\ child' = child
      BY <2>2, <2>9 DEF Power!Signal, PowerTyped, PwFields
    <3> QED BY <2>2, <3>1 DEF PowerTyped, NotSpawned, Loaded, Told
  <2>10. CASE Power!Ends
    <3>1. PICK rc \in {0, 1} : child' = [child EXCEPT !.state = "ended", !.rc = rc]
      BY <2>10 DEF Power!Ends
    <3>2. child.state = "running" /\ pw' = pw
      BY <2>10 DEF Power!Ends
    <3>3. DOMAIN child' = {"state", "rc", "counter"} /\ child'.state = "ended" /\ child'.rc \in {0, 1}
      BY <2>2, <3>1 DEF PowerTyped
    <3> QED BY <2>2, <3>2, <3>3 DEF PowerTyped, NotSpawned, Loaded, Told
  <2>11. CASE Power!CounterReset
    <3>1. /\ DOMAIN child' = {"state", "rc", "counter"} /\ child'.state = child.state
          /\ child'.rc = child.rc /\ pw' = pw
      BY <2>2, <2>11 DEF Power!CounterReset, PowerTyped
    <3> QED BY <2>2, <3>1 DEF PowerTyped, NotSpawned, Loaded, Told
  <2>12. CASE Power!Write
    BY <2>2, <2>12 DEF Power!Write, PowerTyped, NotSpawned, Loaded, Told
  <2> QED BY <2>1, <2>3, <2>4, <2>5, <2>6, <2>7, <2>8, <2>9, <2>10, <2>11, <2>12 DEF Power!Next
<1> QED BY <1>1, <1>2

\* docs/POWER.md:103-106: the summary and the exit code of the sampler tell how
\* the command ended, for every timing of its samples, its timeout, the signals
\* and the end of the command.
THEOREM TheSummaryIsTrue == Spec => []SummaryTellsHowItEnded
<1>1. PowerInv => SummaryTellsHowItEnded
  <2> SUFFICES ASSUME PowerTyped, NotSpawned, Loaded, Told, pw.step = "done"
               PROVE  /\ child.state # "running"
                      /\ child.state = "ended" => pw.rc = child.rc
                      /\ child.state = "ended" /\ pw.stop = "none" /\ ~pw.timedOut => pw.exit = child.rc
                      /\ pw.exit = 124 => pw.timedOut
    BY DEF PowerInv, SummaryTellsHowItEnded, Power!SummaryTellsHowItEnded
  <2> QED BY DEF PowerTyped, NotSpawned, Loaded, Told, Before
<1> QED BY PowerInit, PowerStep, <1>1, PTL DEF Spec

----------------------------------------------------------------------------
(* The energy                                                              *)
(*                                                                         *)
(* Samples follow each other in time, no power is above what the device    *)
(* draws, and between two readings a counter never rises by more than the  *)
(* time between them, although it may wrap or be reset: then the sum of    *)
(* the trapezoids and the rise of the counter are both within reality.     *)

Points == [t : Nat, w : {-1, 0, 1}, mj : Int]

InTime(pts) == \A i, j \in DOMAIN pts : i <= j => pts[i].t <= pts[j].t

RisesNoFaster(pts) ==
  \A i, j \in DOMAIN pts :
    i <= j /\ pts[i].mj # -1 /\ pts[j].mj # -1 => pts[j].mj - pts[i].mj <= pts[j].t - pts[i].t

LEMMA PowerSets == /\ \A S : Power!Max(S) = Max(S) /\ Power!Min(S) = Min(S)
                   /\ \A S : Power!Cardinality(S) = Cardinality(S)
<1>1. \A S : Power!Max(S) = Max(S) /\ Power!Min(S) = Min(S)
  BY DEF Power!Max, Power!Min, Max, Min
<1>2. \A S : Power!Cardinality(S) = Cardinality(S)
  BY DEF Power!Cardinality, Cardinality
<1> QED BY <1>1, <1>2

LEMMA TotalIs ==
  ASSUME NEW f \in Seq(Nat)
  PROVE  \E u : Sums(u, Len(f), f) /\ Power!Total(f) = u[Len(f)]
<1> DEFINE n == Len(f)
<1>1. n \in Nat /\ f \in [1..n -> Nat]
  OBVIOUS
<1>2. PICK v : Sums(v, n, f)
  <2> HIDE DEF n
  <2> QED BY <1>1, Summed
<1> DEFINE u[k \in 0..Len(f)] == IF k = 0 THEN 0 ELSE u[k - 1] + f[k]
<1>3. u = [k \in 0..n |-> IF k = 0 THEN 0 ELSE u[k - 1] + f[k]]
  BY <1>2 DEF Sums
<1>4. Power!Total(f) = u[n]
  BY DEF Power!Total
<1> HIDE DEF u
<1>5. u[0] = 0 /\ \A k \in 1..n : u[k] = u[k - 1] + f[k]
  BY SMTT(30), <1>1, <1>3
<1>6. \A k \in 0..n : u[k] \in Nat
  <2> DEFINE B == {k \in 0..n : u[k] \in Nat}
  <2>1. 0 \in B /\ \A k \in 1..n : k - 1 \in B => k \in B
    BY <1>1, <1>5
  <2> HIDE DEF B
  <2>2. \A k \in 0..n : k \in B
    BY <1>1, <2>1, UpTo
  <2> QED BY <2>2 DEF B
<1>7. u \in [0..n -> Nat]
  BY <1>3, <1>6
<1> QED BY <1>3, <1>4, <1>7 DEF Sums

\* A segment adds at most its own width.
LEMMA SegmentBound ==
  ASSUME NEW p \in Points, NEW q \in Points, p.w # -1, q.w # -1, p.t <= q.t
  PROVE  Power!Segment(p, q) \in 0..(q.t - p.t)
<1> DEFINE d == q.t - p.t
<1>1. d \in Nat
  BY DEF Points
<1>2. p.w + q.w \in {0, 1, 2}
  BY DEF Points
<1>3. Power!Segment(p, q) \in {0, ((p.w + q.w) * d) \div 2}
  BY DEF Power!Segment
<1> HIDE DEF d
<1>4. \A s \in {0, 1, 2} : (s * d) \div 2 \in 0..d
  BY <1>1
<1>5. Power!Segment(p, q) \in 0..d
  BY <1>1, <1>2, <1>3, <1>4
<1> QED BY <1>5 DEF d

LEMMA TrapezoidBound ==
  ASSUME NEW pts \in Seq(Points), pts # << >>, InTime(pts)
  PROVE  Power!Trapezoid(pts) \in 0..(pts[Len(pts)].t - pts[1].t)
<1> DEFINE n == Len(pts)
           known(k) == {j \in 1..(k - 1) : pts[j].w # -1}
           last(k) == Max(known(k))
           f == [k \in DOMAIN pts |-> IF pts[k].w = -1 \/ known(k) = {} THEN 0
                                      ELSE Power!Segment(pts[last(k)], pts[k])]
           far(k) == IF known(k) = {} THEN 0 ELSE pts[last(k)].t - pts[1].t
<1>1. /\ n \in Nat \ {0} /\ DOMAIN pts = 1..n
      /\ \A k \in 1..n : pts[k] \in Points /\ pts[k].t \in Nat
      /\ \A i, j \in 1..n : i <= j => pts[i].t <= pts[j].t
  <2>1. n \in Nat \ {0} /\ DOMAIN pts = 1..n /\ \A k \in 1..n : pts[k] \in Points
    OBVIOUS
  <2> HIDE DEF n
  <2> QED BY <2>1 DEF InTime, Points
<1>2. Power!Trapezoid(pts) = Power!Total(f)
  BY PowerSets DEF Power!Trapezoid, Power!None
<1> HIDE DEF n
<1>3. ASSUME NEW k \in 1..(n + 1), known(k) # {}
      PROVE  last(k) \in known(k) /\ \A j \in known(k) : j <= last(k)
  <2>1. known(k) \in SUBSET (0..n) /\ n \in Nat
    BY <1>1
  <2> HIDE DEF known
  <2>2. Max(known(k)) \in known(k) /\ \A j \in known(k) : Max(known(k)) >= j
    BY <1>3, <2>1, MaxOfBounded
  <2>3. \A j \in known(k) : j \in Nat /\ last(k) \in Nat
    BY <2>1, <2>2
  <2> QED BY <2>2, <2>3
<1> HIDE DEF last
<1>4. ASSUME NEW k \in 1..n
      PROVE  /\ f[k] \in Nat
             /\ pts[k].w = -1 => known(k + 1) = known(k) /\ f[k] = 0
             /\ pts[k].w # -1 => known(k + 1) # {} /\ last(k + 1) = k
             /\ pts[k].w # -1 /\ known(k) = {} => f[k] = 0
             /\ pts[k].w # -1 /\ known(k) # {} => f[k] <= pts[k].t - pts[last(k)].t
  <2>1. k + 1 \in 1..(n + 1) /\ k \in 1..(n + 1) /\ 1..((k + 1) - 1) = 1..(k - 1) \cup {k}
    BY <1>1
  <2>2. pts[k].w = -1 => known(k + 1) = known(k) /\ f[k] = 0
    BY <1>1, <2>1
  <2>3. ASSUME pts[k].w # -1 PROVE known(k + 1) # {} /\ last(k + 1) = k
    <3>1. k \in known(k + 1) /\ \A j \in known(k + 1) : j <= k
      BY <2>1, <2>3
    <3>2. last(k + 1) \in known(k + 1) /\ k <= last(k + 1)
      BY <1>3, <2>1, <3>1
    <3>3. last(k + 1) \in Nat /\ last(k + 1) <= k
      BY <2>1, <3>1, <3>2
    <3> QED BY <3>1, <3>2, <3>3
  <2>4. ASSUME pts[k].w # -1, known(k) # {}
        PROVE  f[k] \in Nat /\ f[k] <= pts[k].t - pts[last(k)].t
    <3>1. last(k) \in known(k)
      BY <1>3, <2>1, <2>4
    <3>2. last(k) \in 1..n /\ last(k) <= k /\ pts[last(k)].w # -1
      BY <1>1, <3>1
    <3>3. /\ pts[last(k)] \in Points /\ pts[k] \in Points /\ pts[last(k)].t <= pts[k].t
          /\ pts[last(k)].t \in Nat /\ pts[k].t \in Nat
      BY <1>1, <3>2
    <3>4. Power!Segment(pts[last(k)], pts[k]) \in 0..(pts[k].t - pts[last(k)].t)
      BY <2>4, <3>2, <3>3, SegmentBound
    <3>5. f[k] = Power!Segment(pts[last(k)], pts[k])
      BY <1>1, <2>4
    <3> QED BY <3>3, <3>4, <3>5
  <2>5. ASSUME pts[k].w # -1, known(k) = {} PROVE f[k] = 0
    BY <1>1, <2>5
  <2> QED BY <2>2, <2>3, <2>4, <2>5
<1>5. f \in Seq(Nat) /\ Len(f) = n
  <2>1. DOMAIN f = 1..n
    BY <1>1
  <2>2. \A k \in 1..n : f[k] \in Nat
    BY <1>4
  <2>3. f = [k \in 1..n |-> f[k]]
    BY <2>1
  <2> HIDE DEF f
  <2> QED BY <1>1, <2>2, <2>3
<1> HIDE DEF f
<1>6. PICK u : Sums(u, n, f) /\ Power!Total(f) = u[n]
  BY <1>5, TotalIs
<1>7. u[0] = 0 /\ \A k \in 1..n : u[k - 1] \in Nat /\ u[k] \in Nat /\ u[k] = u[k - 1] + f[k]
  BY <1>1, <1>6 DEF Sums
<1>8. \A k \in 0..n : u[k] <= far(k + 1)
  <2> DEFINE B == {k \in 0..n : u[k] <= far(k + 1)}
  <2>1. 0 \in B
    <3>1. known(0 + 1) = {}
      OBVIOUS
    <3> QED BY <1>1, <1>7, <3>1
  <2>2. ASSUME NEW k \in 1..n, k - 1 \in B PROVE k \in B
    <3>1. u[k - 1] <= far(k) /\ (k - 1) + 1 = k
      <4>1. (k - 1) + 1 = k
        OBVIOUS
      <4> QED BY <2>2, <4>1
    <3>2. CASE pts[k].w = -1
      <4>1. known(k + 1) = known(k) /\ f[k] = 0
        BY <1>4, <3>2
      <4>2. far(k + 1) = far(k)
        BY <4>1 DEF last
      <4>3. u[k] = u[k - 1]
        BY <1>7, <4>1
      <4> QED BY <3>1, <4>2, <4>3
    <3>3. CASE pts[k].w # -1 /\ known(k) = {}
      <4>1. far(k + 1) = pts[k].t - pts[1].t /\ u[k] = u[k - 1] /\ far(k) = 0
        BY <1>4, <1>7, <3>3
      <4>2. pts[1].t <= pts[k].t /\ pts[1].t \in Nat /\ pts[k].t \in Nat
        BY <1>1
      <4>3. u[k] <= far(k + 1)
        <5> HIDE DEF far
        <5> QED BY <1>7, <3>1, <4>1, <4>2
      <4> QED BY <4>3
    <3>4. CASE pts[k].w # -1 /\ known(k) # {}
      <4>1. /\ far(k + 1) = pts[k].t - pts[1].t /\ far(k) = pts[last(k)].t - pts[1].t
            /\ f[k] \in Nat /\ f[k] <= pts[k].t - pts[last(k)].t
        BY <1>4, <3>4
      <4>2. last(k) \in 1..n
        <5>1. last(k) \in known(k)
          BY <1>1, <1>3, <3>4
        <5> QED BY <1>1, <5>1
      <4>3. pts[1].t \in Nat /\ pts[k].t \in Nat /\ pts[last(k)].t \in Nat
        BY <1>1, <4>2
      <4>4. u[k - 1] \in Nat /\ u[k] = u[k - 1] + f[k]
        BY <1>7
      <4>5. u[k] <= far(k + 1)
        <5> HIDE DEF far
        <5> QED BY SMTT(30), <3>1, <4>1, <4>3, <4>4
      <4> QED BY <4>5
    <3> QED BY <3>2, <3>3, <3>4
  <2> HIDE DEF B
  <2>3. \A k \in 0..n : k \in B
    BY <1>1, <2>1, <2>2, UpTo
  <2> QED BY <2>3 DEF B
<1>9. u[n] \in Nat /\ u[n] <= pts[n].t - pts[1].t
  <2>1. u[n] \in Nat /\ u[n] <= far(n + 1)
    BY <1>1, <1>7, <1>8
  <2>2. pts[1].t \in Nat /\ pts[n].t \in Nat /\ pts[1].t <= pts[n].t
    BY <1>1
  <2>3. far(n + 1) <= pts[n].t - pts[1].t
    <3>1. CASE known(n + 1) = {}
      BY <2>2, <3>1
    <3>2. CASE known(n + 1) # {}
      <4>1. last(n + 1) \in known(n + 1)
        BY <1>1, <1>3, <3>2
      <4>2. last(n + 1) \in 1..n
        BY <1>1, <4>1
      <4>3. pts[last(n + 1)].t <= pts[n].t /\ pts[last(n + 1)].t \in Nat
        BY <1>1, <4>2
      <4> QED BY <2>2, <3>2, <4>3
    <3> QED BY <3>1, <3>2
  <2>4. far(n + 1) \in Int
    <3>1. known(n + 1) # {} => last(n + 1) \in 1..n
      BY <1>1, <1>3
    <3> QED BY <1>1, <2>2, <3>1
  <2> HIDE DEF far
  <2> QED BY <2>1, <2>2, <2>3, <2>4
<1>10. pts[n].t - pts[1].t \in Int
  BY <1>1
<1> QED BY <1>2, <1>6, <1>9, <1>10 DEF n

LEMMA CounterBound ==
  ASSUME NEW pts \in Seq(Points), pts # << >>, InTime(pts), RisesNoFaster(pts),
         Power!CounterEnergy(pts) # -1
  PROVE  Power!CounterEnergy(pts) \in 0..(pts[Len(pts)].t - pts[1].t)
<1> DEFINE n == Len(pts)
           C == {k \in DOMAIN pts : pts[k].mj # -1}
<1>1. /\ n \in Nat \ {0} /\ DOMAIN pts = 1..n
      /\ \A k \in 1..n : pts[k].t \in Nat /\ pts[k].mj \in Int
      /\ \A i, j \in 1..n : i <= j => pts[i].t <= pts[j].t
  <2>1. n \in Nat \ {0} /\ DOMAIN pts = 1..n /\ \A k \in 1..n : pts[k] \in Points
    OBVIOUS
  <2> HIDE DEF n
  <2> QED BY <2>1 DEF InTime, Points
<1>2. Power!Counted(pts) = C
  BY DEF Power!Counted, Power!None
<1>3. Power!CounterEnergy(pts) = Power!Delta(pts) /\ ~(Power!Delta(pts) < 0) /\ ~(Cardinality(C) < 2)
  BY <1>2, PowerSets DEF Power!CounterEnergy, Power!None
<1>4. C # {}
  <2>1. Cardinality({}) = 0
    BY FS_EmptySet
  <2> HIDE DEF C
  <2>2. C = {} => Cardinality(C) < 2
    BY <2>1
  <2> QED BY <1>3, <2>2
<1>5. Power!Delta(pts) = pts[Max(C)].mj - pts[Min(C)].mj
  BY <1>2, PowerSets DEF Power!Delta
<1>6. Max(C) \in C /\ Min(C) \in C /\ \A k \in C : Min(C) <= k
  <2>1. C \in SUBSET (0..n) /\ C \in SUBSET Nat /\ n \in Nat
    BY <1>1
  <2> HIDE DEF C
  <2> QED BY <1>4, <2>1, MaxOfBounded, MinOfNaturals
<1> DEFINE a == Min(C)
           b == Max(C)
<1>7. a \in 1..n /\ b \in 1..n /\ a <= b /\ pts[a].mj # -1 /\ pts[b].mj # -1
  <2>1. a \in C /\ b \in C /\ a <= b
    BY <1>6
  <2> HIDE DEF a, b
  <2> QED BY <1>1, <2>1
<1> HIDE DEF a, b, C, n
<1>8. pts[b].mj - pts[a].mj <= pts[b].t - pts[a].t
  BY <1>1, <1>7 DEF RisesNoFaster
<1>9. /\ pts[a].t \in Nat /\ pts[b].t \in Nat /\ pts[1].t \in Nat /\ pts[n].t \in Nat
      /\ pts[a].mj \in Int /\ pts[b].mj \in Int
      /\ pts[1].t <= pts[a].t /\ pts[b].t <= pts[n].t
  BY <1>1, <1>7
<1>10. Power!Delta(pts) \in 0..(pts[n].t - pts[1].t)
  <2>1. Power!Delta(pts) = pts[b].mj - pts[a].mj
    BY <1>5 DEF a, b
  <2>2. ~(pts[b].mj - pts[a].mj < 0)
    BY <1>3, <2>1
  <2>3. \A u, v \in Int, w, x, y, z \in Nat :
          v - u <= y - x /\ ~(v - u < 0) /\ w <= x /\ y <= z => v - u \in 0..(z - w)
    OBVIOUS
  <2>4. pts[b].mj - pts[a].mj \in 0..(pts[n].t - pts[1].t)
    BY <1>8, <1>9, <2>2, <2>3
  <2> QED BY <2>1, <2>4
<1> QED BY <1>3, <1>10 DEF n

\* What the sampler has at a time `now`, of a RAPL domain (rapl) or of a counter
\* that was last reset at `counter`.
Drawn(pts, rapl, now, counter) ==
  /\ pts \in Seq(Points) /\ InTime(pts) /\ \A k \in DOMAIN pts : pts[k].t <= now
  /\ \A k \in DOMAIN pts : pts[k].mj # -1 =>
       IF rapl THEN pts[k].mj = pts[k].t % Wrap ELSE pts[k].t - pts[k].mj \in 0..counter
  /\ ~rapl => \A i, j \in DOMAIN pts : i <= j /\ pts[i].mj # -1 /\ pts[j].mj # -1
                => pts[i].t - pts[i].mj <= pts[j].t - pts[j].mj

LEMMA DrawnKept ==
  ASSUME NEW pts, NEW rapl \in BOOLEAN, NEW now \in Nat, NEW counter \in Nat,
         Drawn(pts, rapl, now, counter),
         NEW later \in Nat, now <= later, NEW reset \in Nat, counter <= reset
  PROVE  Drawn(pts, rapl, later, reset)
<1>1. \A k \in DOMAIN pts : pts[k].t \in Nat /\ pts[k].mj \in Int
  <2>1. \A k \in DOMAIN pts : pts[k] \in Points
    BY DEF Drawn
  <2> QED BY <2>1 DEF Points
<1>2. \A k \in DOMAIN pts : pts[k].t <= later
  BY <1>1 DEF Drawn
<1>3. \A x \in Int : x \in 0..counter => x \in 0..reset
  OBVIOUS
<1>4. \A k \in DOMAIN pts : pts[k].mj # -1 =>
        IF rapl THEN pts[k].mj = pts[k].t % Wrap ELSE pts[k].t - pts[k].mj \in 0..reset
  BY <1>1, <1>3 DEF Drawn
<1> QED BY <1>2, <1>4 DEF Drawn

LEMMA DrawnGrows ==
  ASSUME NEW pts, NEW rapl \in BOOLEAN, NEW now \in Nat, NEW counter \in 0..now,
         Drawn(pts, rapl, now, counter), NEW p \in Points, now <= p.t,
         p.mj # -1 => p.mj = IF rapl THEN p.t % Wrap ELSE p.t - counter
  PROVE  Drawn(Append(pts, p), rapl, p.t, counter)
<1> DEFINE n == Len(pts)
           x == Append(pts, p)
<1>1. /\ x \in Seq(Points) /\ DOMAIN x = 1..(n + 1) /\ x[n + 1] = p /\ n \in Nat /\ DOMAIN pts = 1..n
      /\ \A k \in 1..n : x[k] = pts[k] /\ pts[k] \in Points
  BY DEF Drawn
<1> HIDE DEF n, x
<1>2. \A k \in 1..(n + 1) : k \in 1..n \/ k = n + 1
  BY <1>1
<1>3. p.t \in Nat /\ p.mj \in Int /\ \A k \in 1..n : pts[k].t \in Nat /\ pts[k].mj \in Int
  BY <1>1 DEF Points
<1>4. \A k \in 1..n : x[k].t <= p.t
  BY SMTT(30), <1>1, <1>3 DEF Drawn
<1>5. \A k \in DOMAIN x : x[k].t <= p.t
  BY <1>1, <1>2, <1>3, <1>4
<1>6. InTime(x)
  <2> SUFFICES ASSUME NEW i \in 1..(n + 1), NEW j \in 1..(n + 1), i <= j PROVE x[i].t <= x[j].t
    BY <1>1 DEF InTime
  <2>1. CASE j = n + 1
    BY <1>1, <1>5, <2>1
  <2>2. CASE j \in 1..n
    <3>1. i \in 1..n
      BY <1>1, <2>2
    <3> QED BY <1>1, <2>2, <3>1 DEF Drawn, InTime
  <2> QED BY <1>2, <2>1, <2>2
<1>7. p.mj # -1 => IF rapl THEN p.mj = p.t % Wrap ELSE p.t - p.mj \in 0..counter /\ p.t - p.mj = counter
  BY <1>3
<1>8. \A k \in DOMAIN x : x[k].mj # -1 =>
        IF rapl THEN x[k].mj = x[k].t % Wrap ELSE x[k].t - x[k].mj \in 0..counter
  BY <1>1, <1>2, <1>7 DEF Drawn
<1>9. ASSUME ~rapl, NEW i \in 1..(n + 1), NEW j \in 1..(n + 1), i <= j, x[i].mj # -1, x[j].mj # -1
      PROVE  x[i].t - x[i].mj <= x[j].t - x[j].mj
  <2>1. CASE j = n + 1
    <3>1. x[j].t - x[j].mj = counter
      BY <1>1, <1>7, <1>9, <2>1
    <3>2. x[i].t - x[i].mj \in 0..counter
      BY <1>1, <1>8, <1>9
    <3> QED BY <3>1, <3>2
  <2>2. CASE j \in 1..n
    <3>1. i \in 1..n
      BY <1>1, <1>9, <2>2
    <3> QED BY <1>1, <1>9, <2>2, <3>1 DEF Drawn
  <2> QED BY <1>2, <2>1, <2>2
<1> QED BY <1>1, <1>5, <1>6, <1>8, <1>9 DEF Drawn, x

\* A counter that wraps rises by no more than the time, and what it seems to
\* have risen by, when a wrap is made good, neither.
LEMMA WrapRise ==
  ASSUME NEW a \in Nat, NEW b \in Nat, a <= b
  PROVE  LET d == (b % Wrap) - (a % Wrap)
         IN  d \in Int /\ d <= b - a /\ (IF d < 0 THEN d + Wrap ELSE d) \in 0..(b - a)
<1> DEFINE qa == a \div Wrap
           qb == b \div Wrap
           ra == a % Wrap
           rb == b % Wrap
<1>1. Wrap \in Nat \ {0}
  BY MeasurementAssumption DEF MeasurementAssumption
<1>2. /\ qa \in Nat /\ qb \in Nat /\ ra \in 0..(Wrap - 1) /\ rb \in 0..(Wrap - 1)
      /\ a = Wrap * qa + ra /\ b = Wrap * qb + rb
  BY <1>1
<1> HIDE DEF qa, qb, ra, rb
<1>3. qa <= qb
  <2> SUFFICES ASSUME qb + 1 <= qa PROVE FALSE
    BY <1>2
  <2>1. Wrap * (qb + 1) <= Wrap * qa
    BY <1>1, <1>2
  <2> QED BY <1>1, <1>2, <2>1
<1>4. Wrap * qa <= Wrap * qb /\ Wrap * qa \in Nat /\ Wrap * qb \in Nat
  BY <1>1, <1>2, <1>3
<1>5. rb < ra => Wrap * qa + Wrap <= Wrap * qb
  <2> SUFFICES ASSUME rb < ra PROVE Wrap * qa + Wrap <= Wrap * qb
    OBVIOUS
  <2>1. ASSUME qa = qb PROVE FALSE
    <3>1. Wrap * qa = Wrap * qb
      BY <2>1
    <3> QED BY <1>2, <1>4, <3>1
  <2>2. qa + 1 <= qb
    BY <1>2, <1>3, <2>1
  <2>3. Wrap * (qa + 1) <= Wrap * qb
    BY <1>1, <1>2, <2>2
  <2> QED BY <1>1, <1>2, <2>3
<1>6. rb - ra \in Int /\ rb - ra <= b - a
  BY <1>1, <1>2, <1>4
<1>7. (IF rb - ra < 0 THEN (rb - ra) + Wrap ELSE rb - ra) \in 0..(b - a)
  BY <1>1, <1>2, <1>4, <1>5
<1> QED BY <1>6, <1>7 DEF ra, rb

LEMMA WattsBound ==
  ASSUME NEW now \in Nat, NEW t0 \in {-1} \cup 0..now, NEW t \in Nat, now <= t
  PROVE  Power!RaplWatts(t0, t) \in {-1, 0, 1}
<1>1. CASE t0 = -1 \/ t <= t0
  BY <1>1 DEF Power!RaplWatts, Power!None
<1>2. CASE t0 # -1 /\ ~(t <= t0)
  <2> DEFINE x == IF (t % Wrap) - (t0 % Wrap) < 0 THEN ((t % Wrap) - (t0 % Wrap)) + Wrap
                  ELSE (t % Wrap) - (t0 % Wrap)
             d == t - t0
  <2>1. t0 \in Nat /\ t0 <= t /\ d \in Nat \ {0}
    BY <1>2
  <2>2. x \in 0..d
    BY <2>1, WrapRise
  <2>3. Power!RaplWatts(t0, t) = x \div d
    BY <1>2 DEF Power!RaplWatts, Power!None
  <2> HIDE DEF x, d
  <2> DEFINE q == x \div d
             m == x % d
  <2>4. q \in Nat /\ m \in 0..(d - 1) /\ x = d * q + m
    BY <2>1, <2>2
  <2> HIDE DEF q, m
  <2>5. q <= 1
    <3> SUFFICES ASSUME 2 <= q PROVE FALSE
      BY <2>4
    <3>1. d * 2 <= d * q
      BY <2>1, <2>4
    <3> QED BY <2>1, <2>2, <2>4, <3>1
  <2> QED BY <2>3, <2>4, <2>5 DEF q
<1> QED BY <1>1, <1>2

\* The clock goes on, and the counter was reset at some time of it.
Clocked ==
  /\ pw.now \in Nat /\ pw.tick \in Nat /\ pw.previous \in {-1} \cup 0..pw.now
  /\ child.counter \in 0..pw.now

Rapl == opts.backend = "rapl"

SamplerInv == tool = "bench-power" => Clocked /\ Drawn(points, Rapl, pw.now, child.counter)

LEMMA SamplerInit == Init => SamplerInv
<1> SUFFICES ASSUME Power!Init PROVE Clocked /\ Drawn(points, Rapl, pw.now, child.counter)
  BY DEF Init, SamplerInv
<1> DEFINE p == [step |-> "spawn", phase |-> "none", now |-> 0, tick |-> 0,
                 until |-> IF opts.mode = "watch" THEN opts.timeout ELSE opts.idle, offset |-> 0,
                 previous |-> -1, stop |-> "none", result |-> "none",
                 rc |-> -1, timedOut |-> FALSE, exit |-> 0]
<1>1. /\ pw = IF Power!Phase0(opts) = "spawn" THEN p ELSE Power!Enter(p, Power!Phase0(opts))
      /\ child = [state |-> "none", rc |-> -1, counter |-> 0] /\ points = << >>
  BY DEF Power!Init, Power!None
<1>2. pw.now = 0 /\ pw.tick = 0 /\ pw.previous = -1
  BY <1>1 DEF Power!Enter
<1>3. points \in Seq(Points) /\ DOMAIN points = {}
  BY <1>1
<1>4. Drawn(points, Rapl, pw.now, child.counter)
  BY <1>3 DEF Drawn, InTime
<1> QED BY <1>1, <1>2, <1>4 DEF Clocked

\* Steps that take no sample.
LEMMA SamplerKept ==
  ASSUME Clocked, Drawn(points, Rapl, pw.now, child.counter), points' = points, opts' = opts,
         pw'.now \in Nat, pw.now <= pw'.now, pw'.tick \in Nat, pw'.previous = pw.previous,
         child'.counter \in {child.counter, pw.now}
  PROVE  (Clocked /\ Drawn(points, Rapl, pw.now, child.counter))'
<1>1. /\ child'.counter \in 0..pw'.now /\ child.counter <= child'.counter
      /\ child.counter \in Nat /\ child'.counter \in Nat /\ pw.now \in Nat
  BY DEF Clocked
<1>2. Clocked'
  BY <1>1 DEF Clocked
<1>3. Drawn(points, Rapl, pw'.now, child'.counter)
  BY <1>1, DrawnKept DEF Rapl
<1>4. Rapl' = Rapl
  BY DEF Rapl
<1>5. Drawn(points', Rapl', pw'.now, child'.counter)
  BY <1>3, <1>4
<1>6. Drawn(points, Rapl, pw.now, child.counter)'
  BY <1>5 DEF Drawn, InTime
<1> QED BY <1>2, <1>6

LEMMA SamplerStep == PowerInv /\ SamplerInv /\ [Next]_vars => SamplerInv'
<1> SUFFICES ASSUME PowerInv, SamplerInv, [Next]_vars, tool' = "bench-power"
             PROVE  (Clocked /\ Drawn(points, Rapl, pw.now, child.counter))'
  BY DEF SamplerInv
<1>1. tool = "bench-power"
  BY DEF Next, Benchmarking, Sampling, Watching, vars
<1>2. /\ Clocked /\ Drawn(points, Rapl, pw.now, child.counter)
      /\ DOMAIN pw = PwFields /\ DOMAIN child = {"state", "rc", "counter"}
  BY <1>1 DEF SamplerInv, PowerInv, PowerTyped
<1>3. /\ pw.now \in Nat /\ pw.tick \in Nat /\ pw.now <= pw.now
      /\ Interval \in Nat /\ Durations \subseteq Nat /\ Latency \in Nat
  BY <1>2, MeasurementAssumption DEF Clocked, MeasurementAssumption
<1>4. CASE UNCHANGED vars
  <2>1. pw' = pw /\ child' = child /\ points' = points /\ opts' = opts
    BY <1>4 DEF vars, pvars
  <2> QED BY <1>2, <1>3, <2>1, SamplerKept
<1>5. CASE Power!Next
  <2>1. ASSUME NEW d \in Durations, NEW reading, Power!Sample(d, reading)
        PROVE  (Clocked /\ Drawn(points, Rapl, pw.now, child.counter))'
    <3> DEFINE t == pw.now + d
               point == [t |-> t,
                         w |-> IF Rapl THEN Power!RaplWatts(pw.previous, t) ELSE IF "w" \in reading THEN 1 ELSE -1,
                         mj |-> IF "mj" \notin reading THEN -1
                                ELSE IF Rapl THEN t % Wrap ELSE t - child.counter]
    <3>1. /\ child' = child /\ opts' = opts
          /\ points' = points \/ points' = Append(points, point)
          /\ \E o : pw' = [pw EXCEPT !.step = "finished", !.now = t, !.tick = @ + Interval, !.offset = o,
                             !.previous = IF Rapl /\ reading # Power!Drop THEN t ELSE @]
      BY <2>1 DEF Power!Sample, Power!None, Rapl
    <3>2. t \in Nat /\ pw.now <= t /\ pw.tick + Interval \in Nat
      BY <1>3, <2>1
    <3>3. point \in Points
      <4>1. Power!RaplWatts(pw.previous, t) \in {-1, 0, 1}
        BY <1>2, <1>3, <3>2, WattsBound DEF Clocked
      <4>2. t % Wrap \in Int /\ t - child.counter \in Int
        BY <1>2, <3>2, MeasurementAssumption DEF Clocked, MeasurementAssumption
      <4> HIDE DEF t
      <4> QED BY <3>2, <4>1, <4>2 DEF Points
    <3>4. point.t = t /\ (point.mj # -1 => point.mj = IF Rapl THEN t % Wrap ELSE t - child.counter)
      OBVIOUS
    <3> HIDE DEF t, point
    <3>5. pw'.now = t /\ pw'.tick = pw.tick + Interval /\ pw'.previous \in {t, pw.previous}
      BY <1>2, <3>1 DEF PwFields
    <3>6. Clocked'
      <4>1. \A x \in {-1} \cup 0..pw.now : x \in {-1} \cup 0..t
        BY <1>3, <3>2
      <4>2. child.counter \in 0..t
        BY <1>2, <1>3, <3>2 DEF Clocked
      <4>3. pw'.previous \in {-1} \cup 0..t
        BY <1>2, <3>2, <3>5, <4>1 DEF Clocked
      <4> QED BY <3>1, <3>2, <3>5, <4>2, <4>3 DEF Clocked
    <3>7. child.counter \in Nat /\ child.counter \in 0..pw.now /\ Rapl \in BOOLEAN
      BY <1>2, <1>3 DEF Clocked, Rapl
    <3>8. Drawn(points', Rapl, t, child.counter)
      <4>1. CASE points' = points
        <5>1. Drawn(points, Rapl, t, child.counter)
          BY <1>2, <1>3, <3>2, <3>7, DrawnKept
        <5> QED BY <4>1, <5>1
      <4>2. CASE points' = Append(points, point)
        <5>1. Drawn(Append(points, point), Rapl, t, child.counter)
          BY <1>2, <1>3, <3>2, <3>3, <3>4, <3>7, DrawnGrows
        <5> QED BY <4>2, <5>1
      <4> QED BY <3>1, <4>1, <4>2
    <3>9. Rapl' = Rapl
      BY <3>1 DEF Rapl
    <3>10. Drawn(points, Rapl, pw.now, child.counter)'
      BY <3>1, <3>5, <3>8, <3>9 DEF Drawn, InTime
    <3> QED BY <3>6, <3>10
  <2>2. ASSUME NEW over \in 0..Latency, Power!Wait(over)
        PROVE  (Clocked /\ Drawn(points, Rapl, pw.now, child.counter))'
    <3> DEFINE t == Power!Later(pw.now, pw.tick + over)
    <3>1. t \in Nat /\ pw.now <= t
      BY <1>3, <2>2 DEF Power!Later
    <3>2. /\ child' = child /\ opts' = opts /\ points' = points
          /\ pw' = [pw EXCEPT !.step = "sample", !.now = t] \/ pw' = [pw EXCEPT !.step = "sample"]
      BY <2>2 DEF Power!Wait
    <3> HIDE DEF t
    <3>3. pw'.now \in {t, pw.now} /\ pw'.tick = pw.tick /\ pw'.previous = pw.previous
      BY <1>2, <3>2 DEF PwFields
    <3> QED BY <1>2, <1>3, <3>1, <3>2, <3>3, SamplerKept
  <2>3. CASE Power!Finished
    <3>1. /\ child' = child /\ opts' = opts /\ points' = points
          /\ \/ pw' = [pw EXCEPT !.step = "ended", !.result = Power!Poll]
             \/ pw' = [pw EXCEPT !.step = "wait", !.tick = Power!Later(@, pw.now)]
      BY <2>3 DEF Power!Finished
    <3>2. Power!Later(pw.tick, pw.now) \in Nat
      BY <1>3 DEF Power!Later
    <3>3. pw'.now = pw.now /\ pw'.tick \in Nat /\ pw'.previous = pw.previous
      BY <1>2, <1>3, <3>1, <3>2 DEF PwFields
    <3> QED BY <1>2, <1>3, <3>1, <3>3, SamplerKept
  <2>4. CASE Power!Signal
    <3>1. /\ child' = child /\ opts' = opts /\ points' = points /\ \E s : pw' = [pw EXCEPT !.stop = s]
      BY <2>4 DEF Power!Signal
    <3>2. pw'.now = pw.now /\ pw'.tick = pw.tick /\ pw'.previous = pw.previous
      BY <1>2, <3>1 DEF PwFields
    <3> QED BY <1>2, <1>3, <3>1, <3>2, SamplerKept
  <2>5. CASE Power!Spawn
    <3>1. /\ opts' = opts /\ points' = points
          /\ child' = child \/ child' = [child EXCEPT !.state = "running"]
          /\ \/ \E e : pw' = [pw EXCEPT !.step = "final", !.exit = e]
             \/ pw' = [Power!Enter(pw, "load") EXCEPT !.until = pw.now + opts.timeout]
      BY <2>5 DEF Power!Spawn
    <3>2. pw'.now = pw.now /\ pw'.tick \in {pw.tick, pw.now} /\ pw'.previous = pw.previous
      BY <1>2, <3>1 DEF PwFields, Power!Enter
    <3>3. child'.counter = child.counter
      BY <1>2, <3>1
    <3> QED BY <1>2, <1>3, <3>1, <3>2, <3>3, SamplerKept
  <2>6. ASSUME NEW c \in Power!Terminated(child) \cup {child}
        PROVE  c.counter = child.counter
    BY <1>2 DEF Power!Terminated
  <2>7. CASE Power!LoadEnded
    <3>1. PICK c \in IF pw.result = "timeout" \/ pw.stop # "none" THEN Power!Terminated(child) ELSE {child} :
            LET timeout == pw.result = "timeout"
                code == IF timeout THEN 124 ELSE IF pw.stop # "none" THEN 128 + Power!SigNo(pw.stop)
                        ELSE IF c.rc >= 0 THEN c.rc ELSE 128 - c.rc
                p == [pw EXCEPT !.rc = c.rc, !.timedOut = timeout, !.exit = code, !.until = pw.now + opts.idle]
            IN /\ child' = c
               /\ pw' = IF opts.idle > 0 /\ pw.stop = "none" THEN Power!Enter(p, "idle_after")
                        ELSE [p EXCEPT !.step = "final"]
               /\ UNCHANGED <<opts, points>>
      BY <2>7 DEF Power!LoadEnded
    <3> DEFINE timeout == pw.result = "timeout"
               code == IF timeout THEN 124 ELSE IF pw.stop # "none" THEN 128 + Power!SigNo(pw.stop)
                       ELSE IF c.rc >= 0 THEN c.rc ELSE 128 - c.rc
               p == [pw EXCEPT !.rc = c.rc, !.timedOut = timeout, !.exit = code, !.until = pw.now + opts.idle]
    <3>2. /\ child' = c /\ opts' = opts /\ points' = points
          /\ pw' = Power!Enter(p, "idle_after") \/ pw' = [p EXCEPT !.step = "final"]
      BY <3>1
    <3>3. DOMAIN p = PwFields /\ p.now = pw.now /\ p.tick = pw.tick /\ p.previous = pw.previous
      BY <1>2 DEF PwFields
    <3> HIDE DEF p
    <3>4. pw'.now = pw.now /\ pw'.tick \in {pw.tick, pw.now} /\ pw'.previous = pw.previous
      BY <3>2, <3>3 DEF PwFields, Power!Enter
    <3>5. c.counter = child.counter
      BY <2>6, <3>1
    <3> QED BY <1>2, <1>3, <3>2, <3>4, <3>5, SamplerKept
  <2>8. CASE Power!Finalize
    <3>1. /\ opts' = opts /\ points' = points /\ child' \in Power!Terminated(child)
          /\ pw' = [pw EXCEPT !.step = "done"]
      BY <2>8 DEF Power!Finalize
    <3>2. pw'.now = pw.now /\ pw'.tick = pw.tick /\ pw'.previous = pw.previous
      BY <1>2, <3>1 DEF PwFields
    <3> QED BY <1>2, <1>3, <2>6, <3>1, <3>2, SamplerKept
  <2>9. CASE Power!Ends \/ Power!CounterReset
    <3>1. /\ opts' = opts /\ points' = points /\ pw' = pw
          /\ \/ \E rc : child' = [child EXCEPT !.state = "ended", !.rc = rc]
             \/ child' = [child EXCEPT !.counter = pw.now]
      BY <2>9 DEF Power!Ends, Power!CounterReset
    <3>2. child'.counter \in {child.counter, pw.now}
      BY <1>2, <3>1
    <3> QED BY <1>2, <1>3, <3>1, <3>2, SamplerKept
  <2>10. CASE Power!Write
    <3>1. opts' = opts /\ points' = points /\ pw' = pw /\ child' = child
      BY <2>10 DEF Power!Write
    <3> QED BY <1>2, <1>3, <3>1, SamplerKept
  <2> QED BY <1>5, <2>1, <2>2, <2>3, <2>4, <2>5, <2>7, <2>8, <2>9, <2>10 DEF Power!Next
<1> QED BY <1>1, <1>4, <1>5 DEF Next, Benchmarking, Sampling, Watching

\* bench-power.py:107-140: of whatever samples a phase is left with, and
\* wherever the counter wrapped or was reset, the energy is neither negative
\* nor more than what the device drew.
THEOREM EnergyIsReal == Spec => []EnergyWithinReality
<1>1. SamplerInv => EnergyWithinReality
  <2> SUFFICES ASSUME Drawn(points, Rapl, pw.now, child.counter), Clocked, points # << >>
               PROVE  Power!Energy(points) \in 0..(points[Len(points)].t - points[1].t)
    BY DEF SamplerInv, EnergyWithinReality, Power!EnergyWithinReality
  <2>1. points \in Seq(Points) /\ InTime(points)
    BY DEF Drawn
  <2>2. RisesNoFaster(points)
    <3> SUFFICES ASSUME NEW i \in DOMAIN points, NEW j \in DOMAIN points, i <= j,
                        points[i].mj # -1, points[j].mj # -1
                 PROVE  points[j].mj - points[i].mj <= points[j].t - points[i].t
      BY DEF RisesNoFaster
    <3>1. points[i] \in Points /\ points[j] \in Points
      BY <2>1
    <3>2. /\ points[i].t \in Nat /\ points[j].t \in Nat /\ points[i].mj \in Int /\ points[j].mj \in Int
          /\ points[i].t <= points[j].t
      BY <2>1, <3>1 DEF Points, InTime
    <3>3. CASE Rapl
      <4>1. points[i].mj = points[i].t % Wrap /\ points[j].mj = points[j].t % Wrap
        BY <3>3 DEF Drawn
      <4> QED BY <3>2, <4>1, WrapRise
    <3>4. CASE ~Rapl
      <4>1. points[i].t - points[i].mj <= points[j].t - points[j].mj
        BY <3>4 DEF Drawn
      <4> QED BY <3>2, <4>1
    <3> QED BY <3>3, <3>4
  <2>3. CASE Power!CounterEnergy(points) # -1
    BY <2>1, <2>2, <2>3, CounterBound DEF Power!Energy, Power!None
  <2>4. CASE Power!CounterEnergy(points) = -1
    BY <2>1, <2>4, TrapezoidBound DEF Power!Energy, Power!None
  <2> QED BY <2>3, <2>4
<1> QED BY PowerInit, PowerStep, SamplerInit, SamplerStep, <1>1, PTL DEF Spec

----------------------------------------------------------------------------
(* The A/B harness                                                         *)
(*                                                                         *)
(* The boots of the engine only go up.  The reading before the warmup, the *)
(* boot of the warmup, those of the benchmarks and the reading after them  *)
(* are taken in this order, so when the two readings are equal, all are.   *)

Steps == {"restart", "health", "boot", "reset", "warmup", "bench"}
Readings == [source : {"none", "metrics", "host", "unavailable"}, id : Nat]
Warnings == {"boot", "reset", "changed"}
Names == {"decode_tok_s", "ttft_s", "cold_ttft_s", "warm_ttft_s", "prefix_hit_ratio", "cold_hit_fraction",
          "warm_hit_fraction", "warm_wall_s", "warm_decode_tok_s"}
BenchResults == [got : SUBSET Names, boot : Nat]
ArmResults ==
  [step : Steps \cup {"failed", "ok"}, error : BOOLEAN, warned : SUBSET Warnings, benches : Seq(BenchResults),
   boot : Readings, bootEnd : Readings, warmed : Nat, changed : BOOLEAN]

AbTyped ==
  /\ setup \in [restart : BOOLEAN, local : BOOLEAN, host : BOOLEAN, reset : BOOLEAN]
  /\ setup.restart => setup.host
  /\ eng \in [up : BOOLEAN, boot : Nat, arm : Nat, route : BOOLEAN]
  /\ ab \in ArmResults /\ arms \in Seq(ArmResults)

\* The arm under way, on an engine that has come to boot n.
UnderWay(a, n) ==
  /\ a.step \in Steps /\ ~a.error /\ ~a.changed
  /\ a.step # "bench" => a.benches = << >>
  /\ a.step \in {"reset", "warmup", "bench"} /\ a.boot.source = "metrics" => a.boot.id <= n
  /\ a.step = "bench" =>
       /\ a.boot.source = "metrics" => a.boot.id <= a.warmed
       /\ a.warmed <= n
       /\ \A k \in DOMAIN a.benches : a.warmed <= a.benches[k].boot /\ a.benches[k].boot <= n

\* An arm that may be compared.
Passed(a) ==
  a.step = "ok" /\ a.boot.source = "metrics" =>
    /\ a.bootEnd.source = "metrics" =>
         a.warmed = a.boot.id /\ \A k \in DOMAIN a.benches : a.benches[k].boot = a.boot.id
    /\ setup.host /\ "changed" \notin a.warned => a.bootEnd.source = "metrics"

\* The report is made once, of all the arms.
Reported ==
  IF report.code = -1 THEN report.deltas = {}
  ELSE /\ Len(arms) >= NumArms /\ report.deltas = Ab!Comparison
       /\ report.warnings = Ab!BootWarnings \cup Ab!ArmWarnings

AbSound ==
  /\ AbTyped /\ UnderWay(ab, eng.boot)
  /\ \A i \in DOMAIN arms : Passed(arms[i])
  /\ Reported

AbInv == tool = "bench-ab" => AbSound

LEMMA ProbeReads ==
  ASSUME AbTyped, NEW scraped
  PROVE  /\ Ab!Probe(scraped) \in Readings
         /\ Ab!Probe(scraped).source \in {"metrics", "host", "unavailable"}
         /\ Ab!Probe(scraped).source = "metrics" => Ab!Probe(scraped).id = eng.boot
         /\ setup.host => Ab!Probe(scraped).source # "unavailable"
BY DEF AbTyped, Ab!Probe, Readings

LEMMA AddWarning ==
  ASSUME NEW a \in ArmResults, NEW w \in Warnings
  PROVE  a.warned \in SUBSET Warnings /\ a.warned \cup {w} \in SUBSET Warnings
<1>1. a.warned \in SUBSET Warnings
  BY DEF ArmResults
<1> QED BY <1>1

LEMMA ExtractIsASet ==
  ASSUME NEW bench \in {"decode_prose", "prefix_cache", "cache_sessions", "short_chat"},
         NEW got \in SUBSET Names
  PROVE  Ab!Extract(bench, got) \in SUBSET Names
BY DEF Ab!Extract, Ab!ExtractDecode, Ab!ExtractPrefix, Ab!ExtractSessions, Ab!ExtractChat, Ab!Bad

\* A new arm may always begin.
LEMMA NewArmIsUnderWay ==
  ASSUME NEW n \in Nat
  PROVE  Ab!NewArm \in ArmResults /\ UnderWay(Ab!NewArm, n)
<1>1. << >> \in Seq(BenchResults) /\ {} \in SUBSET Warnings
  OBVIOUS
<1> QED BY <1>1 DEF Ab!NewArm, ArmResults, Readings, UnderWay, Steps

\* The end of an arm, when what it recorded is sound.
LEMMA FinishKeeps ==
  ASSUME AbSound, report.code = -1, report' = report, setup' = setup,
         eng' \in [up : BOOLEAN, boot : Nat, arm : Nat, route : BOOLEAN],
         NEW a \in ArmResults, Ab!Finish(a), Passed(Ab!Result(a))
  PROVE  AbSound'
<1>1. Ab!Result(a) \in ArmResults
  <2>1. Ab!Result(a) = [a EXCEPT !.step = "failed"] \/ Ab!Result(a) = [a EXCEPT !.step = "ok"]
    BY DEF Ab!Result
  <2> QED BY <2>1 DEF ArmResults
<1> DEFINE r == Ab!Result(a)
<1>2. arms' = Append(arms, r) /\ ab' = Ab!NewArm /\ arms \in Seq(ArmResults)
  BY DEF Ab!Finish, AbSound, AbTyped
<1> HIDE DEF r
<1>3. /\ arms' \in Seq(ArmResults) /\ DOMAIN arms = 1..Len(arms) /\ DOMAIN arms' = 1..(Len(arms) + 1)
      /\ (\A i \in 1..Len(arms) : arms'[i] = arms[i]) /\ arms'[Len(arms) + 1] = r
  BY <1>1, <1>2 DEF r
<1>4. AbTyped' /\ UnderWay(ab', eng'.boot)
  <2>1. eng'.boot \in Nat
    OBVIOUS
  <2> QED BY <1>2, <1>3, <2>1, NewArmIsUnderWay DEF AbSound, AbTyped
<1>5. \A i \in DOMAIN arms' : Passed(arms'[i])
  BY <1>2, <1>3 DEF AbSound, r
<1>6. (\A i \in DOMAIN arms : Passed(arms[i]))'
  BY <1>5 DEF Passed
<1>7. Reported'
  BY DEF AbSound, Reported
<1> QED BY <1>4, <1>6, <1>7 DEF AbSound, UnderWay

\* A step within an arm.
LEMMA GotoKeeps ==
  ASSUME AbSound, report.code = -1, report' = report, setup' = setup,
         eng' \in [up : BOOLEAN, boot : Nat, arm : Nat, route : BOOLEAN],
         arms' = arms, ab' \in ArmResults, UnderWay(ab', eng'.boot)
  PROVE  AbSound'
<1>1. AbTyped'
  BY DEF AbSound, AbTyped
<1>2. (\A i \in DOMAIN arms : Passed(arms[i]))' /\ Reported'
  BY DEF AbSound, Passed, Reported
<1> QED BY <1>1, <1>2 DEF AbSound, UnderWay

LEMMA ArmErrorKeeps ==
  ASSUME AbSound, report.code = -1, report' = report, setup' = setup,
         eng' \in [up : BOOLEAN, boot : Nat, arm : Nat, route : BOOLEAN], Ab!ArmError
  PROVE  AbSound'
<1> DEFINE a == [ab EXCEPT !.error = TRUE]
<1>1. a \in ArmResults /\ a.error
  BY DEF AbSound, AbTyped, ArmResults
<1>2. Ab!Finish(a)
  BY DEF Ab!ArmError
<1> HIDE DEF a
<1>3. Ab!Result(a).step = "failed"
  BY <1>1 DEF Ab!Result, ArmResults
<1>4. Passed(Ab!Result(a))
  BY <1>3 DEF Passed
<1> QED BY <1>1, <1>2, <1>4, FinishKeeps

LEMMA AbInit == Init => AbInv
<1> SUFFICES ASSUME Ab!Init PROVE AbSound
  BY DEF Init, AbInv
<1>1. eng.boot \in Nat /\ << >> \in Seq(ArmResults) /\ DOMAIN << >> = {}
  BY DEF Ab!Init
<1>2. ab \in ArmResults /\ UnderWay(ab, eng.boot)
  BY <1>1, NewArmIsUnderWay DEF Ab!Init
<1>3. /\ setup \in [restart : BOOLEAN, local : BOOLEAN, host : BOOLEAN, reset : BOOLEAN]
      /\ setup.restart => setup.host
  BY DEF Ab!Init
<1>4. eng \in [up : BOOLEAN, boot : Nat, arm : Nat, route : BOOLEAN]
  <2>1. eng \in [up : {TRUE}, boot : {1}, arm : {0}, route : BOOLEAN]
    BY DEF Ab!Init
  <2>2. eng.boot = 1 /\ eng.arm = 0 /\ eng.up = TRUE /\ eng.route \in BOOLEAN
    BY <2>1
  <2>3. eng = [up |-> eng.up, boot |-> eng.boot, arm |-> eng.arm, route |-> eng.route]
    BY <2>1
  <2>4. TRUE \in BOOLEAN /\ 1 \in Nat /\ 0 \in Nat
    OBVIOUS
  <2> QED BY <2>2, <2>3, <2>4, Zenon
<1>5. arms = << >> /\ report.code = -1 /\ report.deltas = {}
  BY DEF Ab!Init
<1> QED BY <1>1, <1>2, <1>3, <1>4, <1>5 DEF AbSound, AbTyped, Reported

LEMMA AbStep == AbInv /\ [Next]_vars => AbInv'
<1> SUFFICES ASSUME AbInv, [Next]_vars, tool' = "bench-ab" PROVE AbSound'
  BY DEF AbInv
<1>1. CASE UNCHANGED vars
  <2>1. AbSound /\ UNCHANGED <<eng, setup, ab, arms, report>>
    BY <1>1 DEF vars, abvars, AbInv
  <2>2. Ab!Comparison' = Ab!Comparison /\ Ab!BootWarnings' = Ab!BootWarnings /\ Ab!ArmWarnings' = Ab!ArmWarnings
    BY <2>1 DEF Ab!Comparison, Ab!BootWarnings, Ab!ArmWarnings
  <2>3. AbTyped' /\ UnderWay(ab, eng.boot)' /\ (\A i \in DOMAIN arms : Passed(arms[i]))'
    BY <2>1 DEF AbSound, AbTyped, UnderWay, Passed
  <2>4. Reported'
    BY <2>1, <2>2 DEF AbSound, Reported
  <2> QED BY <2>3, <2>4 DEF AbSound
<1>2. CASE Next
  <2>1. Ab!Next
    BY <1>2 DEF Next, Benchmarking, Sampling, Watching
  <2>2. AbSound
    BY <1>2 DEF Next, Benchmarking, Sampling, Watching, AbInv
  <2> DEFINE Engines == [up : BOOLEAN, boot : Nat, arm : Nat, route : BOOLEAN]
  <2>3. /\ eng \in Engines /\ ab \in ArmResults /\ UnderWay(ab, eng.boot)
        /\ setup \in [restart : BOOLEAN, local : BOOLEAN, host : BOOLEAN, reset : BOOLEAN]
    BY <2>2 DEF AbSound, AbTyped
  <2>4. ASSUME eng' \in Engines, eng'.boot >= eng.boot, report.code = -1, report' = report, setup' = setup,
               NEW step \in Steps \ {"bench"}, ab.step \in Steps \ {"bench"}, Ab!Goto(ab, step),
               step \in {"reset", "warmup"} => ab.step \in {"reset", "warmup"}
        PROVE  AbSound'
    <3>1. ab' \in ArmResults /\ ab' = [ab EXCEPT !.step = step] /\ arms' = arms
      BY <2>3, <2>4 DEF Ab!Goto, ArmResults
    <3>2. UnderWay(ab', eng'.boot)
      BY <2>3, <2>4, <3>1 DEF UnderWay, ArmResults, Readings, Steps
    <3> QED BY <2>2, <2>4, <3>1, <3>2, GotoKeeps
  <2>5. CASE Ab!Restart
    <3>1. ab.step = "restart" /\ report.code = -1 /\ setup' = setup /\ report' = report
      BY <2>5 DEF Ab!Restart, Ab!Running
    <3>2. eng' \in Engines /\ eng'.boot >= eng.boot
      <4>1. \/ eng' = eng
            \/ eng' = [up |-> TRUE, boot |-> eng.boot + 1, arm |-> Len(arms) + 1, route |-> setup.reset]
            \/ eng' = [eng EXCEPT !.up = FALSE]
        BY <2>5 DEF Ab!Restart, Ab!Index
      <4>2. Len(arms) + 1 \in Nat /\ setup.reset \in BOOLEAN /\ eng.boot + 1 \in Nat
        BY <2>2, <2>3 DEF AbSound, AbTyped
      <4>3. CASE eng' = eng
        BY <2>3, <4>3
      <4>4. CASE eng' = [up |-> TRUE, boot |-> eng.boot + 1, arm |-> Len(arms) + 1, route |-> setup.reset]
        BY <2>3, <4>2, <4>4
      <4>5. CASE eng' = [eng EXCEPT !.up = FALSE]
        <5>1. eng \in Engines
          BY <2>3
        <5>2. eng' = [up |-> FALSE, boot |-> eng.boot, arm |-> eng.arm, route |-> eng.route]
          BY <4>5, <5>1
        <5> QED BY <5>1, <5>2
      <4> QED BY <4>1, <4>3, <4>4, <4>5
    <3>3. Ab!Goto(ab, "health") \/ Ab!ArmError
      BY <2>5 DEF Ab!Restart
    <3> HIDE DEF Engines
    <3>4. CASE Ab!ArmError
      BY <2>2, <3>1, <3>2, <3>4, ArmErrorKeeps DEF Engines
    <3>5. CASE Ab!Goto(ab, "health")
      BY <2>4, <3>1, <3>2, <3>5 DEF Steps
    <3> QED BY <3>3, <3>4, <3>5
  <2>6. CASE Ab!Health \/ (Ab!Reset /\ Ab!Goto(ab, "warmup"))
    <3>1. /\ report.code = -1 /\ setup' = setup /\ report' = report /\ eng' = eng /\ ab.step \in {"health", "reset"}
          /\ \/ Ab!Goto(ab, "boot") /\ ab.step = "health"
             \/ Ab!Goto(ab, "warmup") /\ ab.step = "reset"
             \/ Ab!ArmError
      BY <2>6 DEF Ab!Health, Ab!Reset, Ab!Running
    <3>2. eng' \in Engines /\ eng'.boot >= eng.boot
      BY <2>3, <3>1
    <3> HIDE DEF Engines
    <3>3. CASE Ab!ArmError
      BY <2>2, <3>1, <3>2, <3>3, ArmErrorKeeps DEF Engines
    <3>4. CASE Ab!Goto(ab, "boot") /\ ab.step = "health"
      BY <2>4, <3>1, <3>2, <3>4 DEF Steps
    <3>5. CASE Ab!Goto(ab, "warmup") /\ ab.step = "reset"
      BY <2>4, <3>1, <3>2, <3>5 DEF Steps
    <3> QED BY <3>1, <3>3, <3>4, <3>5
  <2>7. CASE Ab!Reset /\ ~Ab!Goto(ab, "warmup")
    <3>1. /\ report.code = -1 /\ setup' = setup /\ report' = report /\ eng' = eng /\ ab.step = "reset"
          /\ Ab!Goto([ab EXCEPT !.warned = @ \cup {"reset"}], "warmup") \/ Ab!ArmError
      BY <2>7 DEF Ab!Reset, Ab!Running
    <3>2. CASE Ab!ArmError
      BY <2>2, <2>3, <3>1, <3>2, ArmErrorKeeps
    <3>3. CASE Ab!Goto([ab EXCEPT !.warned = @ \cup {"reset"}], "warmup")
      <4>1. ab.warned \cup {"reset"} \in SUBSET Warnings
        BY <2>3, AddWarning DEF Warnings
      <4>2. ab' \in ArmResults /\ arms' = arms /\ ab' = [[ab EXCEPT !.warned = @ \cup {"reset"}] EXCEPT !.step = "warmup"]
        BY <2>3, <3>3, <4>1 DEF Ab!Goto, ArmResults, Steps
      <4>3. /\ ab'.step = "warmup" /\ ab'.error = ab.error /\ ab'.changed = ab.changed
            /\ ab'.benches = ab.benches /\ ab'.boot = ab.boot
        BY <2>3, <4>2 DEF ArmResults
      <4>4. UnderWay(ab', eng'.boot)
        BY <2>3, <3>1, <4>3 DEF UnderWay, Steps
      <4> QED BY <2>2, <2>3, <3>1, <4>2, <4>4, GotoKeeps
    <3> QED BY <3>1, <3>2, <3>3
  <2>8. ASSUME NEW scraped \in BOOLEAN, Ab!BootStart(scraped) PROVE AbSound'
    <3> DEFINE b == Ab!Probe(scraped)
               w == IF b.source = "metrics" THEN ab.warned ELSE ab.warned \cup {"boot"}
               a == [ab EXCEPT !.boot = b, !.warned = w]
    <3>1. /\ report.code = -1 /\ setup' = setup /\ report' = report /\ eng' = eng /\ ab.step = "boot"
          /\ arms' = arms /\ ab' = [a EXCEPT !.step = "reset"]
      BY <2>8 DEF Ab!BootStart, Ab!Running, Ab!Goto
    <3>2. b \in Readings /\ (b.source = "metrics" => b.id = eng.boot)
      BY <2>2, ProbeReads DEF AbSound
    <3>3. w \in SUBSET Warnings
      BY <2>3, AddWarning DEF Warnings
    <3> HIDE DEF b, w
    <3>4. /\ ab' \in ArmResults /\ ab'.step = "reset" /\ ab'.error = ab.error /\ ab'.changed = ab.changed
          /\ ab'.benches = ab.benches /\ ab'.boot = b
      BY <2>3, <3>1, <3>2, <3>3 DEF ArmResults, Steps
    <3>5. UnderWay(ab', eng'.boot)
      BY <2>3, <3>1, <3>2, <3>4 DEF UnderWay, Steps
    <3> QED BY <2>2, <2>3, <3>1, <3>4, <3>5, GotoKeeps
  <2>9. CASE Ab!Warmup
    <3>1. /\ report.code = -1 /\ setup' = setup /\ report' = report /\ eng' = eng /\ ab.step = "warmup"
          /\ Ab!Goto([ab EXCEPT !.warmed = eng.boot], "bench") \/ Ab!ArmError
      BY <2>9 DEF Ab!Warmup, Ab!Running
    <3>2. CASE Ab!ArmError
      BY <2>2, <2>3, <3>1, <3>2, ArmErrorKeeps
    <3>3. CASE Ab!Goto([ab EXCEPT !.warmed = eng.boot], "bench")
      <4>1. arms' = arms /\ ab' = [[ab EXCEPT !.warmed = eng.boot] EXCEPT !.step = "bench"]
        BY <3>3 DEF Ab!Goto
      <4>2. /\ ab' \in ArmResults /\ ab'.step = "bench" /\ ab'.error = ab.error /\ ab'.changed = ab.changed
            /\ ab'.benches = ab.benches /\ ab'.boot = ab.boot /\ ab'.warmed = eng.boot
        BY <2>3, <4>1 DEF ArmResults, Steps
      <4>3. UnderWay(ab', eng'.boot)
        BY <2>3, <3>1, <4>2 DEF UnderWay, Steps
      <4> QED BY <2>2, <2>3, <3>1, <4>1, <4>2, <4>3, GotoKeeps
    <3> QED BY <3>1, <3>2, <3>3
  <2>10. CASE Ab!Bench
    <3> DEFINE k == Len(ab.benches) + 1
    <3>1. /\ report.code = -1 /\ setup' = setup /\ report' = report /\ eng' = eng /\ ab.step = "bench"
          /\ k <= Len(Benches)
      BY <2>10 DEF Ab!Bench, Ab!Running
    <3>2. PICK got \in Ab!Brought(Benches[k]) :
            Ab!Goto([ab EXCEPT !.benches = Append(@, [got |-> Ab!Extract(Benches[k], got), boot |-> eng.boot])],
                    "bench")
      BY <2>10 DEF Ab!Bench
    <3> DEFINE e == [got |-> Ab!Extract(Benches[k], got), boot |-> eng.boot]
               bs == Append(ab.benches, e)
    <3>3. e \in BenchResults /\ e.boot = eng.boot
      <4>1. ab.benches \in Seq(BenchResults)
        BY <2>3 DEF ArmResults
      <4>2. Benches[k] \in {"decode_prose", "prefix_cache", "cache_sessions", "short_chat"}
        <5>1. k \in 1..Len(Benches)
          BY <3>1, <4>1, MeasurementAssumption
        <5> HIDE DEF k
        <5>2. Benches \in Seq({"decode_prose", "prefix_cache", "cache_sessions", "short_chat"})
          BY MeasurementAssumption
        <5> QED BY <5>1, <5>2
      <4>3. got \in SUBSET Names
        BY <4>2 DEF Ab!Brought, Ab!Registered, Ab!Bad, Names
      <4>4. Ab!Extract(Benches[k], got) \in SUBSET Names
        BY <4>2, <4>3, ExtractIsASet
      <4> QED BY <2>3, <4>4 DEF BenchResults
    <3>4. ab' = [[ab EXCEPT !.benches = bs] EXCEPT !.step = "bench"] /\ arms' = arms
      BY <3>2 DEF Ab!Goto
    <3> HIDE DEF e, k
    <3>5. /\ bs \in Seq(BenchResults) /\ DOMAIN bs = 1..(Len(ab.benches) + 1)
          /\ DOMAIN ab.benches = 1..Len(ab.benches)
          /\ (\A i \in 1..Len(ab.benches) : bs[i] = ab.benches[i]) /\ bs[Len(ab.benches) + 1] = e
      <4>1. ab.benches \in Seq(BenchResults)
        BY <2>3 DEF ArmResults
      <4> QED BY <3>3, <4>1
    <3> HIDE DEF bs
    <3>6. /\ ab' \in ArmResults /\ ab'.step = "bench" /\ ab'.error = ab.error /\ ab'.changed = ab.changed
          /\ ab'.benches = bs /\ ab'.boot = ab.boot /\ ab'.warmed = ab.warmed
      BY <2>3, <3>4, <3>5 DEF ArmResults, Steps
    <3>7. \A i \in DOMAIN bs : ab.warmed <= bs[i].boot /\ bs[i].boot <= eng.boot
      <4>1. ab.warmed <= eng.boot /\ eng.boot <= eng.boot
        BY <2>3, <3>1 DEF UnderWay
      <4>2. \A i \in DOMAIN ab.benches : ab.warmed <= ab.benches[i].boot /\ ab.benches[i].boot <= eng.boot
        BY <2>3, <3>1 DEF UnderWay
      <4>3. \A i \in DOMAIN bs : i \in 1..Len(ab.benches) \/ i = Len(ab.benches) + 1
        <5>1. ab.benches \in Seq(BenchResults)
          BY <2>3 DEF ArmResults
        <5> QED BY <3>5, <5>1
      <4> QED BY <3>3, <3>5, <4>1, <4>2, <4>3
    <3>8. UnderWay(ab', eng'.boot)
      BY <2>3, <3>1, <3>6, <3>7 DEF UnderWay, Steps
    <3> QED BY <2>2, <2>3, <3>1, <3>4, <3>6, <3>8, GotoKeeps
  <2>11. ASSUME NEW scraped \in BOOLEAN, Ab!BootEnd(scraped) PROVE AbSound'
    <3> DEFINE b == Ab!Probe(scraped)
               differ == Ab!Known(ab.boot) /\ Ab!Known(b) /\ (ab.boot.id # b.id \/ ab.boot.source # b.source)
               changed == differ /\ ab.boot.source = b.source
               w == IF differ THEN ab.warned \cup {"changed"} ELSE ab.warned
               a == [ab EXCEPT !.bootEnd = b, !.changed = changed, !.warned = w]
    <3>1. /\ report.code = -1 /\ setup' = setup /\ report' = report /\ eng' = eng /\ ab.step = "bench"
          /\ Ab!Finish(a)
      BY <2>11 DEF Ab!BootEnd, Ab!Running
    <3>2. /\ b \in Readings /\ b.source \in {"metrics", "host", "unavailable"}
          /\ (b.source = "metrics" => b.id = eng.boot) /\ (setup.host => b.source # "unavailable")
      BY <2>2, ProbeReads DEF AbSound
    <3>3. w \in SUBSET Warnings /\ changed \in BOOLEAN /\ (differ => "changed" \in w)
      BY <2>3, AddWarning DEF Warnings
    <3>4. ab.boot.source = "metrics" /\ b.source = "metrics" /\ ~changed => ab.boot.id = b.id
      BY DEF Ab!Known
    <3>5. ab.boot.source = "metrics" /\ b.source # "metrics" /\ b.source # "unavailable" => differ
      BY DEF Ab!Known
    <3> HIDE DEF b, differ, changed, w
    <3>6. /\ a \in ArmResults /\ a.error = ab.error /\ a.benches = ab.benches /\ a.boot = ab.boot
          /\ a.warmed = ab.warmed /\ a.bootEnd = b /\ a.changed = changed /\ a.warned = w
      BY <2>3, <3>2, <3>3 DEF ArmResults
    <3> HIDE DEF a
    <3> DEFINE r == Ab!Result(a)
    <3>7. /\ r.benches = ab.benches /\ r.boot = ab.boot /\ r.warmed = ab.warmed /\ r.bootEnd = b
          /\ r.warned = w /\ (r.step = "ok" => ~changed)
      <4>1. r = [a EXCEPT !.step = "failed"] \/ (r = [a EXCEPT !.step = "ok"] /\ ~a.changed)
        BY DEF Ab!Result
      <4>2. ASSUME NEW v
            PROVE  LET x == [a EXCEPT !.step = v]
                   IN  /\ x.benches = a.benches /\ x.boot = a.boot /\ x.warmed = a.warmed
                       /\ x.bootEnd = a.bootEnd /\ x.warned = a.warned /\ x.step = v
        BY <3>6 DEF ArmResults
      <4>3. CASE r = [a EXCEPT !.step = "failed"]
        BY <3>6, <4>2, <4>3
      <4>4. CASE r = [a EXCEPT !.step = "ok"] /\ ~a.changed
        BY <3>6, <4>2, <4>4
      <4> QED BY <4>1, <4>3, <4>4
    <3> HIDE DEF r, a
    <3>8. ASSUME r.step = "ok", ab.boot.source = "metrics", b.source = "metrics"
          PROVE  ab.warmed = ab.boot.id /\ \A k \in DOMAIN ab.benches : ab.benches[k].boot = ab.boot.id
      <4>1. ab.boot.id = eng.boot
        BY <3>2, <3>4, <3>7, <3>8
      <4>2. ab.boot.id <= ab.warmed /\ ab.warmed <= eng.boot
        BY <2>3, <3>1, <3>8 DEF UnderWay
      <4>3. \A k \in DOMAIN ab.benches : ab.warmed <= ab.benches[k].boot /\ ab.benches[k].boot <= eng.boot
        BY <2>3, <3>1 DEF UnderWay
      <4>4. ab.warmed \in Nat /\ eng.boot \in Nat /\ \A k \in DOMAIN ab.benches : ab.benches[k].boot \in Nat
        <5>1. ab.benches \in Seq(BenchResults)
          BY <2>3 DEF ArmResults
        <5>2. \A k \in DOMAIN ab.benches : ab.benches[k] \in BenchResults
          BY <5>1
        <5> QED BY <2>3, <5>2 DEF ArmResults, BenchResults
      <4> QED BY <4>1, <4>2, <4>3, <4>4
    <3>9. Passed(r)
      BY <3>2, <3>3, <3>5, <3>7, <3>8 DEF Passed
    <3> QED BY <2>2, <2>3, <3>1, <3>6, <3>9, FinishKeeps DEF r
  <2>12. CASE Ab!Report
    <3>1. /\ report.code = -1 /\ Len(arms) + 1 > NumArms
          /\ UNCHANGED <<eng, setup, ab, arms>>
          /\ report' = [code |-> IF \A a \in Ab!Arms : arms[a].step = "ok" THEN 0 ELSE 1,
                        warnings |-> Ab!BootWarnings \cup Ab!ArmWarnings, deltas |-> Ab!Comparison]
      BY <2>12 DEF Ab!Report, Ab!Index
    <3>2. /\ report'.code # -1 /\ report'.deltas = Ab!Comparison
          /\ report'.warnings = Ab!BootWarnings \cup Ab!ArmWarnings
      BY <3>1
    <3>3. Ab!Comparison' = Ab!Comparison /\ Ab!BootWarnings' = Ab!BootWarnings /\ Ab!ArmWarnings' = Ab!ArmWarnings
      BY <3>1 DEF Ab!Comparison, Ab!BootWarnings, Ab!ArmWarnings
    <3>4. Len(arms) >= NumArms
      BY <2>2, <3>1, MeasurementAssumption DEF AbSound, AbTyped
    <3>5. Reported'
      BY <3>1, <3>2, <3>3, <3>4 DEF Reported
    <3>6. AbTyped' /\ UnderWay(ab, eng.boot)' /\ (\A i \in DOMAIN arms : Passed(arms[i]))'
      BY <2>2, <3>1 DEF AbSound, AbTyped, UnderWay, Passed
    <3> QED BY <3>5, <3>6 DEF AbSound
  <2>13. CASE Ab!EngineStops \/ Ab!EngineReturns
    <3>1. /\ report.code = -1 /\ UNCHANGED <<setup, ab, arms, report>>
          /\ eng' = [eng EXCEPT !.up = FALSE] \/ eng' = [eng EXCEPT !.up = TRUE, !.boot = @ + 1]
      BY <2>13 DEF Ab!EngineStops, Ab!EngineReturns
    <3>2. eng' \in Engines /\ eng'.boot \in {eng.boot, eng.boot + 1}
      <4>1. eng.boot + 1 \in Nat
        BY <2>3
      <4>2. CASE eng' = [eng EXCEPT !.up = FALSE]
        BY <2>3, <4>2
      <4>3. CASE eng' = [eng EXCEPT !.up = TRUE, !.boot = @ + 1]
        BY <2>3, <4>1, <4>3
      <4> QED BY <3>1, <4>2, <4>3
    <3>3. UnderWay(ab, eng'.boot)
      <4>1. ab.warmed \in Nat /\ ab.boot.id \in Nat /\ \A k \in DOMAIN ab.benches : ab.benches[k].boot \in Nat
        <5>1. ab.benches \in Seq(BenchResults)
          BY <2>3 DEF ArmResults
        <5>2. \A k \in DOMAIN ab.benches : ab.benches[k] \in BenchResults
          BY <5>1
        <5> QED BY <2>3, <5>2 DEF ArmResults, BenchResults, Readings
      <4> QED BY <2>3, <3>2, <4>1 DEF UnderWay
    <3> QED BY <2>2, <2>3, <3>1, <3>2, <3>3, GotoKeeps
  <2>14. CASE Ab!Reset
    BY <2>6, <2>7, <2>14
  <2> QED BY <2>1, <2>5, <2>6, <2>8, <2>9, <2>10, <2>11, <2>12, <2>13, <2>14
         DEF Ab!Next, Ab!Harness
<1> QED BY <1>1, <1>2

\* What a delta compares has passed.
LEMMA ComparedPassed ==
  ASSUME AbSound, NEW d \in report.deltas
  PROVE  /\ report.code # -1 /\ d.arm \in 2..NumArms /\ NumArms \in Nat /\ Len(arms) >= NumArms
         /\ \A a \in {1, d.arm} :
              /\ a \in Ab!Arms /\ a \in DOMAIN arms /\ arms[a] \in ArmResults
              /\ Passed(arms[a]) /\ arms[a].step = "ok"
<1>1. report.code # -1 /\ report.deltas = Ab!Comparison /\ Len(arms) >= NumArms
  BY DEF AbSound, Reported
<1>2. d.arm \in 2..NumArms /\ \A a \in {1, d.arm} : arms[a].step = "ok"
  BY <1>1 DEF Ab!Comparison
<1>3. NumArms \in Nat /\ arms \in Seq(ArmResults)
  BY MeasurementAssumption DEF AbSound, AbTyped
<1>4. \A a \in {1, d.arm} : a \in 1..NumArms /\ a \in 1..Len(arms)
  BY <1>1, <1>2, <1>3
<1> QED BY <1>1, <1>2, <1>3, <1>4 DEF AbSound, Ab!Arms

\* bench-ab.py:1724-1748: an arm whose boot was read from the engine before and
\* after is compared only if its warmup and all its benchmarks ran on that
\* boot, for every number of arms and however often the engine stopped.
THEOREM ReadingsProveTheBoot == Spec => []ProvenBootsDidNotChange
<1>1. AbInv => ProvenBootsDidNotChange
  <2> SUFFICES ASSUME AbSound, NEW d \in report.deltas, NEW a \in {1, d.arm},
                      arms[a].boot.source = "metrics", arms[a].bootEnd.source = "metrics"
               PROVE  Ab!OneBoot(a) /\ arms[a].warmed = arms[a].boot.id
    BY DEF AbInv, ProvenBootsDidNotChange, Ab!ProvenBootsDidNotChange
  <2>1. Passed(arms[a]) /\ arms[a].step = "ok"
    BY ComparedPassed
  <2> QED BY <2>1 DEF Passed, Ab!OneBoot
<1> QED BY AbInit, AbStep, <1>1, PTL DEF Spec

\* bench-ab.py:48-51: of one or two arms, a report without a warning compares
\* two boots, each from the warmup to the last benchmark of its arm.  (Of more
\* arms the code only warns when all of them ran on one boot.)
THEOREM QuietReportsCompareBoots == NumArms <= 2 /\ Spec => []QuietReportIsSound
<1>1. ASSUME NumArms <= 2, AbInv PROVE QuietReportIsSound
  <2> SUFFICES ASSUME AbSound, report.warnings = {}, NEW d \in report.deltas
               PROVE  Ab!OneBoot(1) /\ Ab!OneBoot(d.arm) /\ arms[1].warmed # arms[d.arm].warmed
    BY <1>1 DEF AbInv, QuietReportIsSound, Ab!QuietReportIsSound
  <2>1. /\ report.code # -1 /\ d.arm = 2 /\ NumArms = 2
        /\ \A a \in {1, 2} : /\ arms[a] \in ArmResults /\ Passed(arms[a]) /\ arms[a].step = "ok"
    <3>1. /\ report.code # -1 /\ d.arm \in 2..NumArms /\ NumArms \in Nat
          /\ \A a \in {1, d.arm} : arms[a] \in ArmResults /\ Passed(arms[a]) /\ arms[a].step = "ok"
      BY ComparedPassed
    <3>2. d.arm = 2 /\ NumArms = 2
      BY <1>1, <3>1
    <3> QED BY <3>1, <3>2
  <2>2. Ab!Arms = {1, 2}
    BY <2>1 DEF Ab!Arms
  <2>3. Ab!BootWarnings = {} /\ Ab!ArmWarnings = {}
    BY <2>1 DEF AbSound, Reported
  <2> DEFINE known == {a \in Ab!Arms : arms[a].boot.source \notin {"none", "unavailable"}}
             ids == {arms[a].boot : a \in known}
  <2>4. /\ setup.restart /\ known = {1, 2} /\ (\A a \in known : arms[a].boot.source # "host")
        /\ ~(Cardinality(known) >= 2 /\ Cardinality(ids) = 1)
    <3>1. setup.restart
      BY <2>3 DEF Ab!BootWarnings
    <3> DEFINE W == {w \in {"missing", "host-only", "same"} :
                       \/ w = "missing" /\ known # Ab!Arms
                       \/ w = "host-only" /\ \E a \in known : arms[a].boot.source = "host"
                       \/ w = "same" /\ Ab!Cardinality(known) >= 2 /\ Ab!Cardinality(ids) = 1}
    <3>2. W = Ab!BootWarnings
      BY <3>1, Zenon DEF Ab!BootWarnings
    <3>3. W = {}
      BY <2>3, <3>2
    <3>4. \A S : Ab!Cardinality(S) = Cardinality(S)
      BY DEF Ab!Cardinality, Cardinality
    <3> HIDE DEF known, ids
    <3> QED BY <2>2, <3>1, <3>3, <3>4
  <2>5. \A a \in {1, 2} : arms[a].boot.source = "metrics" /\ "changed" \notin arms[a].warned
    <3>1. \A a \in {1, 2} : arms[a].warned = {}
      BY <2>2, <2>3 DEF Ab!ArmWarnings
    <3>2. \A a \in {1, 2} : arms[a].boot.source \in {"none", "metrics", "host", "unavailable"}
      BY <2>1 DEF ArmResults, Readings
    <3> QED BY <2>4, <3>1, <3>2
  <2>6. setup.host
    BY <2>4 DEF AbSound, AbTyped
  <2>7. \A a \in {1, 2} : /\ arms[a].warmed = arms[a].boot.id
                          /\ \A k \in DOMAIN arms[a].benches : arms[a].benches[k].boot = arms[a].boot.id
    BY <2>1, <2>5, <2>6 DEF Passed
  <2>8. arms[1].boot.id # arms[2].boot.id
    <3> SUFFICES ASSUME arms[1].boot.id = arms[2].boot.id PROVE FALSE
      OBVIOUS
    <3>1. arms[1].boot \in Readings /\ arms[2].boot \in Readings
      BY <2>1 DEF ArmResults
    <3>2. arms[1].boot = arms[2].boot
      BY <2>5, <3>1 DEF Readings
    <3>3. ids = {arms[1].boot}
      BY <2>4, <3>2
    <3>4. Cardinality(ids) = 1
      BY <3>3, FS_Singleton
    <3>5. Cardinality(known) = 2
      <4>1. Cardinality({1, 2}) = 2
        <5>1. IsFiniteSet({1}) /\ Cardinality({1}) = 1 /\ 2 \notin {1}
          BY FS_Singleton
        <5>2. Cardinality({1} \cup {2}) = Cardinality({1}) + 1
          BY <5>1, FS_AddElement
        <5>3. {1} \cup {2} = {1, 2}
          OBVIOUS
        <5> QED BY <5>1, <5>2, <5>3
      <4> QED BY <2>4, <4>1
    <3> HIDE DEF known, ids
    <3> QED BY <2>4, <3>4, <3>5
  <2> QED BY <2>1, <2>7, <2>8 DEF Ab!OneBoot
<1>2. NumArms <= 2 /\ []AbInv => []QuietReportIsSound
  <2>1. SUFFICES ASSUME NumArms <= 2 PROVE []AbInv => []QuietReportIsSound
    BY <2>1
  <2>2. AbInv => QuietReportIsSound
    BY <1>1, <2>1
  <2> QED BY <2>2, PTL
<1> QED BY AbInit, AbStep, <1>2, PTL DEF Spec
=============================================================================

---------------------------- MODULE PrefillWatch ----------------------------
(***************************************************************************)
(* The prefill watchdog of the vLLM lane (scripts/prefill-watchdog.py): it *)
(* scrapes the counters of an engine that serves, slows down and restarts  *)
(* in between, makes one observation of every two scrapes, and compares    *)
(* the last ones with those before; when the counters say too little it    *)
(* reads the log.                                                          *)
(***************************************************************************)
EXTENDS Integers, Sequences, FiniteSets, SequencesExt

CONSTANTS
  Samples,         \* --samples
  Window,          \* --window
  BaselineWindow,  \* --baseline-window
  Logs,            \* the throughputs in the log; Missing when there is none
  MaxServes,       \* bound: prompts between two scrapes
  MaxRestarts      \* bound

VARIABLES
  engine,   \* its counters, what it exports, its speed
  served,   \* prompts since the last scrape, and the costs of them
  snaps,    \* the number of snapshots, and the last one
  obs,      \* the observations made of them, oldest first
  verdict   \* the status and the exit code, once printed

wvars == <<engine, served, snaps, obs, verdict>>

Missing == <<-1>>
Costs == {1, 2}          \* seconds a prompt takes, healthy and slow
Scale == 12

----------------------------------------------------------------------------
(* Analysis                                                                *)

\* The k-th of the values in ascending order.
Ranked(values, k) ==
  CHOOSE v \in Range(values) :
    /\ Cardinality({i \in DOMAIN values : values[i] < v}) < k
    /\ Cardinality({i \in DOMAIN values : values[i] <= v}) >= k

\* Twice the median, so that it stays an integer.
Median2(values) ==
  LET n == Len(values) IN
  IF n % 2 = 1 THEN 2 * Ranked(values, (n + 1) \div 2)
  ELSE Ranked(values, n \div 2) + Ranked(values, n \div 2 + 1)

\* Mutant: the recent values are part of their own baseline.
AnalyzeOverlapping(values) ==
  LET n == Len(values) IN
  IF n < Window + 1 THEN "insufficient"
  ELSE IF 10 * Median2(SubSeq(values, n - Window + 1, n)) <= 7 * Median2(values)
  THEN "degraded" ELSE "ok"

\* analyze_series, at the default threshold of 30 %.
Analyze(values) ==
  LET n == Len(values)
      from == IF n - Window - BaselineWindow > 0 THEN n - Window - BaselineWindow ELSE 0
      recent == SubSeq(values, n - Window + 1, n)
      baseline == SubSeq(values, from + 1, n - Window)
  IN IF n < Window + 1 THEN "insufficient"
     ELSE IF 10 * Median2(recent) <= 7 * Median2(baseline) THEN "degraded" ELSE "ok"

\* Mutant: an interval across a restart is skipped and the others are kept.
ObserveKeeping(p, c) ==
  IF (p.start # 0 /\ c.start # 0 /\ p.start # c.start) \/ c.prompt < p.prompt \/ c.ttft < p.ttft
     \/ c.prompt = p.prompt THEN obs
  ELSE Append(obs, [tok |-> Scale * (c.prompt - p.prompt), boots |-> {p.boot, c.boot}, costs |-> c.costs])

\* One step of observations_from_snapshots: a restart or a counter that went
\* back forgets the observations so far, an idle interval adds none.
Observe(p, c) ==
  LET prompt == c.prompt - p.prompt
      ttft == IF p.ttft < 0 \/ c.ttft < 0 THEN 0 ELSE c.ttft - p.ttft
      o == [tok |-> IF ttft > 0 THEN (Scale * prompt) \div ttft ELSE Scale * prompt,
            boots |-> {p.boot, c.boot}, costs |-> c.costs]
  IN IF p.start # 0 /\ c.start # 0 /\ p.start # c.start THEN << >>
     ELSE IF prompt < 0 \/ ttft < 0 THEN << >>
     ELSE IF prompt = 0 THEN obs ELSE Append(obs, o)

\* parse_log_values: the zeros are the idle heartbeat.
LogValues(log) == SelectSeq(log, LAMBDA v : v > 0)

----------------------------------------------------------------------------
(* The engine and the watchdog                                             *)

Init ==
  /\ engine \in [boot : {1}, prompt : {0}, ttft : {0}, cost : Costs,
                 start : BOOLEAN,   \* process_start_time_seconds is exported
                 hist : BOOLEAN]    \* the TTFT histogram is exported
  /\ served = [n |-> 0, costs |-> {}] /\ snaps = [n |-> 0, last |-> << >>] /\ obs = << >>
  /\ verdict = [status |-> "none", code |-> -1]

Serve ==
  /\ verdict.code < 0 /\ served.n < MaxServes
  /\ engine' = [engine EXCEPT !.prompt = @ + 1, !.ttft = @ + engine.cost]
  /\ served' = [n |-> served.n + 1, costs |-> served.costs \cup {engine.cost}]
  /\ UNCHANGED <<snaps, obs, verdict>>

SlowDown ==
  /\ verdict.code < 0 /\ engine.cost = 1
  /\ engine' = [engine EXCEPT !.cost = 2]
  /\ UNCHANGED <<served, snaps, obs, verdict>>

Restart ==
  /\ verdict.code < 0 /\ engine.boot <= MaxRestarts
  /\ engine' = [engine EXCEPT !.boot = @ + 1, !.prompt = 0, !.ttft = 0, !.cost = 1]
  /\ UNCHANGED <<served, snaps, obs, verdict>>

\* fetch_metrics_snapshot, parse_metrics_text.
Scrape ==
  LET snap == [boot |-> engine.boot, prompt |-> engine.prompt, costs |-> served.costs,
               ttft |-> IF engine.hist THEN engine.ttft ELSE -1,
               start |-> IF engine.start THEN engine.boot ELSE 0]
  IN /\ verdict.code < 0 /\ snaps.n < Samples
     /\ snaps' = [n |-> snaps.n + 1, last |-> snap]
     /\ obs' = IF snaps.n = 0 THEN << >> ELSE Observe(snaps.last, snap)
     /\ served' = [n |-> 0, costs |-> {}]
     /\ UNCHANGED <<engine, verdict>>

\* main: the log is read when the counters said too little; a source that
\* says nothing is no evidence.
Judge(log) ==
  LET rates == [k \in DOMAIN obs |-> obs[k].tok]
      metrics == Analyze(rates)
      logs == IF metrics # "insufficient" \/ log = Missing THEN {} ELSE {Analyze(LogValues(log))}
      usable == ({metrics} \cup logs) \ {"insufficient"}
  IN /\ verdict.code < 0 /\ snaps.n = Samples
     /\ verdict' = IF usable = {} THEN [status |-> "ERROR", code |-> 1]
                   ELSE IF "degraded" \in usable THEN [status |-> "DEGRADED", code |-> 2]
                   ELSE [status |-> "OK", code |-> 0]
     /\ UNCHANGED <<engine, served, snaps, obs>>

Next == Serve \/ SlowDown \/ Restart \/ Scrape \/ \E log \in Logs : Judge(log)
Spec == Init /\ [][Next]_wvars

----------------------------------------------------------------------------
(* Properties                                                              *)

\* prefill-watchdog.py:253: "a different engine process means the old
\* baseline is invalid".  When the start time is exported, every observation
\* that is compared was made of the engine of the last scrape.
ObservationsAreOfOneBoot ==
  engine.start => \A k \in DOMAIN obs : obs[k].boots = {snaps.last.boot}

\* With the histogram and one boot: an engine that always took the same time
\* is never called degraded, however unevenly it was loaded, and one whose
\* last Window intervals were all slow, after fast ones only, always is.
DropIsReportedAndOnlyADrop ==
  verdict.code >= 0 /\ engine.boot = 1 /\ engine.hist /\ Len(obs) > Window =>
    LET costs(K) == UNION {obs[k].costs : k \in K}
        n == Len(obs)
    IN /\ Cardinality(costs(1..n)) = 1 => verdict.code = 0
       /\ costs((n - Window + 1)..n) = {2} /\ costs(1..(n - Window)) = {1} => verdict.code = 2
=============================================================================

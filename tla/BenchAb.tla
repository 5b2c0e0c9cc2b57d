------------------------------ MODULE BenchAb ------------------------------
(***************************************************************************)
(* The A/B benchmark harness of the vLLM lane (scripts/bench-ab.py): every *)
(* arm restarts the engine with its own environment, waits for /health,    *)
(* reads the identity of the boot, empties the prefix cache, warms up, and *)
(* runs the benchmarks; then the arms are compared.  The engine behind     *)
(* --base-url may stop and come back between any two requests, and need    *)
(* not be the one that ./start.sh restarts.                                *)
(***************************************************************************)
EXTENDS Integers, Sequences, FiniteSets

CONSTANTS
  NumArms,     \* the --arm options, the first is the baseline
  Benches,     \* the --bench options, in order
  MaxTroubles  \* bound: engine stops, failed scrapes and failed commands

Arms == 1..NumArms   \* parse_arms: distinct names, in order

VARIABLES
  eng,      \* the engine behind --base-url
  setup,    \* what the operator chose, and what the machine offers
  ab,       \* the arm under way: its step and its result so far
  arms,     \* report["arms"]
  report,   \* the comparison, the warnings and the exit code, once written
  troubles

abvars == <<eng, setup, ab, arms, report, troubles>>

Trouble == troubles < MaxTroubles /\ troubles' = troubles + 1

----------------------------------------------------------------------------
(* The artifacts of the clients: the samples with at least one number      *)

Bad == {}                                  \* BenchArtifactError

ExtractDecode(got) == IF "decode_tok_s" \in got THEN got \cap {"decode_tok_s", "ttft_s"} ELSE Bad
ExtractPrefix(got) ==
  IF got \cap {"cold_ttft_s", "warm_ttft_s", "prefix_hit_ratio"} = {} THEN Bad ELSE got
ExtractSessions(got) ==
  IF got \cap {"cold_hit_fraction", "warm_hit_fraction", "warm_ttft_s", "warm_decode_tok_s"} = {}
  THEN Bad ELSE got
ExtractChat(got) == got \cap {"ttft_s", "decode_tok_s"}

\* BENCHMARKS: the samples of each, and what makes an artifact of them.
Registered == [
  decode_prose   |-> {"decode_tok_s", "ttft_s"},
  prefix_cache   |-> {"cold_ttft_s", "warm_ttft_s", "prefix_hit_ratio"},
  cache_sessions |-> {"cold_hit_fraction", "warm_hit_fraction", "warm_wall_s"},
  short_chat     |-> {"ttft_s", "decode_tok_s"}]

Extract(bench, got) ==
  CASE bench = "decode_prose"   -> ExtractDecode(got)
    [] bench = "prefix_cache"   -> ExtractPrefix(got)
    [] bench = "cache_sessions" -> ExtractSessions(got)
    [] bench = "short_chat"     -> ExtractChat(got)

----------------------------------------------------------------------------
(* The engine                                                              *)

\* http_request and its callers: an engine that is not there is code 0.
WaitForHealth == eng.up
WarmupRequest == eng.up
ResetStatus == IF ~eng.up THEN "error" ELSE IF eng.route THEN "ok" ELSE "absent"

\* probe_boot_id: the start time of the engine when /metrics answers, else
\* the boot of the host, which an engine restart does not change.
Probe(scraped) ==
  IF eng.up /\ scraped THEN [source |-> "metrics", id |-> eng.boot]
  ELSE IF setup.host THEN [source |-> "host", id |-> 0]
  ELSE [source |-> "unavailable", id |-> 0]

Known(b) == b.source # "unavailable"

EngineStops ==
  /\ eng.up /\ report.code = -1 /\ Trouble
  /\ eng' = [eng EXCEPT !.up = FALSE]
  /\ UNCHANGED <<setup, ab, arms, report>>

\* It comes back with the environment it had, and an empty cache.
EngineReturns ==
  /\ ~eng.up /\ report.code = -1
  /\ eng' = [eng EXCEPT !.up = TRUE, !.boot = @ + 1]
  /\ UNCHANGED <<setup, ab, arms, report, troubles>>

----------------------------------------------------------------------------
(* One arm                                                                 *)

NewArm == [step |-> "restart", error |-> FALSE, warned |-> {}, benches |-> << >>,
           boot |-> [source |-> "none", id |-> 0], bootEnd |-> [source |-> "none", id |-> 0],
           warmed |-> 0, changed |-> FALSE]

Init ==
  /\ setup \in [restart : BOOLEAN,  \* not --no-restart
                local   : BOOLEAN,  \* --base-url is the engine start.sh restarts
                host    : BOOLEAN,  \* the host boot id can be read
                reset   : BOOLEAN]  \* GLM53_EXPOSE_CACHE_RESET=1 in the merged environment
  /\ setup.restart => setup.host    \* start.sh needs the Linux node
  /\ eng \in [up : {TRUE}, boot : {1}, arm : {0}, route : BOOLEAN]
  /\ ab = NewArm /\ arms = << >> /\ troubles = 0
  /\ report = [code |-> -1, warnings |-> {}, deltas |-> {}]

Index == Len(arms) + 1
Running(step) == report.code = -1 /\ Index <= NumArms /\ ab.step = step

\* The result of the arm: a protocol error, a boot that changed or a failed
\* benchmark makes it a failed arm, which is reported but never compared.
Result(a) == [a EXCEPT !.step =
  IF a.error \/ a.changed \/ a.benches = << >> \/ \E k \in DOMAIN a.benches : a.benches[k].got = Bad
  THEN "failed" ELSE "ok"]

Finish(a) == arms' = Append(arms, Result(a)) /\ ab' = NewArm
Goto(a, step) == ab' = [a EXCEPT !.step = step] /\ UNCHANGED arms

\* Mutant: an arm whose protocol failed starts over.
ArmErrorRetries == Goto(NewArm, "restart")

ArmError == Finish([ab EXCEPT !.error = TRUE])

\* ./start.sh restart: returns 0 when the engine it manages is up again; a
\* failure or the timeout leaves none.
Restart ==
  /\ Running("restart") /\ UNCHANGED <<setup, report>>
  /\ \/ ~setup.restart /\ Goto(ab, "health") /\ UNCHANGED <<eng, troubles>>
     \/ /\ setup.restart /\ Goto(ab, "health") /\ UNCHANGED troubles
        /\ eng' = IF setup.local
                  THEN [up |-> TRUE, boot |-> eng.boot + 1, arm |-> Index, route |-> setup.reset]
                  ELSE eng
     \/ /\ setup.restart /\ Trouble /\ ArmError
        /\ eng' = IF setup.local THEN [eng EXCEPT !.up = FALSE] ELSE eng

\* wait_for_health: 200 before the deadline, or the arm fails.
Health ==
  /\ Running("health") /\ UNCHANGED <<eng, setup, report, troubles>>
  /\ IF WaitForHealth THEN Goto(ab, "boot") ELSE ArmError

BootStart(scraped) ==
  /\ Running("boot") /\ UNCHANGED <<eng, setup, report>>
  /\ IF scraped THEN UNCHANGED troubles ELSE Trouble
  /\ LET b == Probe(scraped) IN
     Goto([ab EXCEPT !.boot = b, !.warned = IF b.source = "metrics" THEN @ ELSE @ \cup {"boot"}], "reset")

\* POST /reset_prefix_cache: an absent route is accepted with a warning.
Reset ==
  /\ Running("reset") /\ UNCHANGED <<eng, setup, report, troubles>>
  /\ IF ~setup.reset \/ ResetStatus = "ok" THEN Goto(ab, "warmup")
     ELSE IF ResetStatus = "absent" THEN Goto([ab EXCEPT !.warned = @ \cup {"reset"}], "warmup")
     ELSE ArmError

Warmup ==
  /\ Running("warmup") /\ UNCHANGED <<eng, setup, report, troubles>>
  /\ IF WarmupRequest THEN Goto([ab EXCEPT !.warmed = eng.boot], "bench") ELSE ArmError

\* What the client of a benchmark may bring back from the engine as it is:
\* nothing, when it fails or writes no artifact, or any of its samples.
Brought(bench) == IF eng.up THEN SUBSET Registered[bench] ELSE {Bad}

\* One benchmark.  A failure is recorded and the next one runs.
Bench ==
  LET k == Len(ab.benches) + 1 IN
  /\ Running("bench") /\ k <= Len(Benches) /\ UNCHANGED <<eng, setup, report>>
  /\ \E got \in Brought(Benches[k]) :
       /\ IF eng.up /\ got # Registered[Benches[k]] THEN Trouble ELSE UNCHANGED troubles
       /\ Goto([ab EXCEPT !.benches = Append(@, [got |-> Extract(Benches[k], got), boot |-> eng.boot])],
               "bench")

\* A second reading of the boot.  Two readings of different sources prove
\* nothing and only warn.
BootEnd(scraped) ==
  /\ Running("bench") /\ Len(ab.benches) = Len(Benches) /\ UNCHANGED <<eng, setup, report>>
  /\ IF scraped THEN UNCHANGED troubles ELSE Trouble
  /\ LET b == Probe(scraped)
         differ == Known(ab.boot) /\ Known(b) /\ (ab.boot.id # b.id \/ ab.boot.source # b.source)
     IN Finish([ab EXCEPT !.bootEnd = b, !.changed = differ /\ ab.boot.source = b.source,
                          !.warned = IF differ THEN @ \cup {"changed"} ELSE @])

----------------------------------------------------------------------------
(* The report                                                              *)

\* Mutant: the harness compares whatever the arms measured.
ComparisonOfAll ==
  {[arm |-> a, bench |-> k, sample |-> s] :
     a \in 2..NumArms, k \in DOMAIN Benches, s \in UNION {Registered[b] : b \in DOMAIN Registered}}

\* build_comparison: a delta needs the same metric of two arms that passed.
Comparison ==
  {d \in [arm : 2..NumArms, bench : DOMAIN Benches,
          sample : UNION {Registered[b] : b \in DOMAIN Registered}] :
     \A a \in {1, d.arm} : arms[a].step = "ok" /\ d.sample \in arms[a].benches[d.bench].got}

\* Mutant: the boots of the arms are not compared.
BootWarningsTrusting ==
  IF setup.restart THEN {w \in {"host-only"} : \E a \in Arms : arms[a].boot.source # "metrics"}
  ELSE {"no-restart"}

BootWarnings ==
  LET known == {a \in Arms : arms[a].boot.source \notin {"none", "unavailable"}}
      ids == {arms[a].boot : a \in known}
  IN IF setup.restart
     THEN {w \in {"missing", "host-only", "same"} :
             \/ w = "missing" /\ known # Arms
             \/ w = "host-only" /\ \E a \in known : arms[a].boot.source = "host"
             \/ w = "same" /\ Cardinality(known) >= 2 /\ Cardinality(ids) = 1}
     ELSE {"no-restart"} \cup IF Cardinality(ids) > 1 THEN {"outside"} ELSE {}

ArmWarnings ==
  UNION {arms[a].warned : a \in Arms}
    \cup IF \E a \in Arms : arms[a].step = "failed" THEN {"failed"} ELSE {}

\* The end of main.
Report ==
  /\ report.code = -1 /\ Index > NumArms
  /\ report' = [code |-> IF \A a \in Arms : arms[a].step = "ok" THEN 0 ELSE 1,
                warnings |-> BootWarnings \cup ArmWarnings, deltas |-> Comparison]
  /\ UNCHANGED <<eng, setup, ab, arms, troubles>>

Harness ==
  \/ Restart \/ Health \/ Reset \/ Warmup \/ Bench \/ Report
  \/ \E scraped \in BOOLEAN : BootStart(scraped) \/ BootEnd(scraped)
Next == Harness \/ EngineStops \/ EngineReturns
Spec == Init /\ [][Next]_abvars /\ WF_abvars(Harness)

----------------------------------------------------------------------------
(* Properties                                                              *)

\* The boot on which all the benchmarks of an arm ran, if there is one.
OneBoot(a) == \A k \in DOMAIN arms[a].benches : arms[a].benches[k].boot = arms[a].warmed

\* bench-ab.py:48-51, for two arms: a delta of a report without a warning
\* compares two boots, each warmed up, and measured, from the first
\* benchmark of its arm to the last; if start.sh manages the engine, each
\* with the environment of its arm.
QuietReportIsSound ==
  report.warnings = {} => \A d \in report.deltas :
    /\ OneBoot(1) /\ OneBoot(d.arm) /\ arms[1].warmed # arms[d.arm].warmed

\* An arm whose boot was read from the engine, before and after, is compared
\* only if the warmup and every benchmark ran on that boot.
ProvenBootsDidNotChange ==
  \A d \in report.deltas : \A a \in {1, d.arm} :
    arms[a].boot.source = "metrics" /\ arms[a].bootEnd.source = "metrics"
      => OneBoot(a) /\ arms[a].warmed = arms[a].boot.id

\* Every session ends: a protocol error ends its arm and not the session.
SessionEnds == <>(report.code # -1)
=============================================================================

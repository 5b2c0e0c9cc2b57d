---------------------------- MODULE Measurement ----------------------------
(***************************************************************************)
(* The operator at the measuring tools: one of the A/B harness, the power  *)
(* sampler and the prefill watchdog runs, the others are idle.             *)
(***************************************************************************)
EXTENDS Integers, Sequences

CONSTANTS
  NumArms, Benches, MaxTroubles,
  Interval, IdleWindows, Timeouts, MaxGap, Wrap, Durations, Latency, Lines, Modes, Signals, MaxTime,
  Samples, Window, BaselineWindow, Logs, MaxServes, MaxRestarts

\* The benchmarks are registered ones (bench-ab.py rejects another name), times
\* are counted in units, a counter wraps at a positive value, and the windows
\* of the watchdog are not empty (prefill-watchdog.py:619-624).
ASSUME MeasurementAssumption ==
  /\ NumArms \in Nat
  /\ Benches \in Seq({"decode_prose", "prefix_cache", "cache_sessions", "short_chat"})
  /\ Interval \in Nat /\ IdleWindows \subseteq Nat /\ Timeouts \subseteq Nat
  /\ Durations \subseteq Nat /\ Latency \in Nat /\ Wrap \in Nat \ {0}
  /\ Window \in Nat \ {0} /\ BaselineWindow \in Nat \ {0}

VARIABLES
  tool,
  eng, setup, ab, arms, report, troubles,
  opts, pw, child, points, file, markers,
  engine, served, snaps, obs, verdict

Ab == INSTANCE BenchAb
Power == INSTANCE PowerSampler
Watch == INSTANCE PrefillWatch

abvars == <<eng, setup, ab, arms, report, troubles>>
pvars == <<opts, pw, child, points, file, markers>>
wvars == <<engine, served, snaps, obs, verdict>>
vars == <<tool, abvars, pvars, wvars>>

AbIdle == eng = << >> /\ setup = << >> /\ ab = << >> /\ arms = << >> /\ report = [code |-> 0] /\ troubles = << >>
PowerIdle == opts = << >> /\ pw = << >> /\ child = << >> /\ points = << >> /\ file = << >> /\ markers = << >>
WatchIdle == engine = << >> /\ served = << >> /\ snaps = << >> /\ obs = << >> /\ verdict = << >>

Init ==
  \/ tool = "bench-ab" /\ Ab!Init /\ PowerIdle /\ WatchIdle
  \/ tool = "bench-power" /\ Power!Init /\ AbIdle /\ WatchIdle
  \/ tool = "watchdog" /\ Watch!Init /\ AbIdle /\ PowerIdle

Benchmarking == tool = "bench-ab" /\ Ab!Next /\ UNCHANGED <<tool, pvars, wvars>>
Sampling == tool = "bench-power" /\ Power!Next /\ UNCHANGED <<tool, abvars, wvars>>
Watching == tool = "watchdog" /\ Watch!Next /\ UNCHANGED <<tool, abvars, pvars>>

Next == Benchmarking \/ Sampling \/ Watching

\* The harness is a sequential program: it goes on by itself.
Spec ==
  Init /\ [][Next]_vars
    /\ WF_vars(tool = "bench-ab" /\ Ab!Harness /\ UNCHANGED <<tool, pvars, wvars>>)

----------------------------------------------------------------------------
(* The properties of the three tools, stated in their modules              *)

\* bench-ab.py:48-51: a quiet report compares boots of the arms it names.
QuietReportIsSound == tool = "bench-ab" => Ab!QuietReportIsSound

\* bench-ab.py:1724-1748: two equal readings of the engine prove one boot.
ProvenBootsDidNotChange == tool = "bench-ab" => Ab!ProvenBootsDidNotChange

\* bench-ab.py:1500-1502: a failed protocol ends its arm, never the session.
SessionEnds == tool = "bench-ab" => Ab!SessionEnds

\* docs/POWER.md:103-106: the summary and the exit code tell the same end.
SummaryTellsHowItEnded == tool = "bench-power" => Power!SummaryTellsHowItEnded

\* bench-power.py:107-140: the energy is between nothing and what was drawn.
EnergyWithinReality == tool = "bench-power" => Power!EnergyWithinReality

\* docs/POWER.md:71: a marker is a whole line of the file.
MarkersAreLines == tool = "bench-power" => Power!MarkersAreLines

\* prefill-watchdog.py:253: a restart forgets what was observed before.
ObservationsAreOfOneBoot == tool = "watchdog" => Watch!ObservationsAreOfOneBoot

\* prefill-watchdog.py:294-365: degraded is said of a drop and only of one.
DropIsReportedAndOnlyADrop == tool = "watchdog" => Watch!DropIsReportedAndOnlyADrop
=============================================================================

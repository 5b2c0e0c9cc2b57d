---------------------------- MODULE PowerSampler ----------------------------
(***************************************************************************)
(* The power sampler of the benches (tools/bench-power.py): one loop that  *)
(* samples around a wrapped command, or while watching, and must not lose  *)
(* how the command ended when a signal, the timeout and the end of the     *)
(* command meet; the markers another process appends to a file; and the    *)
(* energy made of the samples under load.                                  *)
(*                                                                         *)
(* The one device draws one watt.  Time is counted in units.               *)
(***************************************************************************)
EXTENDS Integers, Sequences, FiniteSetsExt, SequencesExt

CONSTANTS
  Interval,    \* --interval
  IdleWindows, \* values of --idle-window
  Timeouts,    \* values of --timeout, or of --duration when watching; 0 is none
  MaxGap,      \* MAX_GAP
  Wrap,       \* max_energy_range_uj of a RAPL domain
  Durations,   \* how long the collectors may take for a sample
  Latency,     \* the longest that a timed wait oversleeps
  Lines,       \* the markers another process writes
  Modes,       \* of "wrap" and "watch"
  Signals,     \* of SIGINT and SIGTERM
  MaxTime      \* bound of the clock

VARIABLES
  opts,    \* the options, and the collector that was found
  pw,      \* the sampler: its step, its clock and what it knows
  child,   \* the wrapped command
  points,  \* the samples of the phase "load"
  file,    \* the marker file: its pieces, written so far
  markers  \* the labels recorded

pvars == <<opts, pw, child, points, file, markers>>

None == -1
SigNo(s) == IF s = "SIGINT" THEN 2 ELSE 15
Later(a, b) == IF a < b THEN b ELSE a

----------------------------------------------------------------------------
(* The collectors: what the fields of one sample of a device may be        *)

Drop == {"drop"}                       \* the whole sample is missing

\* NvmlCollector.sample: each getter may fail; with more than one GPU the
\* sample is kept although the power of this one is unknown.
NvmlReads == {Drop} \cup SUBSET {"w", "mj"}

\* SmiCollector.sample: a missing row or [N/A] has no power; no counter.
SmiReads == {Drop, {}, {"w"}}

RaplReads == {Drop, {"w", "mj"}}

Reads == [pynvml |-> NvmlReads, smi |-> SmiReads, rapl |-> RaplReads]

\* RaplCollector.sample: the power since the previous reading, across a wrap.
RaplWatts(t0, t1) ==
  LET delta == (t1 % Wrap) - (t0 % Wrap) IN
  IF t0 = None \/ t1 <= t0 THEN None
  ELSE (IF delta < 0 THEN delta + Wrap ELSE delta) \div (t1 - t0)

----------------------------------------------------------------------------
(* Energy of a phase, from its samples                                     *)

\* The sum of a sequence.
Total(f) ==
  LET upTo[k \in 0..Len(f)] == IF k = 0 THEN 0 ELSE upTo[k - 1] + f[k] IN upTo[Len(f)]

\* trapezoid_energy, of the segments no wider than MaxGap between one sample
\* whose power is known and the next.
Segment(p, q) ==
  IF q.t - p.t > MaxGap THEN 0 ELSE ((p.w + q.w) * (q.t - p.t)) \div 2

Trapezoid(pts) ==
  LET known(k) == {j \in 1..(k - 1) : pts[j].w # None}
  IN Total([k \in DOMAIN pts |-> IF pts[k].w = None \/ known(k) = {} THEN 0
                                 ELSE Segment(pts[Max(known(k))], pts[k])])

Counted(pts) == {k \in DOMAIN pts : pts[k].mj # None}
Delta(pts) == pts[Max(Counted(pts))].mj - pts[Min(Counted(pts))].mj

\* Mutant: a counter that was reset is not noticed.
CounterUnchecked(pts) == IF Cardinality(Counted(pts)) < 2 THEN None ELSE Delta(pts)

CounterEnergy(pts) ==
  IF Cardinality(Counted(pts)) < 2 \/ Delta(pts) < 0 THEN None ELSE Delta(pts)

\* summarize_phase: the counter if there is one, else the trapezoids.
Energy(pts) == IF CounterEnergy(pts) # None THEN CounterEnergy(pts) ELSE Trapezoid(pts)

----------------------------------------------------------------------------
(* The markers                                                             *)

Eol == <<0, 0>>
Pieces(l) == <<(<<l, 1>>), (<<l, 2>>), Eol>>
Written == FlattenSeq([l \in 1..Lines |-> Pieces(l)])

SplitLines(text) ==
  LET ends == SetToSortSeq({i \in DOMAIN text : text[i] = Eol}, <)
      from(k) == IF k = 1 THEN 1 ELSE ends[k - 1] + 1
  IN SelectSeq([k \in DOMAIN ends |-> SubSeq(text, from(k), ends[k] - 1)], LAMBDA l : l # << >>)

\* read_marker_lines: what follows the last newline is kept for the next
\* poll, and the code also puts it in front of what it returns.
ReadMarkers(f, offset) ==
  LET chunk == SubSeq(f, offset + 1, Len(f))
      ends == {i \in DOMAIN chunk : chunk[i] = Eol}
      cut == Max(ends)
      carry == SubSeq(chunk, cut + 1, Len(chunk))
  IN IF ends = {} THEN [labels |-> << >>, offset |-> offset]
     ELSE [labels |-> SplitLines(carry \o SubSeq(chunk, 1, cut)), offset |-> offset + cut]

\* The process that marks prompts.
Write ==
  /\ opts.mode = "watch" /\ Len(file) < Len(Written) /\ pw.step # "done"
  /\ file' = Append(file, Written[Len(file) + 1])
  /\ UNCHANGED <<opts, pw, child, points, markers>>

----------------------------------------------------------------------------
(* The sampling loop                                                       *)

Phase0(o) == IF o.mode = "watch" THEN "watch" ELSE IF o.idle > 0 THEN "idle_before" ELSE "spawn"

Enter(p, phase) == [p EXCEPT !.step = "sample", !.phase = phase, !.tick = p.now]

Init ==
  /\ opts \in [mode : Modes, idle : IdleWindows, timeout : Timeouts,
               backend : DOMAIN Reads]
  /\ LET p == [step |-> "spawn", phase |-> "none", now |-> 0, tick |-> 0,
               until |-> IF opts.mode = "watch" THEN opts.timeout ELSE opts.idle, offset |-> 0,
               previous |-> None, stop |-> "none", result |-> "none",
               rc |-> None, timedOut |-> FALSE, exit |-> 0]
     IN pw = IF Phase0(opts) = "spawn" THEN p ELSE Enter(p, Phase0(opts))
  /\ child = [state |-> "none", rc |-> None, counter |-> 0]
  /\ points = << >> /\ file = << >> /\ markers = << >>

\* one_sample: every collector may be slow, fail, or know no power; then the
\* markers are polled.
Sample(d, reading) ==
  LET t == pw.now + d
      poll == ReadMarkers(file, pw.offset)
      rapl == opts.backend = "rapl"
      point == [t |-> t,
                w |-> IF rapl THEN RaplWatts(pw.previous, t) ELSE IF "w" \in reading THEN 1 ELSE None,
                mj |-> IF "mj" \notin reading THEN None ELSE IF rapl THEN t % Wrap ELSE t - child.counter]
  IN /\ pw.step = "sample" /\ t <= MaxTime
     /\ reading \in Reads[opts.backend] /\ (pw.phase # "load" => "w" \in reading)
     /\ pw' = [pw EXCEPT !.step = "finished", !.now = t, !.tick = @ + Interval,
                         !.offset = poll.offset, !.previous = IF rapl /\ reading # Drop THEN t ELSE @]
     /\ markers' = markers \o poll.labels
     /\ points' = IF pw.phase = "load" /\ reading # Drop THEN Append(points, point) ELSE points
     /\ UNCHANGED <<opts, child, file>>

\* finished(), as each phase defines it.
Poll ==
  CASE pw.phase = "load" -> IF child.state = "ended" THEN "exit"
                            ELSE IF opts.timeout > 0 /\ pw.now >= pw.until THEN "timeout" ELSE "none"
    [] pw.phase = "watch" -> IF opts.timeout > 0 /\ pw.now >= pw.until THEN "over" ELSE "none"
    [] OTHER -> IF pw.now >= pw.until THEN "over" ELSE "none"

\* run_until, after the sample: the phase ends, or the sampler waits for its
\* next tick; when it is late it starts counting anew.
Finished ==
  /\ pw.step = "finished"
  /\ pw' = IF Poll # "none" \/ pw.stop # "none" THEN [pw EXCEPT !.step = "ended", !.result = Poll]
           ELSE [pw EXCEPT !.step = "wait", !.tick = Later(@, pw.now)]
  /\ UNCHANGED <<opts, child, points, file, markers>>

\* stop.wait(delay): a signal ends it early.
Wait(over) ==
  /\ pw.step = "wait"
  /\ LET t == Later(pw.now, pw.tick + over) IN
     \/ pw' = [pw EXCEPT !.step = "sample", !.now = t] /\ t <= MaxTime
     \/ pw' = [pw EXCEPT !.step = "sample"] /\ pw.stop # "none"
  /\ UNCHANGED <<opts, child, points, file, markers>>

Signal ==
  /\ pw.step # "done" /\ pw.stop = "none"
  /\ \E s \in Signals : pw' = [pw EXCEPT !.stop = s]
  /\ UNCHANGED <<opts, child, points, file, markers>>

----------------------------------------------------------------------------
(* The wrapped command                                                     *)

Ends == /\ child.state = "running"
        /\ \E rc \in {0, 1} : child' = [child EXCEPT !.state = "ended", !.rc = rc]
        /\ UNCHANGED <<opts, pw, points, file, markers>>

CounterReset == /\ child.state = "running" /\ child.counter = 0 /\ opts.backend = "pynvml"
                /\ child' = [child EXCEPT !.counter = pw.now]
                /\ UNCHANGED <<opts, pw, points, file, markers>>

\* _terminate_group and wait: a command that ignores SIGTERM gets SIGKILL.
Terminated(c) == IF c.state # "running" THEN {c}
                 ELSE {[c EXCEPT !.state = "ended", !.rc = rc] : rc \in {-15, -9}}

\* The end of idle_before, and Popen.
Spawn ==
  /\ pw.step = "spawn" \/ (pw.step = "ended" /\ pw.phase = "idle_before")
  /\ IF pw.stop # "none"
     THEN pw' = [pw EXCEPT !.step = "final", !.exit = 128 + SigNo(pw.stop)] /\ UNCHANGED child
     ELSE \/ pw' = [pw EXCEPT !.step = "final", !.exit = 2] /\ UNCHANGED child
          \/ /\ child' = [child EXCEPT !.state = "running"]
             /\ pw' = [Enter(pw, "load") EXCEPT !.until = pw.now + opts.timeout]
  /\ UNCHANGED <<opts, points, file, markers>>

\* Mutant: the code of a command that ended as the signal came is not asked for.
LoadEndedForgets == \E c \in IF pw.result = "timeout" \/ pw.stop # "none" THEN Terminated(child) ELSE {child} :
  LET timeout == pw.result = "timeout"
      rc == IF pw.result = "none" /\ child.state # "running" THEN None ELSE c.rc
      code == IF timeout THEN 124 ELSE IF pw.stop # "none" THEN 128 + SigNo(pw.stop)
              ELSE IF rc >= 0 THEN rc ELSE 128 - rc
      p == [pw EXCEPT !.rc = rc, !.timedOut = timeout, !.exit = code, !.until = pw.now + opts.idle]
  IN /\ pw.step = "ended" /\ pw.phase = "load"
     /\ child' = c
     /\ pw' = IF opts.idle > 0 /\ pw.stop = "none" THEN Enter(p, "idle_after")
              ELSE [p EXCEPT !.step = "final"]
     /\ UNCHANGED <<opts, points, file, markers>>

LoadEnded == \E c \in IF pw.result = "timeout" \/ pw.stop # "none" THEN Terminated(child) ELSE {child} :
  LET timeout == pw.result = "timeout"
      code == IF timeout THEN 124 ELSE IF pw.stop # "none" THEN 128 + SigNo(pw.stop)
              ELSE IF c.rc >= 0 THEN c.rc ELSE 128 - c.rc
      p == [pw EXCEPT !.rc = c.rc, !.timedOut = timeout, !.exit = code, !.until = pw.now + opts.idle]
  IN /\ pw.step = "ended" /\ pw.phase = "load"
     /\ child' = c
     /\ pw' = IF opts.idle > 0 /\ pw.stop = "none" THEN Enter(p, "idle_after")
              ELSE [p EXCEPT !.step = "final"]
     /\ UNCHANGED <<opts, points, file, markers>>

\* The finally clause and the summary.
Finalize ==
  /\ pw.step = "final" \/ (pw.step = "ended" /\ pw.phase \in {"idle_after", "watch"})
  /\ child' \in Terminated(child)
  /\ pw' = [pw EXCEPT !.step = "done"]
  /\ UNCHANGED <<opts, points, file, markers>>

Next ==
  \/ \E d \in Durations, reading \in UNION {Reads[b] : b \in DOMAIN Reads} : Sample(d, reading)
  \/ \E over \in 0..Latency : Wait(over)
  \/ Finished \/ Spawn \/ LoadEnded \/ Finalize
  \/ Signal \/ Ends \/ CounterReset \/ Write
Spec == Init /\ [][Next]_pvars

----------------------------------------------------------------------------
(* Properties                                                              *)

\* docs/POWER.md:103-106: however the end of the command, the timeout and a
\* signal meet, the command is over, the summary has its code, and the
\* sampler's own code is that code unless a signal or the timeout cut in.
SummaryTellsHowItEnded ==
  pw.step = "done" =>
    /\ child.state # "running"
    /\ child.state = "ended" => pw.rc = child.rc
    /\ child.state = "ended" /\ pw.stop = "none" /\ ~pw.timedOut => pw.exit = child.rc
    /\ pw.exit = 124 => pw.timedOut

\* Whatever readings fail and whenever the counter is reset, the energy of
\* the load is neither negative nor more than the device drew.
EnergyWithinReality ==
  points # << >> => Energy(points) \in 0..(points[Len(points)].t - points[1].t)

\* docs/POWER.md:71: every line added to the file becomes a marker.
MarkersAreLines ==
  \A k \in DOMAIN markers : \E l \in 1..Lines : markers[k] = SubSeq(Pieces(l), 1, 2)
=============================================================================

# Verification of the GLM-5.3-Flash recipe for two DGX Spark nodes

The repository serves one model on two nodes, a *head* and a *worker*, joined
by ssh and a tensor-parallel link. It has two independent lanes:

* **SGLang** (`src/sglang-nvfp4`): shell scripts around docker compose, with a
  memory guard process beside each rank while the model loads;
* **vLLM** (`src/vllm-exl3`): one long launcher (`start.sh`) and *overlays*,
  Python programs that patch the vLLM sources inside the container when it boots.

This directory has one TLA+ module per modelled component, TLC configurations
that check it on small instances, and TLAPS proofs that do without the small
instance. `PROJECT.json` ties definitions to source lines, properties to runs,
and lists hazards and theorems.

## 1. Inventory

### SGLang lane

| Part | State | Operations | What makes it correct |
|---|---|---|---|
| `start-glm53.sh` | phase, `STARTED`, `READY`; the containers, the PID files | check, `up` worker then head, arm guards, wait, probe, disarm, smoke; an `EXIT` trap that cleans up | a failed start leaves nothing; a running service is never touched; no guard outlives readiness |
| `stop-glm53.sh` | a result code | stop head, its guard, test ssh, stop worker, its guard | "stopped" is true |
| `oom-guard-node.sh`, `start-`/`stop-guard-node.sh`, `scripts/lib.sh` | one process and one PID file per node | loop: health, memory, deadline; `docker stop` | stops only its own container; always ends |
| doctor, `validate-env.sh` | none | probes | read-only |
| prepare / validate checkpoint, DFlash2 image | files | download, verify, build | sequential |
| status, logs, smoke, report, upstream check, long-context bench | none | reporting, measuring | read-only |
| compose file, profiles, examples | static data | | |

### vLLM lane: launcher

| Part | State | Operations | What makes it correct |
|---|---|---|---|
| weights (`start.sh`) | Hugging Face cache, `refs/main`, the worker's copy, the sync marker | adopt, download, fall back, rsync, resolve | both ranks load whole, equal weights |
| images (`start.sh`) | the tag on both nodes, the label `glm53.recipe.stamp` | build, pull, ship | the launched image is the checkout's recipe, and the same on both nodes |
| launch, health, stop (`start.sh`, `stop.sh`) | two named containers | `rm -f`, `run`, poll `/health`, give up | "UP" speaks of this launch |
| configuration, preflight | shell variables | defaults, checks | no state survives it |
| overlay installation (the part of `start.sh` that runs in the container) | the sources in the container | judge a file, patch it, exec the engine | what serves is fully patched; an interrupted installation can be resumed |
| `start-tp4.sh` | as above on four nodes | | as above |
| warm-up, soak, `c4-chunk-ab.sh` | none | drive requests | |

### vLLM lane: overlays

| Overlay | State it adds | What makes it correct |
|---|---|---|
| `patch_adaptive_k` | an acceptance average per request, knobs, an override file's mtime | only captured graph lengths; grammar rows untouched; recovers |
| `patch_scheduler_decode_floor`, `patch_align_floor` | none, inside two scheduler loops | bounded interference with decoding, and no starvation |
| `patch_indexer_workspace` | the size of a locked workspace | smaller, yet indistinguishable from stock |
| `patch_xgrammar_termination` | the cached termination flag | agrees with the matcher and with the output |
| `patch_suppress_stops_in_reasoning` | text and marker state of the detokenizer | a stop string counts exactly after the reasoning |
| `patch_apc_no_store`, `hybrid_prefix_hit`, `apc_per_group_retention`, `sparse_miss_metric`, `cache_reset` | a flag per request, prefix-cache blocks per group | the cache finds what it should, loses nothing in use, and a no-store lane costs no more than it holds |
| `patch_glm5_drafter_group`, `fine_grained_apc`, retention at boot | groups, pages, pool size, retention vector | pages do not overlap, the pool fits, only groups that cannot shorten a hit are kept sparse |
| `exl3` (experts) | slices, tier, scratch, counters | each row is run once, by its expert, in the tier that was resolved at load |
| `patch_kpool_tail_slotmap`, `spinwait`, `auth_all_routes`, `video_placeholders`, `model_overrides`, `ablit` | none, or weights | installed whole |
| `dflash2*`, `qwen3_dflash2`, `glm_eagle3`, CUDA kernels, `ablit_runtime` | weights, tensors | numerical |

### Measuring tools

| Tool | State | What makes it correct |
|---|---|---|
| `scripts/bench-ab.py` | the arm under way, the results, the boot identities | a delta of a report without warnings compares two boots, and each arm one boot |
| `tools/bench-power.py` | the loop, the command it wraps, the marker file, counters | summary and exit code tell the same end; energy is within what was drawn |
| `scripts/prefill-watchdog.py` | snapshots, observations | a restart forgets; a drop is reported, and nothing else |
| `tools/bench-glm53.py`, `bench-long-context.py`, `docs/_run_cold_prefill.py` | none | statistics |

### Interactions

* The operator's terminals run launcher scripts on the head. They share, without
  a lock, the two containers, the image tag, the weight cache and the PID files.
* The head drives the worker through ssh: each remote command may fail, with or
  without its effect.
* Containers, guards and caches outlive the script that made them.
* The registry moves a tag, `git pull` moves the recipe, an operator edits the
  override file: three inputs that change while a script or an engine runs.
* The container patches the vLLM sources it was started with and may die while it
  does; the same container is then started again on the files it left.
* The measuring tools share nothing with the launcher but the engine: it may
  stop, return or be another one between any two of their requests.
* Inside vLLM the overlays run in the engine's own thread, called back from
  `Scheduler.schedule`, `update_from_output` and `update_draft_token_ids`; the
  order of the calls is the engine's.

### What is hard here

Interleaving: two scripts, two guards, crashes. Partial failure: ssh and docker
commands that fail after the effect. Stale state: images, markers, refs, PIDs,
override files. Timeouts: readiness, guard deadline, probes. Crashes: a launcher
that dies between any two steps, a container that dies between two writes. Boundaries: chunk sizes, ladders, workspace
limits. Liveness: starvation of a prefill, lock-in of a trimmed request, a guard
nobody disarms. `PROJECT.json` lists each at its line.

## 2. Modules

| Module | Extends / used by | Component |
|---|---|---|
| `Bringup` | `MCBringup`, `Bringup_proofs` | SGLang start, stop, guards |
| `WeightStore` | `VllmStart`, `VllmStart_proofs` | vLLM weights |
| `VllmLaunch` | `MCVllmLaunch`, `VllmStart`, `VllmStart_proofs` | vLLM images, launch, health, stop |
| `VllmStart` | extends `VllmLaunch`, instance of `WeightStore`; `MCVllmStart`, `VllmStart_proofs` | one `start.sh start`: weights, then launch |
| `AdaptiveK` | `MCAdaptiveK`, `AdaptiveK_proofs` | adaptive verification length |
| `MixedPrefill` | `MixedPrefill_proofs` | decode floor and align floor |
| `IndexerWorkspace` | `EngineParts` | indexer workspace |
| `CommonLemmas` | five of the proof modules | minimum, maximum, division, step by step, sums, sequences, places in a set |
| `PrefixStore` | implemented by `PrefixCache` | what the prefix cache promises |
| `PrefixCache` | `MCPrefixCache`, `PrefixCache_proofs` | no-store, drafter window, retention, reset |
| `KvPlan` | `EngineParts` | drafter group, pool, coordinator at boot |
| `StructuredOutput` | `EngineParts`, `EngineParts_proofs` | grammar termination, stop strings |
| `Exl3` | `EngineParts` | routed experts |
| `EngineParts` | extends `IndexerWorkspace`; `MCEngineParts`, `EngineParts_proofs` | the indexer workspace and the three above, one at a time |
| `OverlayBoot` | `MCOverlayBoot`, `VllmStart_proofs` | overlay installation |
| `BenchAb`, `PowerSampler`, `PrefillWatch` | `Measurement` | measuring tools |
| `Measurement` | `MCMeasurement`, `Measurement_proofs` | the operator runs one of them |

Components meet only through what one hands the other: `VllmStart` puts
`WeightStore` before the launch, which begins where it ends, and the engine
modules are inside a container that is up, which is where `OverlayBoot` ends.
`EngineParts` and `Measurement` put parts that share no variable beside each
other: a behaviour is one of one part, and what rests keeps an initial state or
an empty one. A property of a part is then stated under the condition that the
part runs. Operators under a comment `Mutant:` are small faults of the code that
the properties are known to detect; no specification uses them.

`TypeOK` of `AdaptiveK`, `IndexerWorkspace`, `Bringup`, `MixedPrefill`,
`VllmLaunch`, `PrefixCache` and `WeightStore` states the types of the variables;
all are proved to be invariants, that of `WeightStore` as a part of `StoreInv`.

### Bringup

`pc[s]` is where run `s` of the start script stands; the stages up to
`checkWorker` are before `STARTED=1`, so `Fail` ends them at once, and a failure
of a later one enters the four commands of `cleanup_failed_start`, each of
which runs whatever the others did. `cont[r]` names the container of rank `r` by
the run that created it, since every `up` recreates it and a guard stops the
exact id it read. `proc` and `pidFile` keep guards apart from the file that
names them: the file may be stale, unreadable, or name another program.
`stops` holds `docker stop` commands in flight, which survive the guard that
issued them. `stop` is the one run of `stop-glm53.sh`. `api` says that the head
answers; the loss of the head takes it along. A signal (`Interrupt`) skips the
cleanup, as bash's `$?` in the trap is 0 then. `botched` and `stop.alone` are
history variables.

### WeightStore

`head[p][r]` is the set of files of commit `r` of repository `p` in the head's
cache, `worker` its copy; `newest` is what `ls -1t` lists first; `ref` is
`refs/main`; `marker` is the commit the worker was last synced at. A start has a
pinned commit and `REFRESH_WEIGHTS`, `SKIP_DOWNLOAD`, `FORCE_SYNC`. Files arrive
one at a time and in any order, and `End` may end the process anywhere. As in the
code, completeness is a *count* over all snapshots and `refs/main` may name a
snapshot other than the one counted. Copies of a file are whole: rsync and the
Hub client rename a finished file into place.

### VllmLaunch

One shell is a terminal; `pc[s]` is the stage of its invocation, `inv[s]` its
number, command and environment, `loc[s]` and `poll[s]` the locals of
`ensure_image` and `wait_for_health`. An image has the recipe it was built from,
where it came from, and whether it carries a repository digest, because
`images_match` compares digests when there are any and layers otherwise. A
container carries the invocation that ran it. Assumptions: the registry only
moves forward; a pull or a build is atomic; an inspection of the *head* does not
fail; `/health` of a serving head answers; rank 0 holds `MASTER_PORT` from the
time it loads, and `ss` sees it.

### AdaptiveK

One engine iteration is `Schedule`, `Observe` for each drafted row, `Advance`
(the step counter, the reload and the prune) and `Draft` (trim and hand out the
new drafts): the order of the callbacks in a synchronous engine. An average is an
integer in units of `1/Scale` token, and where the exact mix falls between two
units both are allowed. `file` is the override file with a modification time;
the policy polls it every `ReloadEvery` steps, and a file that fails to parse in
its last field has already changed the others. The environment may add, abort
and structure requests, and accepts any number of drafts not below `MinAccepted`.

### MixedPrefill

One turn of either loop of `schedule()` is a step, because the policy reads
`self.running` while the loops change it. `RunTurn` applies the threshold, the
budget, the cap and the aligned split in the source's order; `WaitSkip` and
`WaitAdmit` are the two outcomes at the head of the queue; `EndWait` puts the
skipped ones back. `Preempt` models lack of blocks and `Hits` any block-aligned
prefix-cache hit. A decode row costs one token; the drafts it also verifies are
left out.

### IndexerWorkspace

`Sizing` and `Builder` run at boot; `Admit` forms any batch the scheduler may
form; `Split` advances two copies of `split_prefill_chunks` in lockstep, one on
the stock size and one on the allocation. `ChunkListIsStock` is therefore a
refinement statement in invariant form: each turn of the narrowed splitter is a
turn of the stock one.

### PrefixStore and PrefixCache

A prompt is a sequence of *segments*, the tokens at which all groups align; a
segment costs each of three groups (MLA, Mamba, the drafter's sliding window) one
block. `PrefixStore` has only a set of checkpoints: a request resumes at the
longest prefix with an unbroken run of MLA checkpoints and a Mamba state, what
running requests work on is never forgotten, a request that must not store adds
nothing. `PrefixCache` has blocks with hashes and reference counts, the queue of
free blocks with its two ends, block tables, the loop over groups in
`find_longest_cache_hit` with the overlay's exemption of the drafter, the strict
flag parser and its two sources, admission of new and of preempted requests, and
the reset endpoint. `ImplementsPrefixStore` is the refinement: `store` is the set
of hashes in the pool without the drafter's, `held` the part of them that some
table names. vLLM's own pool and queue are external and modelled from how the
overlays use them. `lost` and `peak` are history variables.

### KvPlan

One boot: the drafter's block and page (`Groups`), the layout and the pool
(`Layout`), the coordinator (`Coordinate`). Bytes are real, divided by sixteen.
Each step may end the boot (`dead`, an error of the code) or hand it to the
generic code (`generic`).

### StructuredOutput

One request with an output of tokens; `Language` is what the grammar accepts,
`Text` what a token reads. Drafts are offered, validated and rolled back as the
bitmask loop does, then accepted; the detokenizer sees every accepted token and
looks for the marker in pieces.

### Exl3

Loading a layer (`CreateWeights`, `LoadShard`, `ProcessWeights`) and running a
batch (`Apply`). What is computed is left out; which rows each expert was run on,
and at which place of which launch, is kept in `done`. `setup` holds what the
environment, the image and the checkpoint say; a batch is `TopK` rows for each
of its tokens, one per choice of the router.

### OverlayBoot

A file is the sequence of its edit sites; a site has the pinned text, the
overlay's, an older overlay's, upstream's own fix, or nothing (past the end of a
truncated file). `Verdict` is one record per installer: may it go on, and which
sites will it write; each is translated from that installer's own tests, so the
differences between them (all-or-nothing, marker only, per file, migration) are
those of the code. `Judge` decides and `Write` writes one file of those still
`staged`, in the installer's order (`Turn`); `Die` loses what was not renamed,
`Tear` cuts a file that is written in place. The replacement texts are left out.
`Fragments` says what one write lays into a file, a site's text never without
the helpers it calls. An image is made by such writes and by upstream, so that
it carries whole fragments, of some overlays or of all (`OverlayBootAssumption`).

### BenchAb, PowerSampler, PrefillWatch

`BenchAb` has one step per stage of an arm; the engine may stop and return, at
most `MaxTroubles` times. `PowerSampler` has a clock: a collector takes time, a
wait may oversleep; the command, the timeout, a signal and the other process
that appends to the marker file are independent. `PrefillWatch` has an engine
that serves prompts at one of two speeds and may restart; a scrape sees its
counters, and may lack the start time or the histogram.

## 3. Runs

| Run | Instance | Shows |
|---|---|---|
| `adaptive_k` | 2 requests, ladder of 3 rungs, 3 boot switches, 1 override write, fairness | captured rows, grammar pin, no amnesia, recovery of a lone request |
| `bringup` | 2 starts in sequence, 1 signal, 3 faults, 2 PIDs | clean failures, no armed guard at readiness, a served deployment survives a second start |
| `bringup_stop` | 1 start against 1 stop, 1 signal, 2 faults, fairness | the report is true, starts end, guards end |
| `mixed_prefill` | 3 requests, 2 lanes, caps off / skip / 1, 1 preemption, fairness | cap respected, no stall, everyone finishes |
| `vllm_launch` | 2 terminals, 3 invocations, 5 environments, 2 faults | UP is this launch, one image |
| `weight_store` | 2 repositories, 2 shards, 4 starts | launched weights are whole on both nodes |
| `prefix_cache` | 2 slots, 3 prompts of 2 and 3 segments, 8 blocks, 3 requests | blocks accounted for, a no-store lane costs its peak, `PrefixStore` is implemented |
| `engine_parts` | four parts, see below | workspace equal to stock and never overrun; pages, pool, retention, partial hits; grammar, no failure, stop strings; rows, tier, shards |
| `overlay_boot` | 8 images, 8 environments, head and worker, 2 deaths | what serves is patched; refusals only over truncated files |
| `measurement` | 2 arms of 2 benches and 2 troubles; a clock of 6 units; 5 scrapes and 1 restart | the reports of the three tools are true, a session ends |
| `bringup_interrupt`, `power_markers` | the smallest that suffices | a counterexample each, see below |

**Why the bounds are enough to be interesting.** In `adaptive_k` the ladder
{1, 2, 4} has a rung to fall to and one to climb over, and the override sets
lie partly and wholly outside it; two requests are enough for one row to decide
the width of another. In `bringup` three faults cover the loss of a link plus a
failed cleanup plus a crash, and two sequential starts make every leftover of
the first an input of the second; two PIDs make a stale guard and a new one
coexist. In `mixed_prefill` three requests and two lanes let a prefill be
skipped while another waits and a third decodes, the block (2) is larger than
the cap (1), and the threshold is once above and once off. In `vllm_launch`
three invocations allow an interrupted launch, a second one and a stop; two
faults allow one failed `rm -f` per rank. In `weight_store` four starts allow a
partial download, a sync of it, a refresh and a skip.

In `prefix_cache` two running requests need more than the eight blocks there are,
so admission waits, requests are preempted and cached blocks are evicted; the
three prompts are one, its follow-up and one that shares its start. In
`engine_parts`: for the indexer, batches of three rows with four tokens, ratio 4
narrows the allocation, ratio 2 is clamped to stock, and the logits budget is
such that either bound may close a chunk; for the plan, the deployed MLA and
drafter formats and blocks for which an exact fit exists and does not, drafters
with more layers than MLA, every subset of the coordinator overlays, retention
values that are unset, malformed, off, aligned, misaligned and too large; for the
output, five tokens, accepted up to three at a time (two drafts), so that drafts
cross the end of the reasoning and of the grammar, with tokens that spell the
marker without being it; for the experts, two of them on this rank and a third
elsewhere, batches of two and three tokens against a launch of one and of two
rows, images that lack each kernel, and sizes that one to four ranks do and do
not divide. In `overlay_boot` two deaths are enough for an installation to be
interrupted, and its resumption too. In `measurement` two troubles are a stop of
the engine and a failed request, or two stops; six units hold an idle window, a
load with a timeout and a window after it.

**Deadlock.** `CHECK_DEADLOCK FALSE` where the system really stops: scripts end,
requests are all served, invocations are used up, a boot is refused, a report is
written. `AdaptiveK` cannot stop and is checked for deadlock.

**Fairness.** `AdaptiveK!FairSpec` and `MixedPrefill!LiveSpec`: weak fairness of
the engine's steps, which loop as long as there are requests; arrivals, aborts,
file edits and preemptions get none (preemptions are bounded, as endless
preemption is a matter of cache size). `Bringup!Fairness`: weak fairness of each
script and guard, which are running processes; strong fairness of
`GuardTimeout`, because the guard's clock advances with every loop and so the
deadline cannot be missed forever; nothing for faults, signals, the link, the
model load or the operator. `BenchAb`: weak fairness of the harness, a sequential
program whose requests and commands have timeouts; none for the engine. The other
specifications state safety only.

**Constraints of the instances.** `weight_store` has one commit per repository:
with several, the count over all snapshots lets two partial ones pass for one
(`start.sh:554`), and `refs/main`, which outlives a change of `MODEL_REVISION`
(`start.sh:559`), decides which is loaded; and no start sets `SKIP_DOWNLOAD`,
which by design skips the count. `bringup` runs starts one after the other: two
that overlap do clean up each other's containers, which no document rules out.
In `vllm_launch` one terminal starts and the other stops. `measurement` compares
two arms (see 7 below), its scrapes have the prompt counter (see 8), and the
marker file has one line. `prefix_cache` sets the retention of the drafter to 0,
the value the coordinator resolves for the deployed geometry.

### Disagreements found

The first two have a run of their own.

1. `bringup_interrupt`: a signal ends the start script with `$?` = 0 in the trap
   and the ranks keep running (`start-glm53.sh:45`).
2. `power_markers`: a poll of the marker file that finds a whole line and the
   beginning of the next puts the beginning in front of the whole line
   (`bench-power.py:588`), so a label is recorded that no line of the file has.

The others follow from the modules as they stand (the actions are in the model,
and no property of the runs denies them), or were met while reading.

3. The adaptive policy's override file can switch the policy off but never on
   again, since the only poll of the file sits behind the enabled flag
   (`patch_adaptive_k.py:395`).
4. Disarming a guard kills it but not its `docker stop`, which then takes the
   announced service down (`lib.sh:294`; variable `stops`).
5. The image built from the checkout is replaced by the registry's on the next
   start (`start.sh:886`, against `REFERENCE.md:591`): `BuildWanted` is evaluated
   once, before `Pulls`.
6. The re-run with `REFRESH_WEIGHTS=1` that the launcher asks for completes the
   head only, since the marker still matches (`start.sh:1110`).
7. `bench-ab.py:525` warns only if *all* arms share a boot: of three, two may share
   one and the report is quiet, against `:48-51`. With `NumArms = 3`,
   `QuietReportIsSound` is violated. Two arms named `a` and `a-` share their
   artifact paths.
8. `prefill-watchdog.py:246` skips a pair of snapshots without a prompt counter
   before it compares process start times, against the comment at `:253`.
   Without the histogram it falls back to wall time and reads idleness as a drop.
9. `bench-power.py`: only the leader of a process group is waited for before
   escalation (`:1425`, against `docs/POWER.md:104`); a device without readable
   watts gets energy 0 (`:757-764`); an `--interval` above `MAX_GAP` (up to 30 is
   allowed) leaves no segment for the trapezoids (`:40-41`); a marker file that is
   truncated and grows past the old offset loses lines.
10. `exl3.py` asks for the pipeline's symbols only in the first prefill
    (`:852-863`) although missing symbols are to fail at load (`:260`);
    `LoadDecidesTheTier` states the exception.
11. Installers that trust their marker (`suppress_stops`, `decode_floor`,
    `drafter_group`, `hybrid`, `retention`) write in place and accept a file that
    was truncated after the marker, which `patch_align_floor.py:118-121` itself
    warns of; `ServedMeansPatched` states the exception.
12. A switch that turns an overlay off at boot does not take it out of an image
    that carries it; `patch_indexer_workspace.py` runs from the image only, so an
    older image ignores `GLM53_INDEXER_WORKSPACE`. The fine-grained overlay must
    run after the hybrid one, whose helper it leaves out.
13. `patch_glm5_drafter_group.py:45` speaks of an exact fit the deployed numbers do
    not have, and `:52` of a layout that is never produced.
14. A `stop` whose ssh to the worker fails still prints that it stopped
    (`start.sh:1782`, against `stop.sh:4`).

## 4. Proofs

All are checked by `tlapm` with Z3, Zenon and LS4, from the named assumptions of
the modules, which say no more than that the constants are sets and numbers of
the right kind.

**`AdaptiveK_proofs`.** `TypeCorrect` is inductive by itself; the work is in the
arithmetic (`ObservedRange`: a mix of two values in a range, rounded either way,
stays in it) and in the choice (`ChooseRange`, `WidthRange`: the chosen rung is
captured or is the row itself, and the candidates are never empty).
`CapturedRows`, `StructuredPin` and `BootOff` (which no run checks) follow from one inductive invariant
`RowsInv`: the three properties and the fact that a policy which was off at boot
is still off. They are proved together because one lemma on `Draft`
(`DraftCases`) says what a draft step does to every row: it leaves it whole or
cuts it to a rung, and it leaves all rows whole when a structured one was drafted
or the policy is off. `ForgettingIsAReload` is an action property: a step that drops
the average of a request which goes on is the reload of a changed override file,
since the prune keeps what was seen in the last step (`ObservedIsSeen`).

**`EngineParts_proofs`, the workspace.** `ChunkListIsStock` is not inductive: it needs that the smaller workspace
never closes a chunk the stock one would have kept open. `IInv` adds
`Admission` (each row costs a token, so there are at most as many rows as
tokens), `Rows` (a row has at most `PerReq` entries), `Sized` (once the builder
has accepted it the allocation is the stock size, or the legal maximum at the
ratio the runtime uses) and `Packed` (an open chunk of *j* rows has at most *j*
times `PerReq` entries, and the two copies are equal). Then the workspace test has
the same answer on both sizes and the two copies take the same branch. `NoOverrun` is the same bound read at
the closed chunks. The arithmetic is in `PackingStep`, `MoreRows`, `SizesFit` and
`SpanFits`. The assumption used is
`MaxModelLen + NumSpec <= StockMultiplier * MaxModelLen`: with 40 the drafts
would have to be 39 times the context.

**`EngineParts_proofs`, the plan of the cache.** `PlanInv` has four parts: the
types of what a boot has computed so far (`PlanTyped`), what the drafter's
block and page are (`DraftSet`), what the pool is (`PoolSet`) and what the
coordinator resolved (`VectorSet`); each is stated for the stage of the boot
at which it becomes true. `PagesDoNotOverlap` needs that a block which fits
*exactly* divides MLA's page (`Exact`), and that one which does not is a power
of two found by halving, so that the kernel's block divides it too
(`KernelBlocks`). `PoolHoldsARequest` is a bound on a quotient (`Quotient`): the pool
is what the memory holds, and a boot whose pool is below what one request needs
does not go on. `OnlyTheExemptIsSparse` and `PartialHitsAreSupported` relate the
retention vector and the partial-hit flag to the groups they were resolved
from. From `PlanAssumption`: the numbers of a geometry are naturals, and those
the code divides by are not 0.

**`EngineParts_proofs`, the experts.** `RanksHoldTheExpert`: the slices of the
ranks are disjoint and together the expert, for every size and number of ranks;
`SlicesSet` says of each loaded slice where it begins (`Dealt`), and
`SharesAre` that equal shares meet without a gap. `TierIsDecidedAtLoad` is not
inductive: that each batch runs in the tier of the load needs that the
environment it reads again is the one the load read (`TierStays`), and that
the counters add up (`Counted`) whatever way a batch took: a plain call, the
thin path, tiles, a run of any tier, or a run that raised. `EveryRowIsRunOnce`
compares five ways of finding the rows of an expert with one: a row has a
place among the rows of its expert (`Rank`), the sort puts it there
(`SortedIs`), and a launch, a tile (`TileIs`), a slice through the scratch
(`ScratchHolds`) or the loop (`LoopRuns`) each run a known range of places; two
of them together run all rows when their experts are disjoint
(`RunsTogether`). The invariant `RowsInv` adds that the scratch, which survives
from layer to layer, is a size. From `ExpertsAssumption` and, for the rows,
`RouterAssumption`: an expert map has an entry for each of the router's experts
and no local number twice, and a token is not routed to one expert twice.
Both are needed: the loop takes a number outside the map for a local one where
the sort drops it, and a batch of as many tokens as a launch holds goes to the
kernel without looking for fat experts (`FewTokens`).

**`EngineParts_proofs`, the constrained request.** `MatcherFollowsOutput` and `DraftsNeverFail` rest
on one invariant, `OutInv`. Between two steps the matcher's word is the part of
the constrained output up to its end or to where it became complete (`Follows`),
it is empty before the reasoning ends (`Idle`), its flag and count agree with it
(`Sound`), and the drafts are what `validate_tokens` left, so that the matcher takes them one
after the other (`DraftsFit`). The bitmask loop is a recursive function of the
drafts. `After` says where it stands behind each of them: ahead of the matcher
by the tokens it counted (`Ahead`), with one row for every place it has been,
and without an error. So the rollback at its end gives the matcher back
(`Rolled`), and a prefix of drafts that the rows let through, with one token
more, is what the matcher takes (`StepAccepts`): the loop and `accept_tokens`
walk the same path from the end of the reasoning on. `StopsCountAfterReasoning` has an invariant of
its own (`StopSound`). What ends in the text before a step ends there behind it
(`EndKept`), and a search that looks back one character less than the string is
long finds exactly what ends behind the old text (`LookBack`); so the marker
that the request remembers is the first, and no stop string is missed or found
twice. From `OutputAssumption`: a grammar accepts no empty output (the last
token of what it accepts is EOS), a text is a sequence of characters, and the
marker and the stop strings are not empty.

**`VllmStart_proofs`, the weights.** `LaunchedWeightsAreWhole` states the launch invariant
under the same restriction as the run, one commit per repository; then the count
of shards is the cardinality of one subset of `Shards` (`CountIsComplete`) and
equality of cardinalities gives the whole set. `StoreInv(r)` further says that what a start has adopted is whole on the head
(`HeadReady`), that past the sync it is whole on the worker (`WorkerReady`), and
that a marker promises every shard on the worker (`Marked`), which is what makes
a skipped rsync safe. The theorem also assumes that no start sets
`SKIP_DOWNLOAD`, which skips the count; without either restriction the statement
is false. From `WeightStoreAssumption`.

**`VllmStart_proofs`, the launch.** `WhatIsUpWasLaunched` (what a launch reports as up is
what that launch ran) and `RanksShareImage` (both ranks that are up run one image) are
proved with the types, for any number of invocations and any sequence of failed
commands and signals. The invariant has one part per fact that a launch relies on:
every terminal but its own only stops (`Starter`), only an image that came from a
registry carries a digest (`Digests`, which is what lets `images_match` compare
digests), what `ensure_image` found or left behind (`Provided`: unless shipping is
skipped, both nodes hold the same content under the tag), and where its containers
are (`Own`, `Launched`: one on a node is gone, or was made by this launch from that
image). The hypothesis is that of the run:
one terminal starts and the other only stops. Two launches that overlap replace each other's
containers, and no lock or document excludes them.

**`VllmStart_proofs`, the overlays.** `EveryOverlayIsServed` and
`RefusalsAreOfTornFiles`, for every image, environment, role and number of deaths, from one
invariant, `BootInv`. A file that no death has truncated is valid Python and made of
whole fragments of the forms a site can have (`Sound`). What the installer at work
has decided to write fits the text it read, and still does when some of its files
are written and others are not (`Fits`, `Pending`). Every installer that has had its turn has
left all that it wants (`Installed`), which no later one undoes, and the
busy-wait line is the stock one or the wanted one (`SpinIsWanted`). One lemma
per installer (`...Apt`) shows that on such a text it does not refuse, and that what it
leaves or writes is all that is wanted; so the order of the installers and the differences
between their tests matter only there. From `OverlayBootAssumption`.

**`PrefixCache_proofs`.** For any requests, prompts, pool and retention.
`BlocksAreAccountedFor` rests on `PoolOk`: every block is in the queue once, or
held by as many requests as its reference count says, and in the queue those
without a hash come first; and on `RowOk`: a row of the table names a block
once, and only blocks with the checkpoint of their own place. Each operation of
the pool has a lemma on the queue and the holders (`TakeOk`, `TouchOk`, `FreeOk`, `GrowOk`), each
action one on the rows. `NoStoreIsCheap` adds `CostOk`: what a lane that stores nothing has evicted is at
most the number of blocks without a hash, which it leaves behind when it ends,
and at most its peak; a block with a hash is evicted only when no other is
free. `PromiseKept` is the refinement of `PrefixStore`, step by step. The hit is the only hard
part: a pass over the groups brings it to a place where all of MLA's run and the
Mamba state are found, or makes it shorter, and skips no such place (`PassIs`, `ReconcileIs`),
so that the passes end at the one that `PrefixStore` names (`HitIsResume`). From
`PrefixCacheAssumption`.

**`MixedPrefill_proofs`.** `PrefillBesideDecodeIsCapped` and `OnlyThePolicyStalls`
are about what one pass of the two loops has handed out when it ends. The loops
take from `running` and from the queue while they change them, so the work is in
showing that what was picked is in order, without repetition, and apart from
what is still to be picked (`Picks`, `Once`, `Apart`); with this a request that
got no tokens was passed over by the policy, and a prefill that got more than
the cap had no decoding request beside it.

**`Bringup_proofs`.** `TheReportIsTrue` (a stop that reports success left no
container and no guard of its own) holds without restriction. `FailureIsCleanedUp`,
`AnnouncedMeansDisarmed` and `ServiceSurvives` assume that starts do not overlap
(`~Overlap`), since two that do clean up each other's ranks. `IInv` adds to the types
that every live guard is the one its PID file names (`Named`); and, without
overlap, that one start at most is under way (`OneStart`), the head's
container behind the first "already running" test is down or that start's own
(`HeadIsMine`), what a start has disarmed stays disarmed until it announces
(`Disarmed`), a failed start has removed its containers and guards stage by stage,
unless a command of the cleanup failed (`Cleaned`), and nothing that a stop has
taken down comes back while that stop is alone (`StopSound`).

**`Measurement_proofs`.** `ObservedBootsAgree`: the observations so far are of the
boot of the last snapshot, since a scrape either finds that boot again or forgets
them (`ObserveKeepsOneBoot`). `TheSummaryIsTrue`: there is no command before the phase `load`
(`NotSpawned`); that phase ends because the command is over, or by the timeout or a
signal (`Loaded`); and behind it the command is over and its code is the one recorded (`Told`),
whatever signals come later. `ReadingsProveTheBoot`: the boots of the engine only go up, and
`UnderWay` orders the boots that an arm has seen (first reading, warmup, benchmarks, engine), so two equal
readings leave no room between them. `QuietReportsCompareBoots` reads the absence
of warnings backwards: none is missing or read from the host, none changed, and
they are not all one boot. It is stated for at most two arms, like the run; of three arms two
may share a boot without a warning. `EnergyIsReal` relates the readings to the clock
(`SamplerInv`): they are taken one after the other, no power is above what the
device draws, and a counter lags behind the clock by what it had lost to resets
(`Drawn`). So the trapezoids add up to no more than the time (`TrapezoidBound`, a sum
bounded place by place), a counter that was reset between two samples shows it by a
fall or lost energy (`CounterBound`), and one that wraps rises by no more than the time
once the wrap is made good (`WrapRise`). `ADropIsADrop`: while the engine has not
restarted, an interval's tokens per second are those of its speed, whatever the
load was (`AtSpeed`, `ObserveAtSpeed`), and a median of equals is their value
(`MedianOfEquals`); so the verdict, once given, is that of the two windows
(`AnalyzeIs`, `Judged`). From `MeasurementAssumption`: the benchmarks are
registered ones and the windows hold a sample, which the command lines enforce
(`prefill-watchdog.py:619-624`), a counter has a range, and times are naturals.

**Recursion.** The induction theorems of the library take an operator as a
parameter, which the provers cannot instantiate. `CommonLemmas` states what is
needed of them without one: `UpTo`, where the induction hypothesis is membership in a
set, `Iterated`, by which a function defined from its value before exists
and has a type, and `Summed`, the same for sums. With them the recursive functions of `StructuredOutput` and `Exl3` are reasoned about
step by step.

**Only model-checked.** The markers of the power sampler, which fail, and all
liveness, since fairness and `ENABLED` are out of the prover's reach. Every
other property of a passing run is stated by a theorem.

## 5. Not modelled, and the plan

Numerical code (CUDA kernels, ablation arithmetic, drafter networks), static
configuration, image recipe, chat template, stateless measurement clients and
read-only reports are left out: they have no control state, or what matters in
them is a number no model checker can judge. Of `exl3.py` the dense linear layer
is left out, of the measuring tools HTTP, sensors, statistics and the layout of
reports, of the installers the replacement texts. The checkpoint and DFlash2
preparation are sequential programs over file contents. The four-node launcher
repeats the stages of `VllmLaunch` over four nodes. Each part is listed in
`PROJECT.json` with its reason.

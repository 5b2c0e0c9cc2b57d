----------------------------- MODULE AdaptiveK -----------------------------
(***************************************************************************)
(* The adaptive verification-length policy of the vLLM lane                *)
(* (overlay/patch_adaptive_k.py): class _Glm53AdaptiveK and the two hooks  *)
(* it installs in the scheduler.  DFlash2 drafts K tokens for every        *)
(* request; the policy trims the verified prefix of every row in the batch *)
(* to one width, from an exponential moving average (EMA) of how many      *)
(* drafts each request accepted.  A JSON file may override the knobs while *)
(* the engine runs.                                                        *)
(*                                                                         *)
(* One engine iteration is Schedule, then update_from_output (Observe for  *)
(* every drafted row, Advance), then update_draft_token_ids (Draft), which *)
(* is the order of a synchronous engine core.  EMAs are integers in units  *)
(* of 1/Scale token; a mix that falls between two units is rounded either  *)
(* way, so the model allows every rounding the floats could produce.       *)
(***************************************************************************)
EXTENDS Integers, FiniteSets, FiniteSetsExt

CONSTANTS
  Requests,     \* slots for live requests (max_num_seqs)
  K,            \* draft length of the drafter (7 on this image)
  BootSet,      \* GLM53_ADAPTIVE_K_SET at boot
  SetBound,     \* an upper bound of the boot set
  BootParams,   \* the numeric knobs at boot
  Knobs,        \* boot switches: [enabled, batchMargin, posTrim]
  Configs,      \* contents the override file may be given
  Scale,        \* EMA units per token
  AlphaDen,     \* denominator of every alpha
  StepCap,      \* observation counts saturate here, above every minSteps
  ReloadEvery,  \* steps between polls of the override file (50)
  HistEvery,    \* steps between histograms and prunes (200); 0 disables
  StepPeriod,   \* steps is kept modulo this common multiple of both
  MaxWrites,    \* bound on the number of writes to the override file
  MinAccepted   \* workload: fewest drafts of each request the target accepts

KMax == Max(BootSet)

Params == [alpha : 0..AlphaDen, margin : Nat, minSteps : 0..StepCap,
           saturate : BOOLEAN]

\* What a read of the override file does: it parses, it is not JSON at all
\* ("parse"), or its "set" entry is malformed after the other fields were read.
Faults == {"none", "parse", "set"}

ConfigType == [enabled : BOOLEAN, params : Params, hasSet : BOOLEAN,
               set : SUBSET Int, fault : Faults]

ASSUME AdaptiveKAssumption ==
  /\ K \in Nat \ {0}
  /\ BootSet # {} /\ SetBound \in Nat /\ BootSet \subseteq 1..SetBound
  /\ Scale \in Nat \ {0} /\ AlphaDen \in Nat \ {0}
  /\ StepCap \in Nat \ {0}
  /\ BootParams \in Params
  /\ Knobs \subseteq [enabled : BOOLEAN, batchMargin : BOOLEAN, posTrim : BOOLEAN]
  /\ Configs \subseteq ConfigType /\ Configs # {}
  /\ ReloadEvery \in Nat \ {0} /\ HistEvery \in Nat /\ StepPeriod \in Nat \ {0}
  /\ StepPeriod % ReloadEvery = 0
  /\ HistEvery > 0 => StepPeriod % HistEvery = 0
  /\ MaxWrites \in Nat \ {0}
  /\ MinAccepted \in [Requests -> 0..K]

VARIABLES
  phase,     \* where the engine iteration stands
  status,    \* of each request: absent, prefill, decode, grammar (decoding
             \* while the structured-output grammar advances)
  spec,      \* len(request.spec_token_ids)
  sched,     \* len(scheduled_spec_token_ids) of the step in flight
  drafted,   \* length of the last draft before the policy touched it
  ema,       \* state[req_id] = [ema, observed_steps]; obs = 0 when unseen
  policy,    \* enabled, numeric knobs and k_set, which a reload may change
  knobs,     \* switches read once at boot
  steps,     \* steps modulo StepPeriod
  file,      \* the override file: mtime (0 when there is none) and contents
  fileMtime, \* mtime the policy last saw
  writes     \* writes of the override file so far

vars == <<phase, status, spec, sched, drafted, ema, policy, knobs, steps, file,
          fileMtime, writes>>

Unseen == [val |-> 0, obs |-> 0]
Forgotten == [r \in Requests |-> Unseen]

Live == {r \in Requests : status[r] # "absent"}
Structured(r) == status[r] = "grammar"

----------------------------------------------------------------------------
(* observe: the EMA of one request after a verified step.                  *)

MixDown(p, obs, prev) ==
  (obs * p.alpha + prev * (AlphaDen - p.alpha)) \div AlphaDen
MixExact(p, obs, prev) ==
  (obs * p.alpha + prev * (AlphaDen - p.alpha)) % AlphaDen = 0
Mixes(p, obs, prev) ==
  {MixDown(p, obs, prev)} \cup
    IF MixExact(p, obs, prev) THEN {} ELSE {MixDown(p, obs, prev) + 1}

\* Mutant: a fully accepted row counts its own, possibly trimmed, length.
ObservationUnsaturated(p, numDraft, numAccepted) == numAccepted

Observation(p, numDraft, numAccepted) ==
  IF numAccepted >= numDraft /\ p.saturate
    THEN Max({KMax, numDraft}) ELSE numAccepted

Observed(p, st, numDraft, numAccepted) ==
  {[val |-> v, obs |-> IF st.obs < StepCap THEN st.obs + 1 ELSE StepCap] :
     v \in Mixes(p, Scale * Observation(p, numDraft, numAccepted),
                 IF st.obs = 0 THEN Scale * KMax ELSE st.val)}

(* choose: the draft length for one row of length k; 0 stands for None.    *)

NoPick == 0
CeilDiv(a, b) == (a + b - 1) \div b
Target(p, st) == CeilDiv(st.val + p.margin, Scale)

\* Mutant: a grammar-validated row gets a pick like any other.
ChooseIgnoringGrammar(pol, st, k, structured) ==
  LET cands == {v \in pol.kset : v <= Target(pol.params, st) /\ v <= k}
      n == IF cands # {} THEN Max(cands) ELSE Min(pol.kset)
  IN  IF st.obs = 0 \/ st.obs < pol.params.minSteps THEN NoPick
      ELSE Max({1, Min({n, k})})

Choose(pol, st, k, structured) ==
  LET cands == {v \in pol.kset : v <= Target(pol.params, st) /\ v <= k}
      n == IF cands # {} THEN Max(cands) ELSE Min(pol.kset)
  IN  IF structured \/ st.obs = 0 \/ st.obs < pol.params.minSteps
        THEN NoPick
        ELSE Max({1, Min({n, k})})

(* _margin_width, _pos_width and the width apply() settles on.  row holds  *)
(* the length of every row of the batch, batch the requests in it.         *)

Width(pol, e, row, batch) ==
  LET pick == [r \in batch |-> Choose(pol, e[r], row[r], Structured(r))]
      known == {pick[r] : r \in batch} \ {NoPick}
      allKnown == \A r \in batch : pick[r] # NoPick
      noneStructured == \A r \in batch : ~Structured(r)
      posFires == /\ knobs.posTrim /\ knobs.batchMargin /\ noneStructured
                  /\ Cardinality(batch) >= 2
      marginFires == knobs.batchMargin /\ noneStructured /\ known # {}
  IN  CASE allKnown /\ posFires -> Min({Min(known), Min(pol.kset)})
        [] allKnown /\ ~posFires -> Min(known)
        [] ~allKnown /\ marginFires -> Min(known)
        [] OTHER -> Max({row[r] : r \in batch})

----------------------------------------------------------------------------
(* _reload: poll the override file.  A malformed "set" raises after mode    *)
(* and the numeric knobs were assigned and before state is cleared.        *)

\* Mutant: capture-only boots read the override file too.
MayReloadAlways == TRUE

MayReload == knobs.enabled
ReadsFile == MayReload /\ file.mtime # fileMtime /\ file.mtime # 0

\* Mutants: the file's set replaces the ladder unchecked; an empty
\* intersection with the boot set leaves an empty ladder.
OverrideSetUnchecked(pol, cfg) == IF cfg.hasSet THEN cfg.set ELSE pol.kset
OverrideSet(pol, cfg) ==
  LET allowed == cfg.set \cap BootSet
  IN  IF ~cfg.hasSet THEN pol.kset
      ELSE IF allowed # {} THEN allowed ELSE BootSet

Override(pol, cfg) ==
  IF cfg.fault = "parse" THEN pol
  ELSE [enabled |-> cfg.enabled, params |-> cfg.params,
        kset |-> IF cfg.fault = "set" THEN pol.kset ELSE OverrideSet(pol, cfg)]

ReloadedPolicy == IF ReadsFile THEN Override(policy, file.cfg) ELSE policy
ReloadClears == ReadsFile /\ file.cfg.fault = "none"
ReloadedMtime == IF MayReload THEN file.mtime ELSE fileMtime

Polls == steps % ReloadEvery = 0

\* Mutants: the prune keeps only decoding requests; it keeps everything.
PrunedToDecoding(e) ==
  [r \in Requests |-> IF status[r] = "decode" THEN e[r] ELSE Unseen]
Pruned(e) == [r \in Requests |-> IF r \in Live THEN e[r] ELSE Unseen]

(* apply: trim the batch to one width, then count the step.                *)
Apply(row, batch) ==
  LET pol == IF Polls THEN ReloadedPolicy ELSE policy
      kept == IF Polls /\ ReloadClears THEN Forgotten ELSE ema
      n == Width(pol, kept, row, batch)
      prunes == HistEvery > 0 /\ (steps + 1) % HistEvery = 0
  IN  /\ policy' = pol
      /\ fileMtime' = IF Polls THEN ReloadedMtime ELSE fileMtime
      /\ steps' = (steps + 1) % StepPeriod
      /\ IF pol.enabled
           THEN /\ spec' = [r \in Requests |-> IF row[r] > n THEN n ELSE row[r]]
                /\ ema' = IF prunes THEN Pruned(kept) ELSE kept
           ELSE spec' = row /\ ema' = kept

----------------------------------------------------------------------------
BootPolicy == [enabled |-> knobs.enabled, params |-> BootParams, kset |-> BootSet]

NoFile == [mtime |-> 0, cfg |-> CHOOSE cfg \in Configs : TRUE]

(* __init__ reads the knobs and ends with a _reload of a file that an      *)
(* earlier run may have left behind.                                       *)
Init ==
  /\ phase = "schedule"
  /\ status = [r \in Requests |-> "absent"]
  /\ spec = [r \in Requests |-> 0]
  /\ sched = [r \in Requests |-> 0]
  /\ drafted = [r \in Requests |-> 0]
  /\ ema = Forgotten
  /\ knobs \in Knobs
  /\ steps = 0
  /\ \/ file = NoFile /\ writes = 0
     \/ file \in [mtime : {1}, cfg : Configs] /\ writes = 1
  /\ policy = IF MayReload /\ file.mtime # 0
                THEN Override(BootPolicy, file.cfg) ELSE BootPolicy
  /\ fileMtime = IF MayReload THEN file.mtime ELSE 0

(* A request with a fresh id takes slot r: whatever the policy remembers of *)
(* the id that held the slot before can no longer be looked up.            *)
Arrive(r) ==
  /\ phase = "schedule" /\ status[r] = "absent"
  /\ status' = [status EXCEPT ![r] = "prefill"]
  /\ spec' = [spec EXCEPT ![r] = 0]
  /\ drafted' = [drafted EXCEPT ![r] = 0]
  /\ ema' = [ema EXCEPT ![r] = Unseen]
  /\ UNCHANGED <<phase, sched, policy, knobs, steps, file, fileMtime, writes>>

(* The client aborts a request between two engine steps.                   *)
Abort(r) ==
  /\ phase = "schedule" /\ r \in Live
  /\ status' = [status EXCEPT ![r] = "absent"]
  /\ spec' = [spec EXCEPT ![r] = 0]
  /\ drafted' = [drafted EXCEPT ![r] = 0]
  /\ UNCHANGED <<phase, sched, ema, policy, knobs, steps, file, fileMtime, writes>>

(* schedule() hands every row to the model runner.                         *)
Schedule ==
  /\ phase = "schedule" /\ Live # {}
  /\ sched' = spec
  /\ phase' = "execute"
  /\ UNCHANGED <<status, spec, drafted, ema, policy, knobs, steps, file, fileMtime,
                 writes>>

(* update_from_output for one request whose drafts were verified.          *)
Observe(r) ==
  /\ phase = "execute" /\ sched[r] > 0
  /\ \E accepted \in Min({MinAccepted[r], sched[r]})..sched[r] :
       IF policy.enabled
         THEN \E st \in Observed(policy.params, ema[r], sched[r], accepted) :
                ema' = [ema EXCEPT ![r] = st]
         ELSE UNCHANGED ema
  /\ sched' = [sched EXCEPT ![r] = 0]
  /\ UNCHANGED <<phase, status, spec, drafted, policy, knobs, steps, file, fileMtime,
                 writes>>

NextStatus(s) ==
  CASE s = "absent"  -> {"absent"}
    [] s = "prefill" -> {"prefill", "decode", "grammar"}
    [] s = "decode"  -> {"decode", "grammar", "prefill", "absent"}
    [] s = "grammar" -> {"grammar", "prefill", "absent"}

(* The rest of update_from_output: prefills complete, reasoning ends and   *)
(* the grammar starts to advance, requests finish or are preempted.        *)
Advance ==
  /\ phase = "execute" /\ \A r \in Requests : sched[r] = 0
  /\ \E next \in [Requests -> {"absent", "prefill", "decode", "grammar"}] :
       /\ \A r \in Requests : next[r] \in NextStatus(status[r])
       /\ status' = next
  /\ phase' = "draft"
  /\ UNCHANGED <<spec, sched, drafted, ema, policy, knobs, steps, file, fileMtime,
                 writes>>

(* update_draft_token_ids: K drafts for a decoding row, of which a grammar *)
(* keeps a valid prefix; prefill chunks carry none.  The hook calls the    *)
(* policy only when it is enabled and some row has drafts.                 *)
Draft ==
  /\ phase = "draft"
  /\ \E valid \in [{r \in Requests : Structured(r)} -> 0..K] :
       LET row == [r \in Requests |->
                     CASE status[r] = "decode" -> K
                       [] status[r] = "grammar" -> valid[r]
                       [] OTHER -> 0]
           batch == {r \in Requests : row[r] > 0}
       IN  /\ drafted' = row
           /\ IF policy.enabled /\ batch # {}
                THEN Apply(row, batch)
                ELSE spec' = row /\ UNCHANGED <<ema, policy, steps, fileMtime>>
  /\ phase' = "schedule"
  /\ UNCHANGED <<status, sched, knobs, file, writes>>

(* An operator writes the override file.                                   *)
WriteFile ==
  /\ writes < MaxWrites
  /\ writes' = writes + 1
  /\ \E cfg \in Configs : file' = [mtime |-> writes + 1, cfg |-> cfg]
  /\ UNCHANGED <<phase, status, spec, sched, drafted, ema, policy, knobs, steps,
                 fileMtime>>

(* An operator removes it.                                                 *)
DeleteFile ==
  /\ file.mtime # 0
  /\ file' = NoFile
  /\ UNCHANGED <<phase, status, spec, sched, drafted, ema, policy, knobs, steps,
                 fileMtime, writes>>

Next ==
  \/ \E r \in Requests : Arrive(r) \/ Abort(r) \/ Observe(r)
  \/ Schedule \/ Advance \/ Draft
  \/ WriteFile \/ DeleteFile

Spec == Init /\ [][Next]_vars

(* The engine core keeps stepping while it has requests; arrivals, aborts  *)
(* and file edits are the environment's and get no fairness.               *)
Engine == Schedule \/ (\E r \in Requests : Observe(r)) \/ Advance \/ Draft
FairSpec == Spec /\ WF_vars(Engine)
----------------------------------------------------------------------------
PolicyType == [enabled : BOOLEAN, params : Params,
               kset : {S \in SUBSET BootSet : S # {}}]

\* Every variable stays in its range (the policy's ladder is never empty).
TypeOK ==
  /\ phase \in {"schedule", "execute", "draft"}
  /\ status \in [Requests -> {"absent", "prefill", "decode", "grammar"}]
  /\ spec \in [Requests -> 0..K]
  /\ sched \in [Requests -> 0..K]
  /\ drafted \in [Requests -> 0..K]
  /\ ema \in [Requests -> [val : 0..(Scale * Max({K, KMax})), obs : 0..StepCap]]
  /\ knobs \in Knobs
  /\ policy \in PolicyType
  /\ steps \in 0..(StepPeriod - 1)
  /\ file \in [mtime : 0..MaxWrites, cfg : Configs]
  /\ fileMtime \in 0..MaxWrites
  /\ writes \in 0..MaxWrites

\* _glm53_adaptive_k_query_lens: the verify lengths captured as full graphs.
CapturedQueryLens == {k + 1 : k \in {k \in BootSet : k <= K}} \cup {K + 1}

\* A row the policy trimmed has a captured graph length, whatever set the
\* override file asked for since boot (set only narrows within the boot set).
TrimmedRowsAreCaptured ==
  \A r \in Requests : spec[r] # drafted[r] => spec[r] + 1 \in CapturedQueryLens

\* A row that passed grammar validation holds the whole batch: no row of that
\* batch loses a draft, whichever of the trims is switched on.
StructuredHoldsBatch ==
  (phase # "draft" /\ \E r \in Requests : Structured(r) /\ drafted[r] > 0)
    => spec = drafted

\* With the policy off at boot no row is ever trimmed, even when the override
\* file says otherwise (capture-only mode ignores runtime files).
BootOffNeverTrims == ~knobs.enabled => spec = drafted

\* The policy forgets a live request only when it accepts a new override file;
\* the periodic prune takes finished requests alone.
ForgetsLiveOnlyOnReload ==
  [][\A r \in Live : ema[r] # Unseen /\ r \in Live' /\ ema'[r] = Unseen
       => fileMtime' # fileMtime]_vars

\* saturate=max has no lock-in: a request alone in the batch whose rows are all
\* accepted is eventually verified at the longest length of its ladder again,
\* however short its row had become.
LoneRequestRegainsFullLength ==
  \A r \in Requests :
    (/\ MinAccepted[r] = K
     /\ <>[](Live = {r} /\ status[r] = "decode" /\ policy.enabled))
      => <>[](spec[r] = Max(policy.kset))
=============================================================================

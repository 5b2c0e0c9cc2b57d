---------------------------- MODULE MixedPrefill ----------------------------
(***************************************************************************)
(* The decode floor of the vLLM scheduler: the mixed-prefill policy        *)
(* (overlay/patch_scheduler_decode_floor.py) installed in the running and  *)
(* the waiting loop of Scheduler.schedule, and the block-aligned split it  *)
(* feeds, with the align-floor fix (overlay/patch_align_floor.py).         *)
(*                                                                         *)
(* One turn of a loop is one step, because the policy reads the running    *)
(* list while the loops change it.  A decode row costs one token here; the *)
(* drafts it also verifies are left out.                                   *)
(***************************************************************************)
EXTENDS Integers, Sequences, FiniteSets, FiniteSetsExt

CONSTANTS
  Requests,
  Prompts,      \* prompt lengths
  Outputs,      \* numbers of tokens a request may generate
  Budget,       \* max_num_batched_tokens
  MaxSeqs,      \* max_num_seqs
  Thresholds,   \* values of long_prefill_token_threshold (0: off)
  Block,        \* mamba block size
  HashBlock,    \* hash block size
  Eagles,       \* values of use_eagle
  PartialHit,   \* as in the scheduler
  Off,          \* the policy's None
  Caps,         \* values of the policy: Off, 0 for skip, N > 0 for a cap
  MaxPreempts   \* bound on preemptions

ASSUME MixedPrefillAssumption ==
  /\ Prompts \subseteq Nat \ {0} /\ Outputs \subseteq Nat \ {0}
  /\ Budget \in Nat \ {0} /\ MaxSeqs \in Nat \ {0} /\ Thresholds \subseteq Nat
  /\ Block \in Nat \ {0} /\ HashBlock \in Nat \ {0}
  /\ Eagles \subseteq BOOLEAN /\ PartialHit \in BOOLEAN
  /\ Off \notin Nat /\ Caps \subseteq Nat \cup {Off} /\ MaxPreempts \in Nat

VARIABLES
  cap,       \* GLM53_MIXED_PREFILL_CHUNK, read at every call but fixed in env
  threshold, \* long_prefill_token_threshold
  useEagle,  \* the drafter's last block is not cached
  prompt,    \* of each request: num_prompt_tokens
  made,      \* output tokens generated so far
  left,      \* output tokens still to come; 0 before arrival and when done
  computed,  \* num_computed_tokens
  running, waiting, skipped, \* queues; skipped is step_skipped_waiting
  phase,     \* idle, run, wait, exec
  turn,      \* index of the running loop
  budget,    \* token_budget
  sched,     \* num_scheduled_tokens of the step
  preempted, \* has this step preempted a request?
  preempts

reqs == <<prompt, made, left, computed>>
knobs == <<cap, threshold, useEagle>>
vars == <<knobs, reqs, running, waiting, skipped, phase, turn, budget, sched,
          preempted, preempts>>

Elems(s) == {s[i] : i \in 1..Len(s)}
Once(s) == \A i, j \in 1..Len(s) : s[i] = s[j] => i = j
Apart(s, t) == Elems(s) \cap Elems(t) = {}
Tokens(r) == prompt[r] + made[r]
Floor(n, b) == (n \div b) * b

----------------------------------------------------------------------------
(* The policy                                                              *)

\* Mutant: only a peer past its first output token counts as decoding.
DecodingLate(r) == computed[r] > prompt[r]

Decoding(r) == computed[r] >= prompt[r]

\* _glm53_mixed_prefill_policy(running, current)
Policy(current) ==
  IF cap # Off /\ \E r \in Elems(running) \ {current} : Decoding(r)
    THEN cap ELSE Off

Capped(r, start, n) ==
  IF Policy(r) # Off /\ start < prompt[r] THEN Min({n, Policy(r)}) ELSE n

----------------------------------------------------------------------------
(* _mamba_block_aligned_split                                              *)

\* Mutant: the upstream disjunct, which zeroes a chunk inside one block.
AlignsUpstream(start, end) ==
  Floor(end, Block) > start \/ (Block <= Budget /\ threshold \notin 1..(Block - 1))

\* GLM53_ALIGN_FLOOR=1: truncate only when that leaves progress.
Aligns(start, end) == Floor(end, Block) > start

PrefillEnd(r) == Max({prompt[r], Tokens(r) - 1})

LastCache(r) ==
  LET pos == Floor(Tokens(r), Block)
  IN  IF useEagle THEN Max({pos - Block, 0}) ELSE pos

Stops(r, start) ==
  LET tail == IF PartialHit THEN Floor(prompt[r], HashBlock) ELSE 0 IN
  {LastCache(r)}
    \cup (IF start % Block # 0 THEN {(start \div Block + 1) * Block} ELSE {})
    \cup (IF LastCache(r) < tail /\ tail < prompt[r] THEN {tail} ELSE {})

AlignedSplit(r, start, n) ==
  LET stop1 == start + n
      end == IF stop1 < PrefillEnd(r) /\ Aligns(start, stop1)
               THEN Floor(stop1, Block) ELSE stop1
      cuts == {s \in Stops(r, start) : start < s /\ s < end}
  IN  IF start >= PrefillEnd(r) THEN n
        ELSE Max({Min(cuts \cup {end}) - start, 0})

LongPrefill(n) == IF 0 < threshold /\ threshold < n THEN threshold ELSE n

----------------------------------------------------------------------------
(* Scheduler.schedule                                                      *)

NoSched == [r \in Requests |-> 0]

Arrive(r) ==
  /\ phase = "idle" /\ prompt[r] = 0
  /\ \E p \in Prompts, o \in Outputs :
       /\ prompt' = [prompt EXCEPT ![r] = p]
       /\ left' = [left EXCEPT ![r] = o]
  /\ waiting' = Append(waiting, r)
  /\ UNCHANGED <<knobs, made, computed, running, skipped, phase, turn, budget,
                 sched, preempted, preempts>>

BeginStep ==
  /\ phase = "idle" /\ running \o waiting # <<>>
  /\ phase' = "run" /\ turn' = 1 /\ budget' = Budget /\ sched' = NoSched
  /\ preempted' = FALSE
  /\ UNCHANGED <<knobs, reqs, running, waiting, skipped, preempts>>

InRunLoop == phase = "run" /\ turn <= Len(running) /\ budget > 0

\* The running loop: a request with no tokens this step is passed over.
RunTurn ==
  /\ InRunLoop
  /\ LET r == running[turn]
         n == Capped(r, computed[r],
                Min({LongPrefill(Tokens(r) - computed[r]), budget}))
         s == AlignedSplit(r, computed[r], n)
     IN  /\ sched' = [sched EXCEPT ![r] = s]
         /\ budget' = budget - s
  /\ turn' = turn + 1
  /\ UNCHANGED <<knobs, reqs, running, waiting, skipped, phase, preempted, preempts>>

\* No block is free: the last running request goes back to the front of the
\* waiting queue and loses what it had computed.
Preempt ==
  /\ InRunLoop /\ preempts < MaxPreempts
  /\ LET v == running[Len(running)] IN
     /\ running' = SubSeq(running, 1, Len(running) - 1)
     /\ waiting' = <<v>> \o waiting
     /\ computed' = [computed EXCEPT ![v] = 0]
  /\ preempted' = TRUE /\ preempts' = preempts + 1
  /\ UNCHANGED <<knobs, prompt, made, left, skipped, phase, turn, budget, sched>>

EndRun ==
  /\ phase = "run" /\ ~InRunLoop
  /\ phase' = IF preempted THEN "exec" ELSE "wait"
  /\ UNCHANGED <<knobs, reqs, running, waiting, skipped, turn, budget, sched,
                 preempted, preempts>>

InWaitLoop == phase = "wait" /\ waiting # <<>> /\ Len(running) < MaxSeqs /\ budget > 0

\* What the head of the queue would start from: its prefix-cache hit.
Hits(r) == {h \in 0..(Tokens(r) - 1) : h % Block = 0}

AfterSkip(q) == Tail(q)

\* Mutant: the skipped requests are not put back.
RequeuedNone == waiting

\* At the end of the loop the skipped requests go back to the front.
Requeued == skipped \o waiting

\* The policy says skip: the request waits, the ones behind it are tried.
WaitSkip ==
  /\ InWaitLoop
  /\ LET r == Head(waiting) IN
     /\ \E h \in Hits(r) : h < prompt[r] /\ Policy(r) = 0
     /\ skipped' = Append(skipped, r)
     /\ waiting' = AfterSkip(waiting)
  /\ UNCHANGED <<knobs, reqs, running, phase, turn, budget, sched, preempted, preempts>>

WaitAdmit ==
  /\ InWaitLoop
  /\ LET r == Head(waiting) IN
     \E h \in Hits(r) :
       LET n == Min({Capped(r, h, LongPrefill(Tokens(r) - h)), budget})
           s == AlignedSplit(r, h, n)
       IN  /\ ~(h < prompt[r] /\ Policy(r) = 0)
           /\ IF s = 0
                THEN /\ phase' = "exec" /\ waiting' = Requeued
                     /\ skipped' = <<>>
                     /\ UNCHANGED <<computed, running, budget, sched>>
                ELSE /\ running' = Append(running, r)
                     /\ waiting' = Tail(waiting)
                     /\ computed' = [computed EXCEPT ![r] = h]
                     /\ sched' = [sched EXCEPT ![r] = s]
                     /\ budget' = budget - s
                     /\ UNCHANGED <<phase, skipped>>
  /\ UNCHANGED <<knobs, prompt, made, left, turn, preempted, preempts>>

EndWait ==
  /\ phase = "wait" /\ ~InWaitLoop
  /\ phase' = "exec" /\ waiting' = Requeued /\ skipped' = <<>>
  /\ UNCHANGED <<knobs, reqs, running, turn, budget, sched, preempted, preempts>>

\* Ways to keep some elements of a sequence in their order: positions, rising.
Picks(s) ==
  UNION {{f \in [1..n -> 1..Len(s)] : \A i, j \in 1..n : i < j => f[i] < f[j]}
           : n \in 0..Len(s)}

\* The model runs and update_from_output: a request whose tokens are all
\* computed gets one more, or leaves when it was the last.
Execute ==
  /\ phase = "exec"
  /\ LET new == [r \in Requests |-> computed[r] + sched[r]]
         samples(r) == sched[r] > 0 /\ new[r] = Tokens(r)
         ends(r) == samples(r) /\ left[r] = 1
     IN  /\ computed' = new
         /\ made' = [r \in Requests |-> IF samples(r) THEN made[r] + 1 ELSE made[r]]
         /\ left' = [r \in Requests |-> IF samples(r) THEN left[r] - 1 ELSE left[r]]
         /\ \E f \in Picks(running) :
              /\ {f[i] : i \in DOMAIN f} = {i \in DOMAIN running : ~ends(running[i])}
              /\ running' = [i \in DOMAIN f |-> running[f[i]]]
  /\ phase' = "idle" /\ sched' = NoSched
  /\ UNCHANGED <<knobs, prompt, waiting, skipped, turn, budget, preempted, preempts>>

Init ==
  /\ cap \in Caps /\ threshold \in Thresholds /\ useEagle \in Eagles
  /\ prompt = [r \in Requests |-> 0] /\ left = prompt
  /\ made = prompt /\ computed = prompt
  /\ running = <<>> /\ waiting = <<>> /\ skipped = <<>>
  /\ phase = "idle" /\ turn = 0 /\ budget = 0 /\ sched = NoSched
  /\ preempted = FALSE /\ preempts = 0

Engine == BeginStep \/ RunTurn \/ EndRun \/ WaitSkip \/ WaitAdmit \/ EndWait \/ Execute
Next == (\E r \in Requests : Arrive(r)) \/ Engine \/ Preempt

Spec == Init /\ [][Next]_vars
LiveSpec == Spec /\ WF_vars(Engine)

----------------------------------------------------------------------------
(* Properties                                                              *)

\* A request is in one queue at most, and once.
QueuesOK ==
  /\ running \in Seq(Requests) /\ waiting \in Seq(Requests) /\ skipped \in Seq(Requests)
  /\ Once(running) /\ Once(waiting) /\ Once(skipped)
  /\ Apart(running, waiting) /\ Apart(running, skipped) /\ Apart(waiting, skipped)
  /\ Len(running) <= MaxSeqs

\* Every variable has its type.
TypeOK ==
  /\ cap \in Caps /\ threshold \in Thresholds /\ useEagle \in Eagles
  /\ prompt \in [Requests -> Prompts \cup {0}]
  /\ made \in [Requests -> Nat] /\ left \in [Requests -> Nat]
  /\ computed \in [Requests -> Nat] /\ sched \in [Requests -> Nat]
  /\ QueuesOK
  /\ phase \in {"idle", "run", "wait", "exec"} /\ turn \in Nat
  /\ budget \in 0..Budget /\ preempted \in BOOLEAN /\ preempts \in 0..MaxPreempts

\* A request that is still in its prompt gets no more than the cap in a step
\* of which a peer is decoding, although the policy is asked while the running
\* list changes; with skip it gets nothing.  A peer counts when it was running
\* before the request got its turn: one that comes back from a preemption later
\* in the step, with a prefix-cache hit past its prompt, is seen too late.
MixedChunkWithinCap ==
  phase = "exec" /\ cap # Off =>
    \A i, j \in DOMAIN running :
      LET q == running[i] r == running[j] IN
      /\ computed[q] < prompt[q] /\ computed[r] >= prompt[r]
      /\ j < turn \/ j < i \/ sched[r] = 0
      => sched[q] <= cap

\* A running request whose turn has come gets no tokens only when the policy
\* skips it: a cap below the block size never becomes "a total starvation
\* stall", which is what the align floor is for.
NoStall ==
  phase = "run" /\ ~preempted =>
    \A i \in 1..(turn - 1) :
      LET q == running[i] IN
      sched[q] = 0 => /\ cap = 0 /\ computed[q] < prompt[q]
                      /\ \E r \in Elems(running) \ {q} : computed[r] >= prompt[r]

\* A request the policy skips resumes when no peer is decoding: every
\* request that arrives is served to its last token.
EveryRequestFinishes ==
  \A r \in Requests : left[r] > 0 ~> left[r] = 0
=============================================================================

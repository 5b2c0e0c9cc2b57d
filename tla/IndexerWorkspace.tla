-------------------------- MODULE IndexerWorkspace --------------------------
(***************************************************************************)
(* The right-sized gather workspace of the sparse indexer                  *)
(* (overlay/patch_indexer_workspace.py).  At boot the patch computes the   *)
(* number of workspace entries from the configuration and cross-checks the *)
(* compression ratio the runtime really uses; afterwards every prefill     *)
(* step hands a batch to the splitter, which packs requests into chunks    *)
(* that fit the workspace and the logits budget.                           *)
(*                                                                         *)
(* The patch promises that a narrowed workspace changes nothing: the chunk *)
(* list is the one the stock size produces.  The module runs two copies of *)
(* the splitter on every batch, one per size, step by step.                *)
(***************************************************************************)
EXTENDS Integers, Sequences, FiniteSets

CONSTANTS
  MaxModelLen,     \* max_model_len
  MaxSeqs,         \* max_num_seqs
  Mnbt,            \* max_num_batched_tokens
  NumSpec,         \* num_speculative_tokens
  StockMultiplier, \* 40 in the code
  LogitsElems,     \* max_logits_bytes // 4
  Kpools,          \* values index_kpool may have (0 when absent)
  Ratios           \* values kv_cache_spec.compress_ratio may have

ASSUME IndexerWorkspaceAssumption ==
  /\ MaxModelLen \in Nat \ {0} /\ MaxSeqs \in Nat \ {0} /\ Mnbt \in Nat \ {0}
  /\ NumSpec \in Nat /\ LogitsElems \in Nat
  /\ StockMultiplier \in Nat
  /\ MaxModelLen + NumSpec <= StockMultiplier * MaxModelLen
  /\ Kpools \subseteq Nat /\ Ratios \subseteq Nat \ {0}

Modes == {"unset", "stock", "rightsize", "typo"}
Sides == {"stock", "actual"}

VARIABLES
  mode,   \* GLM53_INDEXER_WORKSPACE
  kpool,  \* hf_text_config.index_kpool
  ratio,  \* kv_cache_spec.compress_ratio, what the runtime divides by
  phase,  \* sizing, builder, refused, idle, admit, split
  ws,     \* workspace entries allocated
  batch,  \* prefill rows of the step: [q, s], s in compressed entries
  budget, \* tokens of the step not handed out yet
  split   \* of each side: the splitter's locals and its chunk list

config == <<mode, kpool, ratio>>
vars == <<config, phase, ws, batch, budget, split>>

----------------------------------------------------------------------------
(* Sizing                                                                  *)

CeilDiv(a, b) == (a + b - 1) \div b
StockEntries == MaxModelLen * StockMultiplier
CfgRatio(k) == IF k > 1 THEN k ELSE 1
MaxPrefillReqs == IF MaxSeqs < Mnbt THEN MaxSeqs ELSE Mnbt

\* The legal maximum of one step, never more than stock.
Rightsized(k) ==
  LET need == CeilDiv(MaxModelLen + NumSpec, CfgRatio(k)) * MaxPrefillReqs
  IN  IF CfgRatio(k) = 1 \/ need > StockEntries THEN StockEntries ELSE need

\* get_max_prefill_buffer_size; a mode that is not in the enum raises.
Sizing ==
  /\ phase = "sizing"
  /\ phase' = IF mode = "typo" THEN "refused" ELSE "builder"
  /\ ws' = IF mode = "rightsize" THEN Rightsized(kpool) ELSE StockEntries
  /\ UNCHANGED <<config, batch, budget, split>>

\* Mutant: the two ratios are compared only when the runtime compresses.
RatiosAgreeIfCompressed == ratio > 1 => CfgRatio(kpool) = ratio

RatiosAgree == CfgRatio(kpool) = ratio

\* DeepseekV32IndexerMetadataBuilder.__init__: the fail-closed cross-check.
Builder ==
  /\ phase = "builder"
  /\ phase' = IF mode = "rightsize" /\ (~RatiosAgree \/ ws < Rightsized(kpool))
                THEN "refused" ELSE "idle"
  /\ UNCHANGED <<config, ws, batch, budget, split>>

----------------------------------------------------------------------------
(* The scheduler: a step has at most MaxSeqs rows and Mnbt query tokens,   *)
(* and a row may run ahead of the model length by the draft length.        *)

BeginStep ==
  /\ phase = "idle"
  /\ phase' = "admit" /\ batch' = <<>> /\ budget' = Mnbt
  /\ UNCHANGED <<config, ws, split>>

Admit ==
  /\ phase = "admit" /\ Len(batch) < MaxSeqs
  /\ \E q \in 1..budget, len \in 1..(MaxModelLen + NumSpec) :
       /\ q <= len
       /\ batch' = Append(batch, [q |-> q, s |-> len \div ratio])
       /\ budget' = budget - q
  /\ UNCHANGED <<config, phase, ws, split>>

----------------------------------------------------------------------------
(* split_prefill_chunks: start and end of the open chunk, its query tokens *)
(* m and its entries n, and the list of chunks closed so far.              *)

Fresh == [start |-> 0, end |-> 0, m |-> 0, n |-> 0, chunks |-> {}]

Launch ==
  /\ phase = "admit" /\ Len(batch) > 0
  /\ phase' = "split" /\ split' = [d \in Sides |-> Fresh]
  /\ UNCHANGED <<config, ws, batch, budget>>

\* Mutant: only the logits budget closes a chunk.
FitsLogitsOnly(x, w) ==
  LET row == batch[x.end + 1] IN
  (x.m + row.q) * (x.n + row.s) <= LogitsElems

Fits(x, w) ==
  LET row == batch[x.end + 1] IN
  /\ x.n + row.s <= w
  /\ (x.m + row.q) * (x.n + row.s) <= LogitsElems

AddRow(x) ==
  LET row == batch[x.end + 1] IN
  [start |-> x.start, end |-> x.end + 1, m |-> x.m + row.q, n |-> x.n + row.s,
   chunks |-> x.chunks]

\* Query tokens per launch of a closed chunk.
MaxQ(x) ==
  IF x.n > 0
    THEN IF LogitsElems \div x.n > 1 THEN LogitsElems \div x.n ELSE 1
    ELSE IF x.m > 1 THEN x.m ELSE 1

Slices(x) ==
  {[from |-> o, to |-> IF o + MaxQ(x) < x.m THEN o + MaxQ(x) ELSE x.m] :
     o \in {i \in 0..(x.m - 1) : i % MaxQ(x) = 0}}

Close(x) ==
  [start |-> x.end, end |-> x.end, m |-> 0, n |-> 0,
   chunks |-> x.chunks \cup
     {[first |-> x.start, last |-> x.end, n |-> x.n, q |-> sl] : sl \in Slices(x)}]

Done(x) == x.start = Len(batch)

\* One turn of the inner loop: take a row, take an oversized row alone, or
\* close the chunk.
Advance(x, w) ==
  IF Done(x) THEN x
    ELSE IF x.end < Len(batch) /\ (Fits(x, w) \/ x.end = x.start)
      THEN IF Fits(x, w) THEN AddRow(x) ELSE Close(AddRow(x))
      ELSE Close(x)

Size(d) == IF d = "stock" THEN StockEntries ELSE ws

Split ==
  /\ phase = "split" /\ \E d \in Sides : ~Done(split[d])
  /\ split' = [d \in Sides |-> Advance(split[d], Size(d))]
  /\ UNCHANGED <<config, phase, ws, batch, budget>>

Finish ==
  /\ phase = "split" /\ \A d \in Sides : Done(split[d])
  /\ phase' = "idle" /\ UNCHANGED <<config, ws, batch, budget, split>>

Init ==
  /\ mode \in Modes /\ kpool \in Kpools /\ ratio \in Ratios
  /\ phase = "sizing" /\ ws = 0
  /\ batch = <<>> /\ budget = 0
  /\ split = [d \in Sides |-> Fresh]

Next == Sizing \/ Builder \/ BeginStep \/ Admit \/ Launch \/ Split \/ Finish

Spec == Init /\ [][Next]_vars

----------------------------------------------------------------------------
(* Properties                                                              *)

Row == [q : 1..Mnbt, s : 0..(MaxModelLen + NumSpec)]
Chunk == [first : Nat, last : Nat, n : Nat, q : [from : Nat, to : Nat]]

\* Every variable has its type; ws never exceeds the stock size.
TypeOK ==
  /\ mode \in Modes /\ kpool \in Kpools /\ ratio \in Ratios
  /\ phase \in {"sizing", "builder", "refused", "idle", "admit", "split"}
  /\ ws \in 0..StockEntries
  /\ batch \in Seq(Row) /\ Len(batch) <= MaxSeqs
  /\ budget \in 0..Mnbt
  /\ DOMAIN split = Sides
  /\ \A d \in Sides :
       /\ split[d] = [start |-> split[d].start, end |-> split[d].end,
                      m |-> split[d].m, n |-> split[d].n, chunks |-> split[d].chunks]
       /\ split[d].start \in Nat /\ split[d].end \in Nat
       /\ split[d].m \in Nat /\ split[d].n \in Nat
       /\ \A c \in split[d].chunks : c \in Chunk

\* Right-sizing is invisible: at every turn the splitter that runs on the
\* allocated workspace has done exactly what the one on the stock workspace
\* did, so the chunk lists are identical for every batch the scheduler can
\* form (patch header, "the chunk list is therefore IDENTICAL to stock").
ChunkListIsStock == split["actual"] = split["stock"]

\* No chunk asks for more entries than were allocated, including the row
\* that is taken although it does not fit (the lock behind the workspace
\* turns an oversized request into an AssertionError in a worker).
WorkspaceFits == phase = "split" =>
  /\ split["actual"].n <= ws
  /\ \A c \in split["actual"].chunks : c.n <= ws
=============================================================================

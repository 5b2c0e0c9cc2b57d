------------------------------ MODULE KvPlan -------------------------------
(***************************************************************************)
(* How the engine lays out the KV cache of GLM-5.3 with the DFlash2        *)
(* drafter when it boots: the groups and their pages, the tensors they     *)
(* share, the size of the pool, and what the cache coordinator makes of    *)
(* the retention and granularity settings (patch_glm5_drafter_group,       *)
(* patch_hybrid_prefix_hit, patch_apc_per_group_retention,                 *)
(* patch_fine_grained_apc).                                                *)
(***************************************************************************)
EXTENDS Integers, FiniteSets

CONSTANTS
  Geometries, \* models: block and bytes of a token of MLA, and of the drafter
  Memories,   \* bytes for the cache
  Intervals   \* values of the retention settings; -1 when unset

Unset == -1  \* a malformed value is any other negative number
Kernel == 64 \* the block the sliding window kernels work on
MaxInterval == 1000000

VARIABLES
  pc,      \* "groups" "layout" "coordinate" "up" "generic" "dead"
  model,   \* its geometry
  memory,
  draft,   \* the spec of the drafter's group: block, page, padded
  blocks,  \* num_blocks
  applied, \* overlays in the image
  env,     \* the settings: global, swa
  retain,  \* retention_interval_by_group
  partial  \* partial hash hits are on

vars == <<pc, model, memory, draft, blocks, applied, env, retain, partial>>

MlaPage == model.mlaBlock * model.mlaToken
Drafted == model.drafts > 0

----------------------------------------------------------------------------
(* Groups, pages and tensors                                               *)

\* Mutant: any block that fills the page will do.
FitAnything == IF MlaPage % model.draftToken = 0 THEN MlaPage \div model.draftToken ELSE 0

\* The block with which a drafter page is exactly an MLA page, or 0.
Fit ==
  LET n == IF MlaPage % model.draftToken = 0 THEN MlaPage \div model.draftToken ELSE 0
  IN IF /\ n % Kernel = 0
        /\ n = 0 \/ n % model.mlaBlock = 0 \/ model.mlaBlock % n = 0
        /\ model.drafts <= model.mlas
     THEN n ELSE 0

\* Exact fit, or a padded page of one kernel block.
DraftSpec ==
  IF Fit > 0 THEN [block |-> Fit, page |-> Fit * model.draftToken, padded |-> FALSE]
  ELSE [block |-> Kernel, page |-> MlaPage, padded |-> TRUE]

\* A padded page is no smaller than what it pads.
Groups ==
  /\ pc = "groups"
  /\ \/ ~Drafted /\ pc' = "layout" /\ UNCHANGED draft
     \/ Drafted /\ draft' = DraftSpec
        /\ pc' = IF draft'.block * model.draftToken <= draft'.page THEN "layout" ELSE "dead"
  /\ UNCHANGED <<model, memory, blocks, applied, env, retain, partial>>

\* Mutant: the drafter's layers are not counted against the MLA tensors.
AnyLayout == Drafted => (draft.padded => draft.block = Kernel /\ draft.page = MlaPage)

ValidLayout ==
  Drafted => /\ draft.padded => draft.block = Kernel /\ draft.page = MlaPage
             /\ draft.page = MlaPage => model.drafts <= model.mlas

\* The drafter rides the MLA tensors, or pays for tensors of its own.
Shared == Drafted /\ draft.page = MlaPage
PerBlock ==
  model.mlas * MlaPage + model.idxPage + IF Drafted /\ ~Shared THEN model.drafts * draft.page ELSE 0

\* max_memory_usage_pages of a window: it does not start on a block.
WindowPages == (model.window - 1 + model.batch + draft.block - 1) \div draft.block + 1
\* The block ids one request of full length can hold: MLA, its tail, the
\* state of the Mamba layers and the window.
Needed ==
  (model.length + model.mlaBlock - 1) \div model.mlaBlock + 1 + model.states
  + IF Drafted THEN WindowPages ELSE 0

Layout ==
  /\ pc = "layout"
  /\ IF ~ValidLayout THEN pc' = "generic" /\ UNCHANGED blocks
     ELSE IF Needed * PerBlock > memory THEN pc' = "dead" /\ UNCHANGED blocks
     ELSE pc' = "coordinate" /\ blocks' = memory \div PerBlock
  /\ UNCHANGED <<model, memory, draft, applied, env, retain, partial>>

----------------------------------------------------------------------------
(* The coordinator                                                         *)

Names == {"mla", "tail", "mamba"} \cup IF Drafted THEN {"swa"} ELSE {}
BlockOf(g) == IF g = "swa" THEN draft.block ELSE model.mlaBlock
Participates(g) == g # "tail"
Scheduler == IF Drafted /\ draft.block > model.mlaBlock THEN draft.block ELSE model.mlaBlock

\* dflash counts as EAGLE; without the overlay every group is flagged.
Eagle ==
  IF ~Drafted THEN {} ELSE IF "hybrid" \in applied THEN {"swa"} ELSE Names

\* The groups whose hit can shorten that of a request.
InMin == {g \in Names : Participates(g)} \ IF "hybrid" \in applied THEN {"swa"} ELSE {}

\* Mutant: a sliding window is exempt by its type.
ExemptByType == Names \cap {"swa"}

\* _glm53_min_exempt_group_ids
Exempt == IF Eagle = Names \cap {"swa"} THEN Eagle ELSE {}

GoodInterval(v) == v = Unset \/ (v \in 0..MaxInterval /\ v % Scheduler = 0)

\* _glm53_resolve_retention_by_group: an override with no group to apply to.
Misdirected == env.swa # Unset /\ Exempt = {}

\* _glm53_retention_for_group
RetentionFor(g) ==
  IF g \notin Exempt THEN env.global
  ELSE IF env.swa # Unset THEN env.swa
  ELSE IF model.window >= Scheduler THEN env.global
  ELSE 0

\* Mutant: the drafter has no say in the granularity either.
VetoesWithoutDrafter == {g \in {"mla", "mamba"} : g \notin model.fine /\ BlockOf(g) # model.hashBlock}

\* unsupported_partial_hit_managers
Vetoes ==
  {g \in Names : /\ "fine" \in applied => Participates(g)
                 /\ g \notin model.fine /\ BlockOf(g) # model.hashBlock}

\* The vector, where the overlay is there to make one.
Coordinate ==
  /\ pc = "coordinate"
  /\ IF "retention" \in applied /\
        (~GoodInterval(env.swa) \/ Misdirected)
     THEN pc' = "dead" /\ UNCHANGED <<retain, partial>>
     ELSE /\ pc' = "up"
          /\ retain' = [g \in Names |-> IF "retention" \in applied THEN RetentionFor(g) ELSE env.global]
          /\ partial' = (Vetoes = {})
  /\ UNCHANGED <<model, memory, draft, blocks, applied, env>>

Init ==
  /\ pc = "groups" /\ model \in Geometries /\ memory \in Memories
  /\ applied \in SUBSET {"hybrid", "retention", "fine"}
  /\ env \in [global : {v \in Intervals : v >= Unset}, swa : Intervals]
  /\ draft = [block |-> 0, page |-> 0, padded |-> FALSE] /\ blocks = 0
  /\ retain = << >> /\ partial = FALSE

Next == Groups \/ Layout \/ Coordinate
Spec == Init /\ [][Next]_vars

----------------------------------------------------------------------------
(* Properties                                                              *)

\* The boot 8 failure: every kernel block of a manager block of the drafter
\* lies in the page of that block, inside the MLA tensor it rides.
KernelBlocksStayInTheirPage ==
  pc = "up" /\ Drafted =>
    LET split == draft.block \div Kernel
        at(b, j) == IF draft.padded THEN (b * split + j) * draft.page
                    ELSE b * draft.page + j * Kernel * model.draftToken
    IN /\ draft.block = split * Kernel
       /\ \A b \in {0, 1, blocks - 1}, j \in 0..(split - 1) :
            /\ at(b, j) >= b * MlaPage
            /\ at(b, j) + Kernel * model.draftToken <= (b + 1) * MlaPage

\* What boots has a tensor for each layer, and a pool within the memory and
\* no smaller than one request of full length.
RequestFitsThePool ==
  pc \in {"coordinate", "up"} =>
    /\ blocks * PerBlock <= memory /\ blocks >= Needed
    /\ Shared => model.drafts <= model.mlas

\* Only a group that cannot shorten a hit is kept sparser than the global
\* setting says, and a setting for it is in force or refused.
RetentionOnlyStarvesTheExempt ==
  pc = "up" =>
    /\ \A g \in InMin : retain[g] = env.global
    /\ "retention" \in applied /\ env.swa # Unset => "swa" \in Names /\ retain["swa"] = env.swa

\* A hit below the block of a group that takes part needs its support.
PartialLookupsAreSupported ==
  pc = "up" /\ partial =>
    \A g \in Names : Participates(g) => g \in model.fine \/ BlockOf(g) = model.hashBlock
=============================================================================

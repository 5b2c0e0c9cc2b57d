-------------------------------- MODULE Exl3 --------------------------------
(***************************************************************************)
(* The routed experts of the quantised checkpoint (overlay/exl3.py): every *)
(* rank keeps its slice of each expert; the tier that will run the experts *)
(* with more rows than a kernel launch holds is resolved as a layer is     *)
(* loaded; and every batch is split between the fused kernel, row tiles,   *)
(* the three fat tiers and the loop, each of which finds the rows of an    *)
(* expert in its own way.                                                  *)
(*                                                                         *)
(* A row is one (token, choice) pair of the router.  What is computed from *)
(* a row is left out: only which rows each expert was run on.              *)
(***************************************************************************)
EXTENDS Integers, Sequences, FiniteSets, FiniteSetsExt

CONSTANTS
  Setups,   \* the environment, the image and the checkpoint of a boot
  Tile,     \* width of a trellis tile, 16
  Layers,   \* layers with routed experts
  Local,    \* experts of a layer on this rank
  TopK,     \* experts a token is routed to
  Routes,   \* what the router may choose for a token
  Sizes,    \* tokens of a batch
  Floor,    \* least rows of the scratch, 256
  MaxCalls  \* bound: layers run

VARIABLES
  setup,    \* fixed at boot
  step,     \* loading of a layer, serving, or failed
  todo,     \* shards of the layer that are not loaded yet
  slices,   \* of each shard, what every rank holds
  layers,   \* what was resolved for the layers loaded so far
  diag,     \* _EXL3_FAT_DIAG
  scratch,  \* rows of _FAT_SCRATCH_CACHE
  ids,      \* the router's choice for the last batch
  done      \* the rows each expert was run on, and in which place of which launch

xvars == <<setup, step, todo, slices, layers, diag, scratch, ids, done>>

Experts == 0..(Local - 1)
Before(f, e) ==
  LET upTo[d \in 0..Local] == IF d = 0 THEN 0 ELSE upTo[d - 1] + f[d - 1] IN upTo[e]
Largest(f) == Max({f[e] : e \in DOMAIN f} \cup {0})

----------------------------------------------------------------------------
(* The slices of the ranks                                                 *)

Ranks == 0..(setup.tp - 1)
Whole(n) == 0..(n - 1)

\* _narrow_tp
Narrow(n, r) == LET c == n \div setup.tp IN (c * r)..(c * (r + 1) - 1)
Narrows(n) == n % setup.tp = 0

\* shard_exl3_col: of gate and up, the columns of trellis and svh.
ShardCol(r) == [tiles |-> Narrow(setup.inter \div Tile, r), suh |-> {}, svh |-> Narrow(setup.inter, r)]
\* Mutant: the input scales of down are dealt out from the last rank.
ShardRowReversed(r) ==
  [tiles |-> Narrow(setup.inter \div Tile, r), suh |-> Narrow(setup.inter, setup.tp - 1 - r), svh |-> {}]

\* shard_exl3_row: of down, the rows of trellis and suh.
ShardRow(r) == [tiles |-> Narrow(setup.inter \div Tile, r), suh |-> Narrow(setup.inter, r), svh |-> {}]

\* create_weights, of a layer whose intermediate size vLLM has divided.
CreateWeights ==
  LET local == setup.inter \div setup.tp IN
  /\ step = "create"
  /\ step' = IF local % Tile # 0 THEN "failed" ELSE "load"
  /\ todo' = {"w1", "w2", "w3"} /\ slices' = << >>
  /\ UNCHANGED <<setup, layers, diag, scratch, ids, done>>

\* _load_exl3, of every rank.
LoadShard(id) ==
  LET held == [r \in Ranks |-> IF id = "w2" THEN ShardRow(r) ELSE ShardCol(r)] IN
  /\ step = "load" /\ id \in todo
  /\ IF Narrows(setup.inter \div Tile) /\ Narrows(setup.inter)
     THEN /\ slices' = [i \in DOMAIN slices \cup {id} |-> IF i = id THEN held ELSE slices[i]]
          /\ todo' = todo \ {id} /\ UNCHANGED step
     ELSE step' = "failed" /\ UNCHANGED <<todo, slices>>
  /\ UNCHANGED <<setup, layers, diag, scratch, ids, done>>

----------------------------------------------------------------------------
(* The tier, at load                                                       *)

Tiers == {"legacy", "sorted", "batched", "kernel"}

ConfiguredTier ==
  IF setup.kernel THEN "kernel" ELSE IF setup.batched THEN "batched"
  ELSE IF setup.sorted THEN "sorted" ELSE "legacy"

\* resolve_exl3_fat_tier; "raises" when the image lacks the kernel.
ResolveTier(shared) ==
  IF ConfiguredTier \in {"kernel", "batched"} /\ ~shared THEN "sorted"
  ELSE IF ConfiguredTier = "kernel" /\ ~({"gemm", "scatter"} \subseteq setup.image) THEN "raises"
  ELSE ConfiguredTier

\* process_weights_after_loading, with _record_exl3_fat_resolution and
\* build_exl3_fused_state.
ProcessWeights(shared, marker) ==
  LET tier == ResolveTier(shared)
      layer == [tier |-> tier, shared |-> shared, last |-> "none",
                ptrs |-> setup.fused /\ "moe" \in setup.image]
  IN /\ step = "load" /\ todo = {} /\ UNCHANGED <<setup, slices, todo, scratch, ids, done>>
     /\ IF ~marker \/ tier = "raises" THEN step' = "failed" /\ UNCHANGED <<layers, diag>>
        ELSE /\ layers' = Append(layers, layer)
             /\ step' = IF Len(layers) + 1 = Layers THEN "serve" ELSE "create"
             /\ diag' = [diag EXCEPT !.loaded = @ + 1, !.sharedLayers = @ + (IF shared THEN 1 ELSE 0),
                           !.shared = diag.sharedLayers + (IF shared THEN 1 ELSE 0) = diag.loaded + 1,
                           !.tier = tier]

----------------------------------------------------------------------------
(* A batch                                                                 *)

Rows == DOMAIN ids
Cap == setup.cap

\* map_topk_to_local: what is not an expert of this rank becomes Local.
Localize(id) ==
  LET mapped == IF setup.map = << >> THEN id ELSE IF id \in DOMAIN setup.map THEN setup.map[id] ELSE -1
  IN IF id >= 0 /\ mapped \in Experts THEN mapped ELSE Local

\* local.argsort(), which need not be stable, and the counts.
Place(r, i) == Cardinality({j \in DOMAIN r : Localize(r[j]) < Localize(r[i])})
                 + Cardinality({j \in DOMAIN r : Localize(r[j]) = Localize(r[i]) /\ j <= i})
Sorted(r) == [k \in DOMAIN r |-> CHOOSE i \in DOMAIN r : Place(r, i) = k]
Counts(r) == [e \in Experts |-> Cardinality({i \in DOMAIN r : Localize(r[i]) = e})]

Fat(counts) == {e \in Experts : counts[e] > Cap}

\* A launch runs each of the experts E on the first of its rows, as many as
\* `size` says; they follow the rows of the experts before it.
Slices(launch, E, counts, rows, size) ==
  UNION {{[launch |-> launch, nth |-> j, expert |-> e, row |-> rows[Before(counts, e) + j]] :
            j \in 1..size[e]} : e \in E}

\* exl3_moe skips the experts with more rows than the temporaries hold.
Kernel(launch, counts, rows) == Slices(launch, Experts \ Fat(counts), counts, rows, counts)

\* Mutant: a tile takes its rows from the start of the expert.
TileRowsFromStart(counts, rows, row0) ==
  LET n == [e \in Experts |-> Max({0, Min({Cap, counts[e] - row0})})]
      cum == [e \in Experts |-> Before(n, e) + n[e]]
      src(idx) == LET e == Min({d \in Experts : cum[d] > idx}) IN Before(counts, e) + idx - (cum[e] - n[e])
  IN [counts |-> n, rows |-> [k \in 1..Before(n, Local) |-> rows[src(k - 1) + 1]]]

\* One tile of _exl3_moe_row_tiles: at most Cap rows of every expert.
TileRows(counts, rows, row0) ==
  LET n == [e \in Experts |-> Max({0, Min({Cap, counts[e] - row0})})]
      cum == [e \in Experts |-> Before(n, e) + n[e]]
      src(idx) == LET e == Min({d \in Experts : cum[d] > idx})
                  IN Before(counts, e) + row0 + idx - (cum[e] - n[e])
  IN [counts |-> n, rows |-> [k \in 1..Before(n, Local) |-> rows[src(k - 1) + 1]]]

RowTiles(counts, rows) ==
  UNION {LET tile == TileRows(counts, rows, (t - 1) * Cap) IN Kernel(t, tile.counts, tile.rows) :
           t \in 1..((Largest(counts) + Cap - 1) \div Cap)}

\* apply_exl3_sorted_fat: slices of the sort.
SortedFat(counts, rows) == Slices(0, Fat(counts), counts, rows, counts)

\* _fat_scratch: kept from layer to layer, and grown to a power of two.
Grown(old, n) ==
  LET needed == Max({Floor, n})
      double[k \in 0..needed] == IF k = 0 THEN 1 ELSE 2 * double[k - 1]
  IN IF old >= n THEN old ELSE Min({double[k] : k \in 0..needed} \ 0..(needed - 1))

\* The scratch once the fat experts up to e have asked for it.
ScratchAt(counts, e) ==
  LET upTo[d \in 0..Local] ==
        IF d = 0 THEN scratch
        ELSE IF counts[d - 1] > Cap THEN Grown(upTo[d - 1], counts[d - 1]) ELSE upTo[d - 1]
  IN upTo[e + 1]

\* apply_exl3_batched_fat: the same slices, through the scratch.
BatchedFat(counts, rows) ==
  Slices(0, Fat(counts), counts, rows, [e \in Experts |-> Min({counts[e], ScratchAt(counts, e)})])

\* apply_exl3_python_loop: by the router's own number of the expert.
Loop(r, only) ==
  LET mapped(raw) == IF setup.map # << >> /\ raw \in DOMAIN setup.map THEN setup.map[raw] ELSE raw
  IN {[launch |-> 0, nth |-> i, expert |-> mapped(r[i]), row |-> i] :
        i \in {j \in DOMAIN r : r[j] >= 0 /\ mapped(r[j]) \in Experts \cap only}}

\* Mutant: the tier does not ask whether gate and up share their input.
FatTierUnshared(layer) ==
  IF setup.kernel THEN "kernel" ELSE IF setup.batched THEN "batched"
  ELSE IF setup.sorted THEN "sorted" ELSE "legacy"

\* apply_exl3_fused_moe reads the environment again.
FatTier(layer) ==
  IF (setup.kernel \/ setup.batched) /\ layer.shared
  THEN IF setup.kernel THEN "kernel" ELSE "batched"
  ELSE IF setup.sorted \/ setup.batched \/ setup.kernel THEN "sorted" ELSE "legacy"

\* The fat experts of a batch, after the launch that skipped them.
RunFat(tier, counts, rows, r) ==
  CASE tier = "legacy" -> Loop(r, Fat(counts))
    [] tier = "sorted" -> SortedFat(counts, rows)
    [] OTHER -> BatchedFat(counts, rows)

\* apply_exl3_batched_fat wants the symbols of the pipelined kernel only now.
Raises(tier) == tier = "kernel" /\ setup.pipe /\ "pipe" \notin setup.image

\* record_exl3_fat_expert_stats, of a batch larger than the temporaries.
Stats(fat) == [diag EXCEPT !.prefills = @ + 1, !.slots = @ + fat,
                           !.fatLayers = @ + (IF fat > 0 THEN 1 ELSE 0)]

Served(l, run, last) ==
  done' = run /\ layers' = [layers EXCEPT ![l] = [@ EXCEPT !.last = last]] /\ UNCHANGED step

\* apply_exl3_experts: the next layer of a pass, and what its router chose.
Apply(r) ==
  LET l == (diag.calls % Layers) + 1
      layer == layers[l]
      counts == Counts(r)
      rows == Sorted(r)
      tokens == Len(r) \div TopK
      fat == Cardinality(Fat(counts))
      tier == FatTier(layer)
      prefill == Stats(fat)
  IN /\ step = "serve" /\ diag.calls < MaxCalls
     /\ ids' = r /\ UNCHANGED <<setup, todo, slices>>
     /\ scratch' = IF layer.ptrs /\ tokens > Cap /\ ~setup.tiles /\ tier \in {"batched", "kernel"} /\ ~Raises(tier)
                   THEN ScratchAt(counts, Local - 1) ELSE scratch
     /\ \/ /\ ~layer.ptrs
           /\ Served(l, Loop(r, Experts), layer.last) /\ diag' = [diag EXCEPT !.calls = @ + 1]
        \/ /\ layer.ptrs /\ tokens <= Cap
           /\ Served(l, Kernel(1, counts, rows), "none") /\ diag' = [diag EXCEPT !.calls = @ + 1]
        \/ /\ layer.ptrs /\ tokens > Cap /\ fat = 0
           /\ Served(l, Kernel(1, counts, rows), "none")
           /\ diag' = [prefill EXCEPT !.calls = @ + 1, !.thin = @ + 1]
        \/ /\ layer.ptrs /\ tokens > Cap /\ fat > 0 /\ setup.tiles
           /\ Served(l, RowTiles(counts, rows), "row_tile")
           /\ diag' = [prefill EXCEPT !.calls = @ + 1, !.tiles = @ + 1]
        \/ /\ layer.ptrs /\ tokens > Cap /\ fat > 0 /\ ~setup.tiles
           /\ IF Raises(tier) THEN step' = "raised" /\ UNCHANGED <<layers, done>>
              ELSE Served(l, Kernel(1, counts, rows) \cup RunFat(tier, counts, rows, r), tier)
           /\ diag' = [prefill EXCEPT !.calls = @ + 1, !.runs[tier] = @ + 1,
                         !.fat = IF Raises(tier) THEN @ ELSE @ + fat]

Init ==
  /\ setup \in Setups
  /\ step = "create" /\ todo = {} /\ slices = << >> /\ layers = << >>
  /\ ids = << >> /\ done = {} /\ scratch = 0
  /\ diag = [loaded |-> 0, sharedLayers |-> 0, shared |-> FALSE, tier |-> "legacy", calls |-> 0,
             prefills |-> 0, slots |-> 0, fatLayers |-> 0, thin |-> 0, tiles |-> 0, runs |-> [t \in Tiers |-> 0], fat |-> 0]

\* A batch, token by token.
Batches ==
  UNION {{[i \in 1..(n * TopK) |-> b[((i - 1) \div TopK) + 1][((i - 1) % TopK) + 1]] :
            b \in [1..n -> Routes]} : n \in Sizes}

Next ==
  \/ CreateWeights
  \/ \E id \in {"w1", "w2", "w3"} : LoadShard(id)
  \/ \E shared, marker \in BOOLEAN : ProcessWeights(shared, marker)
  \/ \E r \in Batches : Apply(r)
Spec == Init /\ [][Next]_xvars

----------------------------------------------------------------------------
(* Properties                                                              *)

\* exl3.py:1120-1126: whichever way a batch is split, every row is run once,
\* by the expert the router chose; rows of other ranks by none.
EachRowOnce ==
  step = "serve" => \A i \in DOMAIN ids :
    LET runs == {d \in done : d.row = i} IN
    IF Localize(ids[i]) = Local THEN runs = {}
    ELSE \E d \in runs : runs = {d} /\ d.expert = Localize(ids[i])

\* exl3.py:252-261: a checkpoint that loads runs its fat experts in the tier
\* resolved then, and never fails in a prefill; and the counters of the
\* diagnosis account for every prefill.  (A pipeline that the image lacks is
\* asked for too late: see Raises.)
LoadDecidesTheTier ==
  /\ step = "raised" => setup.pipe /\ "pipe" \notin setup.image
  /\ \A l \in DOMAIN layers : layers[l].last \in {"none", "row_tile", layers[l].tier}
  /\ diag.fatLayers = diag.prefills - diag.thin
  /\ step # "raised" => diag.fat = IF setup.tiles THEN 0 ELSE diag.slots
  /\ diag.prefills = diag.thin + diag.tiles + diag.runs["legacy"] + diag.runs["sorted"]
                       + diag.runs["batched"] + diag.runs["kernel"]

\* exl3.py:497-524: together the ranks hold every column of gate and up and
\* every row of down once, and each rank holds the rows of down that its
\* columns of gate and up feed.
RanksShareTheExpert ==
  step \in {"load", "create", "serve"} /\ DOMAIN slices = {"w1", "w2", "w3"} =>
    LET of(id, r) == IF id = "w2" THEN slices[id][r].suh ELSE slices[id][r].svh IN
    /\ \A r \in Ranks : /\ of("w1", r) = of("w2", r) /\ of("w3", r) = of("w2", r)
                        /\ of("w2", r) = {i \in Whole(setup.inter) : i \div Tile \in slices["w2"][r].tiles}
    /\ UNION {of("w2", r) : r \in Ranks} = Whole(setup.inter)
    /\ \A r, s \in Ranks : r # s => of("w2", r) \cap of("w2", s) = {}
=============================================================================

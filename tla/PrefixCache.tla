---------------------------- MODULE PrefixCache ----------------------------
(***************************************************************************)
(* The GPU prefix cache of the vLLM lane as the overlays leave it: the     *)
(* block pool and its free queue, the per-request "no-store" flag, the     *)
(* retention interval of the drafter's group and the reconciliation of the *)
(* hits of the groups (patch_apc_no_store, patch_apc_per_group_retention,  *)
(* patch_hybrid_prefix_hit, patch_prefix_cache_sparse_miss_metric).        *)
(*                                                                         *)
(* A prompt is a sequence of segments, the 3584 tokens at which the groups *)
(* align; a segment costs each group one block.  Giving a segment its      *)
(* blocks and hashing them is one step, as in allocate_slots.              *)
(***************************************************************************)
EXTENDS Naturals, Sequences, FiniteSets, SequencesExt

CONSTANTS
  Reqs,        \* request slots
  Prompts,     \* sequences of segments
  NumBlocks,   \* the pool
  Flags,       \* values sent as skip_writing_prefix_cache, or Absent
  Honoured,    \* GLM53_APC_NO_STORE
  SwaRetention, \* retention_interval_by_group of the drafter, in segments
  ReleaseOrder, \* the groups in the order in which vLLM frees their blocks
  MaxAsks      \* bound on the number of requests

None == << >>                      \* no hash
Absent == "absent"

\* Mutant: the drafter's group comes before the one that may shrink the hit.
OrderDraftEarly == <<"mla", "swa", "mamba">>

Order == <<"mla", "mamba", "swa">> \* the drafter's group is appended last
Groups == Range(Order)
Blocks == 1..NumBlocks
Flag01 == {"0", "1"}               \* what the strict parser accepts

Segments == UNION {Range(p) : p \in Prompts}

\* vLLM refuses an empty prompt; each group is freed once.
ASSUME PrefixCacheAssumption ==
  /\ IsFiniteSet(Reqs) /\ NumBlocks \in Nat /\ SwaRetention \in Nat /\ MaxAsks \in Nat
  /\ Honoured \in BOOLEAN /\ \A p \in Prompts : p \in Seq(Segments) /\ p # << >>
  /\ ReleaseOrder \in Seq(Groups) /\ Len(ReleaseOrder) = 3 /\ Range(ReleaseOrder) = Groups

VARIABLES
  pool,    \* hash and ref of each block; free: the queue of blocks to hand out
  asked,   \* the prompt of each request, << >> when there is none
  nostore, \* Request.skip_writing_prefix_cache
  table,   \* table[r][g]: the blocks of r, 0 where its group needs none
  cached,  \* num_cached_block: segments of r whose hashes were dealt with
  misses,  \* sparse_retention_misses of the last admission, in segments
  lost,    \* history: blocks evicted since a request that stores was admitted
  peak,    \* history: most blocks in use over that time
  asks     \* requests so far

vars == <<pool, asked, nostore, table, cached, misses, lost, peak, asks>>

Key(g, p, i) == <<g, SubSeq(p, 1, i)>>
Done(r) == Len(table[r]["mla"])
Running(r) == Done(r) > 0

----------------------------------------------------------------------------
(* The pool                                                                *)

\* The elements of s that are in S, in their order.
Only(s, S) ==
  LET f[n \in 0..Len(s)] ==
        IF n = 0 THEN << >> ELSE IF s[n] \in S THEN Append(f[n - 1], s[n]) ELSE f[n - 1]
  IN  f[Len(s)]

InUse(o) == {b \in Blocks : o.ref[b] > 0}
Hashed(o) == {b \in Blocks : o.hash[b] # None}

\* get_new_blocks, for one block: the front of the queue loses its hash.
Take(o) ==
  LET b == Head(o.free) IN
  [hash |-> [o.hash EXCEPT ![b] = None], ref |-> [o.ref EXCEPT ![b] = 1],
   free |-> Tail(o.free)]

\* free_blocks: hashed blocks queue at the back, the others go to the front.
FreeBlocks(o, bs) ==
  LET ref == [b \in Blocks |-> o.ref[b] - Cardinality({i \in DOMAIN bs : bs[i] = b})]
      gone == {b \in Blocks : ref[b] = 0}
      keyed == Hashed(o)
  IN [o EXCEPT !.ref = ref,
               !.free = Only(bs, gone \ keyed) \o o.free \o Only(bs, gone \cap keyed)]

Touch(o, B) ==
  [o EXCEPT !.ref = [b \in Blocks |-> IF b \in B THEN o.ref[b] + 1 ELSE o.ref[b]],
            !.free = Only(o.free, Blocks \ B)]

\* reachable_block_mask under the interval of the group.
Retained(g, p, i) ==
  \/ g # "swa"
  \/ i = Len(p)
  \/ SwaRetention > 0 /\ i % SwaRetention = 0

\* Mutant: the flag of the request is not looked at.
CacheRegardless(o, r, p, i, bs) ==
  [o EXCEPT !.hash = [b \in Blocks |->
     IF \E g \in Groups : bs[g] = b /\ Retained(g, p, i)
     THEN Key(CHOOSE g \in Groups : bs[g] = b, p, i) ELSE @[b]]]

\* cache_full_blocks for the blocks bs of segment i.
CacheFull(o, r, p, i, bs) ==
  IF nostore[r] THEN o ELSE CacheRegardless(o, r, p, i, bs)

----------------------------------------------------------------------------
(* The hit                                                                 *)

Stored(k) == \E b \in Blocks : pool.hash[b] = k
BlockOf(k) == CHOOSE b \in Blocks : pool.hash[b] = k
Longest(n, Test(_)) == CHOOSE i \in 0..n : Test(i) /\ \A j \in (i + 1)..n : ~Test(j)

MlaFind(p, n) == Longest(n, LAMBDA i : \A j \in 1..i : Stored(Key("mla", p, j)))
StateFind(g, p, n) == Longest(n, LAMBDA i : i = 0 \/ Stored(Key(g, p, i)))

\* Mutant: the drafter takes part in the minimum.
DraftFindsShrinking(s, p, pop) ==
  LET n == StateFind("swa", p, s.hit) - (IF pop /\ StateFind("swa", p, s.hit) > 0 THEN 1 ELSE 0)
  IN [s EXCEPT !.draft = n, !.hit = n]

\* The drafter does not shrink the hit; its window is kept when it covers it.
DraftFinds(s, p, pop) ==
  LET found == StateFind("swa", p, s.hit)
      n == IF pop /\ found > 0 THEN found - 1 ELSE found
  IN IF n >= s.hit THEN [s EXCEPT !.draft = n] ELSE s

\* One group of the loop over attention_groups.
Visit(s, g, p, pop) ==
  IF g = "swa" THEN DraftFinds(s, p, pop)
  ELSE LET n == IF g = "mla" THEN MlaFind(p, s.hit) ELSE StateFind(g, p, s.hit)
       IN [s EXCEPT !.hit = n, !.longest = IF n > @ THEN n ELSE @]

Pass(s, p, pop) ==
  Visit(Visit(Visit(s, Order[1], p, pop), Order[2], p, pop), Order[3], p, pop)

\* find_longest_cache_hit: passes over the groups until the hit stands still.
\* pop: the drafter loses the last block of what it matched on the first pass.
Reconcile(p, pop) ==
  LET pass[k \in 0..Len(p)] ==
        IF k = 0 THEN [hit |-> Len(p) - 1, draft |-> 0, longest |-> 0]
        ELSE Pass(pass[k - 1], p, pop /\ k = 1)
  IN pass[Len(p)]

\* The blocks a request starts from: the KV of every segment of the hit, and
\* the state at its end.
HitTable(p, s) ==
  [g \in Groups |->
     IF g = "mla" THEN [i \in 1..s.hit |-> BlockOf(Key(g, p, i))]
     ELSE IF g = "swa" /\ s.draft = 0 THEN [i \in 1..s.hit |-> 0]
     ELSE LET n == IF g = "swa" THEN s.draft ELSE s.hit
          IN [i \in 1..n |-> IF i = n THEN BlockOf(Key(g, p, n)) ELSE 0]]

----------------------------------------------------------------------------
(* Requests                                                                *)

Init ==
  /\ pool = [hash |-> [b \in Blocks |-> None], ref |-> [b \in Blocks |-> 0],
             free |-> [i \in Blocks |-> i]]
  /\ asked = [r \in Reqs |-> << >>] /\ nostore = [r \in Reqs |-> FALSE]
  /\ table = [r \in Reqs |-> [g \in Groups |-> << >>]]
  /\ cached = [r \in Reqs |-> 0] /\ misses = 0 /\ lost = 0 /\ peak = 0 /\ asks = 0

\* A malformed flag is refused with a 400 whatever the switch says.  The typed
\* field goes first, then vllm_xargs.
Ask(r) ==
  /\ asked[r] = << >> /\ asks < MaxAsks /\ asks' = asks + 1
  /\ \E p \in Prompts, typed \in Flags, extra \in Flags :
       /\ {typed, extra} \subseteq Flag01 \cup {Absent}
       /\ asked' = [asked EXCEPT ![r] = p]
       /\ nostore' = [nostore EXCEPT ![r] =
            Honoured /\ (IF typed # Absent THEN typed ELSE extra) = "1"]
  /\ UNCHANGED <<pool, table, cached, misses, lost, peak>>

\* Segment i of r gets a block in each group and is hashed; o is the pool, t
\* the table of r before.
Grow(r, o, t, i) ==
  LET o1 == Take(o)
      o2 == Take(o1)
      o3 == Take(o2)
      bs == [mla |-> Head(o.free), mamba |-> Head(o1.free), swa |-> Head(o2.free)]
      gone == Cardinality({g \in Groups : o.hash[bs[g]] # None})
      after == CacheFull(o3, r, asked[r], i, bs)
      busy == Cardinality(InUse(after))
  IN /\ pool' = after
     /\ table' = [table EXCEPT ![r] = [g \in Groups |-> Append(t[g], bs[g])]]
     /\ cached' = [cached EXCEPT ![r] = i]
     /\ lost' = IF nostore[r] THEN lost + gone ELSE 0
     /\ peak' = IF nostore[r] /\ peak > busy THEN peak ELSE busy

\* The blocks of the hit leave the queue before new ones are taken from it.
Admit(r) ==
  /\ asked[r] # << >> /\ ~Running(r)
  /\ \E pop \in BOOLEAN :
       LET s == Reconcile(asked[r], pop)
           t == HitTable(asked[r], s)
           o == Touch(pool, (UNION {Range(t[g]) : g \in Groups}) \ {0})
       IN /\ Len(o.free) >= Len(Order)
          /\ Grow(r, o, t, s.hit + 1)
          /\ misses' = s.longest - s.hit
  /\ UNCHANGED <<asked, nostore, asks>>

\* remove_skipped_blocks: the window does not reach back over a whole segment.
Skip(r) == Done(r) - 1
Skipped(r) ==
  IF Skip(r) = 0 THEN pool ELSE FreeBlocks(pool, <<table[r]["swa"][Skip(r)]>>)
Trimmed(r) ==
  IF Skip(r) = 0 THEN table[r] ELSE [table[r] EXCEPT !["swa"][Skip(r)] = 0]

Advance(r) ==
  /\ Running(r) /\ Done(r) < Len(asked[r])
  /\ Len(Skipped(r).free) >= Len(Order)
  /\ Grow(r, Skipped(r), Trimmed(r), Done(r) + 1)
  /\ UNCHANGED <<asked, nostore, misses, asks>>

\* The last blocks of a group are handed out again first.
FreeGroup(o, r, g) == FreeBlocks(o, Reverse(table[r][g]))

Release(r) ==
  /\ pool' = FreeGroup(FreeGroup(FreeGroup(pool, r, ReleaseOrder[1]), r, ReleaseOrder[2]), r, ReleaseOrder[3])
  /\ table' = [table EXCEPT ![r] = [g \in Groups |-> << >>]]
  /\ cached' = [cached EXCEPT ![r] = 0]

Finish(r) ==
  /\ Running(r) /\ Done(r) = Len(asked[r])
  /\ Release(r)
  /\ asked' = [asked EXCEPT ![r] = << >>] /\ nostore' = [nostore EXCEPT ![r] = FALSE]
  /\ UNCHANGED <<misses, lost, peak, asks>>

\* A running request that finds no block for its next segment makes room.
Preempt(r) ==
  /\ Running(r)
  /\ \E q \in Reqs : /\ Running(q) /\ Done(q) < Len(asked[q])
                     /\ Len(Skipped(q).free) < Len(Order)
  /\ Release(r)
  /\ UNCHANGED <<asked, nostore, misses, lost, peak, asks>>

\* /reset_prefix_cache answers only when no block is in use.
ResetPrefixCache ==
  /\ InUse(pool) = {} /\ Hashed(pool) # {}
  /\ pool' = [pool EXCEPT !.hash = [b \in Blocks |-> None]]
  /\ lost' = 0 /\ peak' = 0
  /\ UNCHANGED <<asked, nostore, table, cached, misses, asks>>

Next ==
  \/ \E r \in Reqs : Ask(r) \/ Admit(r) \/ Advance(r) \/ Finish(r) \/ Preempt(r)
  \/ ResetPrefixCache

Spec == Init /\ [][Next]_vars

----------------------------------------------------------------------------
(* Properties                                                              *)

\* The places of the tables that name block b.
Uses(b) ==
  {x \in UNION {{r} \X {g} \X DOMAIN table[r][g] : r \in Reqs, g \in Groups} : table[x[1]][x[2]][x[3]] = b}

\* Every block is either in the queue, once, or counted for the tables that
\* name it; a table names a block that is plain or carries the checkpoint of
\* its own place; the groups of a request cover the same segments, those
\* whose hashes were dealt with (also for a request that stores nothing).
BlocksAccountedFor ==
  /\ \A b \in Blocks :
       /\ pool.ref[b] = Cardinality(Uses(b))
       /\ Cardinality({i \in DOMAIN pool.free : pool.free[i] = b}) = IF pool.ref[b] = 0 THEN 1 ELSE 0
  /\ \A r \in Reqs, g \in Groups :
       /\ Len(table[r][g]) = cached[r]
       /\ \A i \in 1..cached[r] : table[r][g][i] # 0 =>
            pool.hash[table[r][g][i]] \in {None, Key(g, asked[r], i)}

\* A lane of requests that store nothing costs the others no more blocks than
\* it has in use at once, however many of them run one after the other.
NoStoreCostsItsPeak == lost <= peak

Checkpoints == {pool.hash[b] : b \in Hashed(pool)}

\* The cache keeps the promise of PrefixStore: the hit is the longest prefix
\* with both checkpoints whatever the drafter holds, what a request works on
\* stays, and a request that must not store leaves nothing behind.
Shared(S) == {k \in S : k[1] # "swa"}
Promise == INSTANCE PrefixStore WITH
  store <- Shared(Checkpoints),
  held <- [r \in Reqs |-> Shared({pool.hash[b] : b \in
             Hashed(pool) \cap UNION {Range(table[r][g]) : g \in Groups}})],
  done <- [r \in Reqs |-> Done(r)],
  missed <- misses,
  saves <- [r \in Reqs |-> ~nostore[r]]
ImplementsPrefixStore == Promise!Spec
=============================================================================

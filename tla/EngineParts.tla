---------------------------- MODULE EngineParts ----------------------------
(***************************************************************************)
(* The parts of the patched engine that keep their own state: the sparse   *)
(* indexer's workspace, the plan of the KV cache, the structured-output    *)
(* manager with the stop strings, and the EXL3 experts.  They share no     *)
(* variable, so a behaviour is one of one part while the others rest: at   *)
(* an initial state, or empty.                                             *)
(***************************************************************************)
EXTENDS IndexerWorkspace

CONSTANTS
  Geometries, Memories, Intervals,
  Tokens, Language, Text, Marker, Stops, MaxDraft, MaxOut,
  Setups, Tile, Layers, Local, TopK, Routes, Sizes, Floor, MaxCalls

\* The numbers of a model, and what an image and a checkpoint can say of the
\* experts.
ASSUME PlanAssumption ==
  /\ Geometries \subseteq
       [mlaBlock : Nat \ {0}, mlaToken : Nat \ {0}, mlas : Nat \ {0}, idxPage : Nat,
        drafts : Nat, draftToken : Nat \ {0}, window : Nat \ {0}, batch : Nat,
        length : Nat, states : Nat, fine : SUBSET {"mla", "tail", "mamba", "swa"},
        hashBlock : Nat]
  /\ Memories \subseteq Nat

ASSUME ExpertsAssumption ==
  /\ Tile \in Nat \ {0} /\ Layers \in Nat \ {0} /\ Local \in Nat /\ TopK \in Nat \ {0}
  /\ Sizes \subseteq Nat /\ Floor \in Nat
  /\ \A s \in Setups : /\ s.tp \in Nat \ {0} /\ s.inter \in Nat /\ s.cap \in Nat \ {0}
                       /\ {s.fused, s.sorted, s.batched, s.kernel, s.pipe, s.tiles} \subseteq BOOLEAN

\* An expert map has an entry for every expert of the router, and no two of
\* them are one of this rank; the router chooses no expert twice for a token.
ASSUME RouterAssumption ==
  /\ \A s \in Setups : s.map # << >> =>
       /\ \A g \in DOMAIN s.map : g \in Nat /\ s.map[g] \in Int
       /\ \A g, h \in DOMAIN s.map : s.map[g] = s.map[h] /\ s.map[g] >= 0 => g = h
  /\ \A t \in Routes : /\ t \in [1..TopK -> Int]
                       /\ \A i, j \in 1..TopK : t[i] = t[j] /\ t[i] >= 0 => i = j
                       /\ \A s \in Setups, i \in 1..TopK :
                            s.map # << >> /\ t[i] >= 0 => t[i] \in DOMAIN s.map

\* A text is a sequence of characters, and a grammar accepts no empty output:
\* the last token of what it accepts is EOS.
ASSUME OutputAssumption ==
  /\ Language \subseteq Seq(Tokens) \ {<< >>}
  /\ Text \in [Tokens -> Seq(STRING)] /\ Marker \in Seq(STRING) \ {<< >>}
  /\ Stops \subseteq Seq(STRING) \ {<< >>}

VARIABLES
  part,
  pc, model, memory, draft, blocks, applied, env, retain, partial,
  grammar, think, drafts, out, from, failed, detok,
  setup, step, todo, slices, layers, diag, scratch, ids, done

Plan == INSTANCE KvPlan
Output == INSTANCE StructuredOutput
Moe == INSTANCE Exl3

kvars == <<pc, model, memory, draft, blocks, applied, env, retain, partial>>
ovars == <<grammar, think, drafts, out, from, failed, detok>>
mvars == <<setup, step, todo, slices, layers, diag, scratch, ids, done>>

WorkspaceRests == Init /\ mode = "unset" /\ kpool = 0 /\ ratio = 1
PlanRests ==
  /\ pc = << >> /\ model = << >> /\ memory = << >> /\ draft = << >> /\ blocks = << >>
  /\ applied = << >> /\ env = << >> /\ retain = << >> /\ partial = << >>
OutputRests ==
  /\ grammar = << >> /\ think = << >> /\ drafts = << >> /\ out = << >>
  /\ from = << >> /\ failed = << >> /\ detok = << >>
MoeRests ==
  /\ setup = << >> /\ step = << >> /\ todo = << >> /\ slices = << >> /\ layers = << >>
  /\ diag = << >> /\ scratch = << >> /\ ids = << >> /\ done = << >>

PartsInit ==
  \/ part = "indexer" /\ Init /\ PlanRests /\ OutputRests /\ MoeRests
  \/ part = "plan" /\ WorkspaceRests /\ Plan!Init /\ OutputRests /\ MoeRests
  \/ part = "output" /\ WorkspaceRests /\ PlanRests /\ Output!Init /\ MoeRests
  \/ part = "moe" /\ WorkspaceRests /\ PlanRests /\ OutputRests /\ Moe!Init

Indexing == part = "indexer" /\ Next /\ UNCHANGED <<part, kvars, ovars, mvars>>
Planning == part = "plan" /\ Plan!Next /\ UNCHANGED <<part, vars, ovars, mvars>>
Constraining == part = "output" /\ Output!Next /\ UNCHANGED <<part, vars, kvars, mvars>>
Multiplying == part = "moe" /\ Moe!Next /\ UNCHANGED <<part, vars, kvars, ovars>>

PartsNext == Indexing \/ Planning \/ Constraining \/ Multiplying

PartsSpec == PartsInit /\ [][PartsNext]_<<part, vars, kvars, ovars, mvars>>

----------------------------------------------------------------------------
(* The properties of the parts, stated in their modules; those of the      *)
(* workspace are in IndexerWorkspace.                                      *)

\* patch_glm5_drafter_group.py:35-58: no kernel block leaves its page.
KernelBlocksStayInTheirPage == part = "plan" => Plan!KernelBlocksStayInTheirPage

\* patch_glm5_drafter_group.py:420-560: what boots fits a request and the memory.
RequestFitsThePool == part = "plan" => Plan!RequestFitsThePool

\* patch_apc_per_group_retention.py:137-250: only exempt groups are kept sparse.
RetentionOnlyStarvesTheExempt == part = "plan" => Plan!RetentionOnlyStarvesTheExempt

\* patch_fine_grained_apc.py:46-57: partial hits are on where all support them.
PartialLookupsAreSupported == part = "plan" => Plan!PartialLookupsAreSupported

\* patch_xgrammar_termination.py:70-180: the matcher stands where the output does.
GrammarFollowsOutput == part = "output" => Output!GrammarFollowsOutput

\* patch_xgrammar_termination.py:160-175: no draft makes the grammar fail.
NoSpuriousFailure == part = "output" => Output!NoSpuriousFailure

\* patch_suppress_stops_in_reasoning.py:88-161: stops count after the reasoning.
StopsExactlyAfterReasoning == part = "output" => Output!StopsExactlyAfterReasoning

\* exl3.py:1120-1126: every row is run once, by the expert the router chose.
EachRowOnce == part = "moe" => Moe!EachRowOnce

\* exl3.py:252-261: the tier is decided when the checkpoint loads.
LoadDecidesTheTier == part = "moe" => Moe!LoadDecidesTheTier

\* exl3.py:497-524: the ranks' shards are the expert.
RanksShareTheExpert == part = "moe" => Moe!RanksShareTheExpert
=============================================================================

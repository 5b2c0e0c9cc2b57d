---------------------------- MODULE OverlayBoot ----------------------------
(***************************************************************************)
(* How a vLLM rank patches itself before it serves.  The start script runs *)
(* the overlay installers one after the other under `set -e` and then      *)
(* execs the engine (start.sh:1192-1245, 1312-1361).  Each installer reads *)
(* its target files, decides whether they are pristine, already patched or *)
(* neither, and writes them, some by an atomic rename, some in place.  The *)
(* container may die at any point and be started again on the files it     *)
(* left, and the image may carry some overlays, also of older versions.    *)
(*                                                                         *)
(* A file is its edit sites in the order of the text.  A site is "old"     *)
(* (the pinned anchor), "new" (this overlay's text), "gone" (past the end  *)
(* of a truncated file), "up" (upstream's own fix), or the text of an      *)
(* older version of the overlay.                                           *)
(***************************************************************************)
EXTENDS Naturals, Sequences

CONSTANTS
  ImageTexts, \* what an image carries: [sites, the initial text; indexer, whether it has that script]
  Gates,      \* the container's environment: [adaptive, retention, fine, sparse : BOOLEAN, spin]
  Roles,      \* the ranks modelled, of {"head", "worker"}
  MaxDeaths   \* bound: how often the container dies

VARIABLES
  env,        \* the container's role, environment and image scripts
  text,       \* the text of each site
  parses,     \* whether each file is valid Python
  at,         \* the installer that runs, an index of AllScripts
  todo,       \* the sites it decided to write
  staged,     \* the files it still has to write
  phase,      \* boot, refused (an installer failed), down (killed), serving
  torn,       \* the files a death left half-written
  deaths

bootVars == <<env, text, parses, at, todo, staged, phase, torn, deaths>>

----------------------------------------------------------------------------
(* The patched files of the image                                          *)

Layout == [
  kpool       |-> <<"topk">>,
  detokenizer |-> <<"sr_import", "sr_factory", "sr_init", "sr_stop">>,
  scheduler   |-> <<"os", "df_helper", "al_helper", "ak_helper", "al_split", "df_running", "df_waiting",
                    "alloc_exit", "admit", "sched_k", "ak_observe", "ak_update">>,
  cudagraph   |-> <<"cg_helper", "cg_lens">>,
  kv_utils    |-> <<"dg_edits", "dg_group", "dg_guard">>,
  coordinator |-> <<"co_os", "inner", "draft", "rt_helper", "hy_eagle", "rt_init", "rt_base", "fg_veto",
                    "fg_diag", "hy_log", "rt_hybrid", "hy_min">>,
  stats       |-> <<"sm_stats">>,
  manager     |-> <<"sm_manager">>,
  loggers     |-> <<"sm_counter", "sm_record">>,
  sampling    |-> <<"ns_field", "ns_helpers", "ns_post">>,
  request     |-> <<"ns_resolve", "ns_method">>,
  block_pool  |-> <<"ns_log", "ns_full", "ns_partial">>,
  xgrammar    |-> <<"xg_accept", "xg_validate", "xg_reset">>,
  structured  |-> <<"xg_manager">>,
  api_server  |-> <<"cr_mount">>,
  server_utils |-> <<"au_prefix", "au_check">>,
  block_table |-> <<"kp_clamp">>,
  broadcast   |-> <<"spin">>,
  indexer     |-> <<"iw_import", "iw_size", "iw_guard">>,
  model       |-> <<"ab_model">>,
  mtp         |-> <<"ab_mtp">>]

File == DOMAIN Layout
SitesOf(f) == {Layout[f][i] : i \in DOMAIN Layout[f]}
Site == UNION {SitesOf(f) : f \in File}
FileOf(s) == CHOOSE f \in File : s \in SitesOf(f)
Position(f, s) == CHOOSE i \in DOMAIN Layout[f] : Layout[f][i] = s

----------------------------------------------------------------------------
(* What an installer decides about the text it reads                       *)

Refuse == [ok |-> FALSE, new |-> {}]
Leave == [ok |-> TRUE, new |-> {}]
Patch(S) == [ok |-> TRUE, new |-> S]

Old(S) == \A s \in S : text[s] = "old"
New(S) == \A s \in S : text[s] = "new"
Carries(S) == \E s \in S : text[s] = "new"
Present(s) == text[s] # "gone"

\* A marked text is left alone when it passes the installer's check of it,
\* an unmarked one is patched when its anchors are there.
Installer(marked, whole, anchors, S) ==
  IF marked
  THEN IF whole THEN Leave ELSE Refuse
  ELSE IF anchors THEN Patch(S) ELSE Refuse

\* All targets are judged before the first one is written.
Together(V) ==
  IF \A v \in V : v.ok THEN Patch(UNION {v.new : v \in V}) ELSE Refuse

Video == Installer(New({"topk"}), TRUE, Old({"topk"}), {"topk"})

SR == SitesOf("detokenizer")
SuppressStops == Installer(Carries(SR \ {"sr_import"}), TRUE, Old(SR), SR)

DF == {"df_running", "df_waiting"}
DecodeFloor ==
  Installer(Carries(DF), TRUE, Present("os") /\ Present("df_helper") /\ Old(DF), {"os", "df_helper"} \cup DF)

AL == {"al_helper", "al_split"}
AlignFloor ==
  Installer(Carries(AL), parses["scheduler"] /\ New(AL \cup {"os"}),
            Present("os") /\ Old(AL) /\ parses["scheduler"], AL \cup {"os"})

AK == {"ak_helper", "ak_observe", "ak_update"}
AdaptiveScheduler ==
  LET able == parses["scheduler"] /\ New({"os"}) /\ Present("sched_k") IN
  IF ~env.adaptive THEN Leave ELSE Installer(Carries(AK), New(AK) /\ able, Old(AK) /\ able, AK)

CG == SitesOf("cudagraph")
AdaptiveGraph ==
  IF ~env.adaptive THEN Leave
  ELSE Installer(Carries(CG), New(CG) /\ parses["cudagraph"], Old(CG) /\ parses["cudagraph"], CG)

\* The sites of an image with an older drafter overlay are brought up to the
\* padded layout with its guard, whichever of the two it lacks.
DG == SitesOf("kv_utils")
DrafterGroup ==
  LET guard == IF text["dg_guard"] = "unpadded" THEN {"dg_guard"} ELSE {}
      group == IF text["dg_group"] \in {"keep", "compact"} THEN {"dg_group"} ELSE {}
  IN  IF ~New({"dg_edits"}) THEN Installer(FALSE, FALSE, Old(DG) /\ parses["kv_utils"], DG)
      ELSE IF guard \cup group # {} /\ ~parses["kv_utils"] THEN Refuse
      ELSE IF group = {} /\ ~New({"dg_group"}) THEN Refuse
      ELSE Patch(guard \cup group)

\* The helper the three coordinator overlays share is written by the first of
\* them, judged by its first function alone.
Shared(S) == IF Old({"inner"}) THEN S ELSE {}

HY == {"hy_eagle", "hy_log", "hy_min"}
HybridPrefixHit ==
  Installer(Carries(HY), TRUE, Present("inner") /\ Old(HY), HY \cup Shared({"inner", "draft"}))

RT == {"co_os", "rt_helper", "rt_init", "rt_base", "rt_hybrid"}
Retention ==
  IF ~env.retention THEN Leave
  ELSE Installer(Carries(RT), TRUE, Present("inner") /\ Old(RT), RT \cup Shared({"inner", "draft"}))

FG == {"fg_veto", "fg_diag"}
FineGrained ==
  IF ~env.fine THEN Leave
  ELSE Installer(Carries(FG), New(FG) /\ parses["coordinator"],
                 Present("inner") /\ Old(FG) /\ parses["coordinator"], FG \cup Shared({"inner"}))

\* One file of a transactional overlay: whole, pristine, or refused.
PreflightFile(f) ==
  LET S == SitesOf(f) IN
  Installer(Carries(S), New(S) /\ parses[f], Old(S) /\ parses[f], S)

SparsePreflight(f) == PreflightFile(f)

NoStoreFiles == {"sampling", "request", "block_pool"}

SparseMiss ==
  IF ~env.sparse THEN Leave
  ELSE IF /\ parses["scheduler"] /\ Present("alloc_exit") /\ Present("admit")
          /\ Position("scheduler", "alloc_exit") < Position("scheduler", "admit")
       THEN Together({SparsePreflight(f) : f \in {"stats", "manager", "loggers"}})
       ELSE Refuse

\* An installer that takes a mix of whole and pristine files for a partial one.
NoStoreAllOrNothing ==
  LET S == UNION {SitesOf(f) : f \in NoStoreFiles} IN Installer(Carries(S), New(S), Old(S), S)

NoStore == Together({PreflightFile(f) : f \in NoStoreFiles})

\* Text that carries the fix without the marker is upstream's.
Backend ==
  LET S == SitesOf("xgrammar")
      fixed == \A s \in S : text[s] \in {"new", "up"}
  IN  IF fixed THEN Leave ELSE Installer(New({"xg_accept"}), FALSE, Old(S), S)

Manager ==
  IF text["xg_manager"] \in {"new", "up"} THEN Leave ELSE Installer(FALSE, FALSE, Old({"xg_manager"}), {"xg_manager"})

Xgrammar ==
  IF parses["xgrammar"] /\ parses["structured"] THEN Together({Backend, Manager}) ELSE Refuse

CacheReset ==
  Installer(New({"cr_mount"}), TRUE, Old({"cr_mount"}) /\ parses["api_server"], {"cr_mount"})

\* The workers do not get the API server's overlay.
AU == SitesOf("server_utils")
AuthAllRoutes ==
  IF env.role # "head" THEN Leave
  ELSE Installer(Carries(AU), New(AU), Old(AU) /\ parses["server_utils"], AU)

KpoolTail == PreflightFile("block_table")

\* 1000 ms is what the stock line already says.
Wanted == IF env.spin \in {"stock", "1000"} THEN "old" ELSE "new"

Spinwait ==
  IF ~parses["broadcast"] THEN Refuse
  ELSE IF text["spin"] = Wanted THEN Leave
  ELSE IF Wanted = "new" /\ Old({"spin"}) THEN Patch({"spin"})
  ELSE Refuse

\* The script comes from the image, which may be older than it.
IndexerWorkspace == IF env.indexer THEN PreflightFile("indexer") ELSE Leave

Ablit(s) == Installer(New({s}), TRUE, Old({s}), {s})

Verdict == [
  video |-> Video, suppress_stops |-> SuppressStops, decode_floor |-> DecodeFloor,
  align_floor |-> AlignFloor, adaptive_sched |-> AdaptiveScheduler, adaptive_graph |-> AdaptiveGraph,
  drafter_group |-> DrafterGroup, hybrid |-> HybridPrefixHit, retention |-> Retention,
  fine_grained |-> FineGrained, sparse_miss |-> SparseMiss, no_store |-> NoStore,
  xgrammar |-> Xgrammar, cache_reset |-> CacheReset, auth |-> AuthAllRoutes,
  kpool_tail |-> KpoolTail, spinwait |-> Spinwait, indexer |-> IndexerWorkspace,
  ablit_model |-> Ablit("ab_model"), ablit_mtp |-> Ablit("ab_mtp")]

----------------------------------------------------------------------------
(* What an image carries                                                   *)

\* The texts that installers and upstream give a site.
Forms(s) ==
  {"old", "new"}
    \cup (IF s = "dg_group" THEN {"keep", "compact"} ELSE {})
    \cup (IF s = "dg_guard" THEN {"unpadded"} ELSE {})
    \cup (IF s \in SitesOf("xgrammar") \cup {"xg_manager"} THEN {"up"} ELSE {})

\* What one write lays into a file: a site of own never comes without full.
Fragment(own, full) == [own |-> own, full |-> full]
Whole(S) == Fragment(S, S)

Fragments == [
  kpool |-> {}, detokenizer |-> {Whole(SR)},
  scheduler |-> {Fragment(DF \cup {"df_helper"}, DF \cup {"os", "df_helper"}),
                 Fragment(AL, AL \cup {"os"}), Fragment(AK, AK \cup {"os"})},
  cudagraph |-> {Whole(CG)}, kv_utils |-> {Whole(DG)},
  coordinator |-> {Whole({"inner", "draft"}), Fragment(HY, HY \cup {"inner", "draft"}),
                   Fragment(RT, RT \cup {"inner", "draft"}), Whole(FG)},
  stats |-> {}, manager |-> {}, loggers |-> {Whole(SitesOf("loggers"))},
  sampling |-> {Whole(SitesOf("sampling"))}, request |-> {Whole(SitesOf("request"))},
  block_pool |-> {Whole(SitesOf("block_pool"))}, xgrammar |-> {Whole(SitesOf("xgrammar"))},
  structured |-> {}, api_server |-> {}, server_utils |-> {Whole(AU)}, block_table |-> {}, broadcast |-> {},
  indexer |-> {Whole(SitesOf("indexer"))}, model |-> {}, mtp |-> {}]

Intact(f, x) ==
  /\ \A s \in SitesOf(f) : x[s] \in Forms(s)
  /\ \A w \in Fragments[f] : (\E s \in w.own : x[s] # "old") => \A s \in w.full : x[s] # "old"

\* An image is built by these installers, older ones or upstream, and a build
\* that is cut short leaves no image; the busy-wait is set at boot only
\* (Dockerfile:476-488).
ASSUME OverlayBootAssumption ==
  /\ MaxDeaths \in Nat
  /\ Gates \subseteq [adaptive : BOOLEAN, retention : BOOLEAN, fine : BOOLEAN, sparse : BOOLEAN, spin : STRING]
  /\ \A img \in ImageTexts :
       /\ img.indexer \in BOOLEAN /\ img.sites \in [Site -> STRING]
       /\ img.sites["spin"] = "old"
       /\ \A f \in File : Intact(f, img.sites)

----------------------------------------------------------------------------
(* The boot                                                                *)

\* A start script that runs the fine-grained overlay before the hybrid one.
FineFirst ==
  <<"video", "suppress_stops", "decode_floor", "align_floor", "adaptive_sched", "adaptive_graph",
    "drafter_group", "fine_grained", "hybrid", "retention", "sparse_miss", "no_store", "xgrammar",
    "cache_reset", "auth", "kpool_tail", "spinwait", "indexer", "ablit_model", "ablit_mtp">>

AllScripts ==
  <<"video", "suppress_stops", "decode_floor", "align_floor", "adaptive_sched", "adaptive_graph",
    "drafter_group", "hybrid", "retention", "fine_grained", "sparse_miss", "no_store", "xgrammar",
    "cache_reset", "auth", "kpool_tail", "spinwait", "indexer", "ablit_model", "ablit_mtp">>

\* Installers that write their target in place.
InPlace == {"video", "suppress_stops", "decode_floor", "drafter_group", "hybrid", "retention",
            "cache_reset", "auth", "ablit_model", "ablit_mtp"}

FilesFor(S) == {f \in File : SitesOf(f) \cap S # {}}

\* The turn of a file among those its installer writes.
Turn(f) == CASE f \in {"manager", "request", "structured"} -> 2
             [] f \in {"loggers", "block_pool"} -> 3
             [] OTHER -> 1

Due(f) == f \in staged /\ \A g \in staged : Turn(f) <= Turn(g)

\* A new container has the image's files; nothing of it is truncated.
BootInit ==
  \E img \in ImageTexts, gates \in Gates, role \in Roles :
    /\ env = [role |-> role, indexer |-> img.indexer, adaptive |-> gates.adaptive,
              retention |-> gates.retention, fine |-> gates.fine, sparse |-> gates.sparse, spin |-> gates.spin]
    /\ text = img.sites
    /\ parses = [f \in File |-> TRUE]
    /\ at = 1 /\ todo = {} /\ staged = {}
    /\ phase = "boot" /\ torn = {} /\ deaths = 0

\* An installer reads and judges its targets; set -e stops the boot when it fails.
Judge ==
  /\ phase = "boot" /\ staged = {} /\ at <= Len(AllScripts)
  /\ LET v == Verdict[AllScripts[at]] IN
     /\ phase' = IF v.ok THEN "boot" ELSE "refused"
     /\ todo' = v.new
     /\ staged' = FilesFor(v.new)
     /\ at' = IF v.ok /\ v.new = {} THEN at + 1 ELSE at
  /\ UNCHANGED <<env, text, parses, torn, deaths>>

Text(f) == [s \in Site |-> IF s \in todo /\ s \in SitesOf(f) THEN "new" ELSE text[s]]

\* The next target gets its new text.
Write ==
  /\ phase = "boot"
  /\ \E f \in staged :
       /\ Due(f)
       /\ text' = Text(f)
       /\ staged' = staged \ {f}
       /\ at' = IF staged = {f} THEN at + 1 ELSE at
  /\ UNCHANGED <<env, parses, todo, phase, torn, deaths>>

Serve ==
  /\ phase = "boot" /\ staged = {} /\ at > Len(AllScripts)
  /\ phase' = "serving"
  /\ UNCHANGED <<env, text, parses, at, todo, staged, torn, deaths>>

\* The container is killed; a staged text that was not renamed is lost.
Die ==
  /\ phase \in {"boot", "serving"} /\ deaths < MaxDeaths
  /\ deaths' = deaths + 1
  /\ phase' = "down" /\ at' = 1 /\ todo' = {} /\ staged' = {}
  /\ UNCHANGED <<env, text, parses, torn>>

\* ... while it writes in place: the file ends somewhere in its new text.
Tear ==
  /\ phase = "boot" /\ deaths < MaxDeaths
  /\ \E f \in staged :
       /\ Due(f) /\ AllScripts[at] \in InPlace
       /\ \E kept \in 0..(Len(Layout[f]) - 1), valid \in BOOLEAN :
            /\ text' = [s \in Site |-> IF s \in SitesOf(f) /\ Position(f, s) > kept THEN "gone" ELSE Text(f)[s]]
            /\ parses' = [parses EXCEPT ![f] = valid]
       /\ torn' = torn \cup {f}
  /\ deaths' = deaths + 1
  /\ phase' = "down" /\ at' = 1 /\ todo' = {} /\ staged' = {}
  /\ UNCHANGED env

\* The same container is started again.
Restart ==
  /\ phase \in {"down", "refused"}
  /\ phase' = "boot" /\ at' = 1 /\ todo' = {} /\ staged' = {}
  /\ UNCHANGED <<env, text, parses, torn, deaths>>

BootNext == Judge \/ Write \/ Serve \/ Die \/ Tear \/ Restart

BootSpec == BootInit /\ [][BootNext]_bootVars

----------------------------------------------------------------------------
(* Properties                                                              *)

\* The text each overlay's code needs to run, its helpers included.
Needs == [
  video |-> {"topk"}, suppress_stops |-> SR, decode_floor |-> {"os", "df_helper"} \cup DF,
  align_floor |-> {"os"} \cup AL, adaptive_sched |-> IF env.adaptive THEN {"os"} \cup AK ELSE {},
  adaptive_graph |-> IF env.adaptive THEN CG ELSE {}, drafter_group |-> DG,
  hybrid |-> {"inner", "draft"} \cup HY,
  retention |-> IF env.retention THEN {"inner", "draft"} \cup RT ELSE {},
  fine_grained |-> IF env.fine THEN FG ELSE {},
  sparse_miss |-> IF env.sparse THEN {"sm_stats", "sm_manager", "sm_counter", "sm_record"} ELSE {},
  no_store |-> UNION {SitesOf(f) : f \in NoStoreFiles},
  xgrammar |-> SitesOf("xgrammar") \cup {"xg_manager"}, cache_reset |-> {"cr_mount"}, auth |-> IF env.role = "head" THEN AU ELSE {},
  kpool_tail |-> {"kp_clamp"}, spinwait |-> IF Wanted = "new" THEN {"spin"} ELSE {},
  indexer |-> IF env.indexer THEN SitesOf("indexer") ELSE {}, ablit_model |-> {"ab_model"}, ablit_mtp |-> {"ab_mtp"}]

\* Installers that take their marker for the whole installation.
MarkerOnly == {"suppress_stops", "decode_floor", "drafter_group", "hybrid", "retention"}

\* A rank that reaches `exec vllm serve` has every overlay it asked for, whole
\* and with the helpers its code calls, whatever the image carried and however
\* often the container died; only an overlay that trusts its marker can be
\* incomplete, in a file a death truncated (patch_align_floor.py:118-121).
ServedMeansPatched ==
  phase = "serving" =>
    \A i \in DOMAIN AllScripts : \A s \in Needs[AllScripts[i]] :
      text[s] \in {"new", "up"} \/ (AllScripts[i] \in MarkerOnly /\ FileOf(s) \in torn)

\* Installing again over a finished or interrupted installation is never
\* refused: a container that was killed between two writes boots again, and a
\* refusal means that a file was truncated (patch_apc_no_store.py:420-454).
OnlyTornFilesRefuse == phase = "refused" => torn # {}
=============================================================================

--------------------------- MODULE MCOverlayBoot ---------------------------
EXTENDS OverlayBoot

MCImage(S, drafter, indexer) ==
  [indexer |-> indexer,
   sites |-> [s \in Site |-> IF s \in DOMAIN drafter THEN drafter[s] ELSE IF s \in S THEN "new" ELSE "old"]]

\* The overlays the Dockerfile installs, and those of an older image.
MCOlder == SR \cup DF \cup HY \cup {"os", "df_helper", "inner", "draft"}
MCBaked == MCOlder \cup AU \cup SitesOf("indexer") \cup SitesOf("xgrammar")
             \cup {"xg_manager", "cr_mount", "kp_clamp", "ab_model", "ab_mtp"}

MCDrafter(group, guard) == [dg_edits |-> "new", dg_group |-> group, dg_guard |-> guard]
MCUpstream == [xg_accept |-> "up", xg_validate |-> "up", xg_reset |-> "up", xg_manager |-> "up"]

MCImages ==
  {MCImage({}, << >>, FALSE), MCImage(MCBaked, MCDrafter("new", "new"), TRUE), MCImage({}, MCUpstream, TRUE)}
    \cup {MCImage(MCOlder, MCDrafter(g, "unpadded"), FALSE) : g \in {"keep", "compact", "new"}}
    \cup {MCImage(MCOlder, MCDrafter(g, "new"), FALSE) : g \in {"keep", "compact"}}

MCGates ==
  [adaptive : {TRUE}, retention : BOOLEAN, fine : BOOLEAN, sparse : {TRUE}, spin : {"16"}]
    \cup [adaptive : {FALSE}, retention : {TRUE}, fine : {TRUE}, sparse : BOOLEAN, spin : {"stock", "1000"}]
=============================================================================

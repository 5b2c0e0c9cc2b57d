--------------------------- MODULE MCPrefixCache ---------------------------
(* A small pool: a prompt, its follow-up and one that shares its start.    *)
EXTENDS PrefixCache

MCPrompts == {<<"a", "b">>, <<"a", "c">>, <<"a", "b", "d">>}
MCFlags == {Absent, "0", "1", "yes"}
MCReleaseOrder == Reverse(Order)
MCSymmetry == Permutations(Reqs)
=============================================================================

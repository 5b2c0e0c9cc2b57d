----------------------------- MODULE MCEngineParts --------------------------
EXTENDS EngineParts, TLC

(* The deployed MLA and drafter formats (656 and 4096 bytes a token), MLA   *)
(* blocks that the exact fit takes and refuses, and drafters with more      *)
(* layers than MLA has.  Bytes are counted by sixteen.                      *)
MCGeometries ==
  [mlaBlock : {64, 1152, 3584, 16384}, mlaToken : {41, 64}, mlas : {2, 5},
   idxPage : {256}, drafts : {0, 2, 3}, draftToken : {64, 256}, window : {2048, 4096},
   batch : {896}, length : {8192}, states : {4},
   fine : {{"mla", "mamba"}, {"mla", "mamba", "swa"}, {"mla"}}, hashBlock : {64}]
MCMemories == {2000000, 400000000}
MCIntervals == {-2, -1, 0, 3584, 1000, 1003520}

(* Two outputs in the language, one a single token longer; "m" and "n"      *)
(* spell the marker without being it; a stop that the reasoning repeats and *)
(* one that the marker starts.                                              *)
MCTokens == {"m", "n", "q", "END", "EOS"}
MCLanguage == {<<"q", "EOS">>, <<"n", "q", "EOS">>}
MCText == [t \in MCTokens |->
  IF t = "END" THEN <<"m", "n">> ELSE IF t = "EOS" THEN << >> ELSE <<t>>]
MCMarker == <<"m", "n">>
MCStops == {<<"q">>, <<"n", "q">>}

(* Boots of the fat tiers with and without their kernels, an expert map, and *)
(* tensor parallel sizes that divide an expert and ones that do not.        *)
MCImage == {"moe", "gemm", "scatter", "pipe"}
MCSetups ==
  LET S(f, s, b, k, p, t, c, m, im, tp, i) ==
        [fused |-> f, sorted |-> s, batched |-> b, kernel |-> k, pipe |-> p, tiles |-> t, cap |-> c,
         map |-> m, image |-> im, tp |-> tp, inter |-> i]
      Maps == {<< >>, (0 :> 1 @@ 1 :> -1 @@ 2 :> 0)}
  IN {S(TRUE, s, b, k, FALSE, t, c, m, MCImage, 2, 4) :
        s \in BOOLEAN, b \in BOOLEAN, k \in BOOLEAN, t \in BOOLEAN, c \in {1, 2}, m \in Maps}
     \cup {S(f, FALSE, FALSE, k, p, FALSE, 2, << >>, MCImage \ {x}, 2, 4) :
             f \in BOOLEAN, k \in BOOLEAN, p \in BOOLEAN, x \in MCImage \cup {"none"}}
     \cup {S(TRUE, FALSE, FALSE, TRUE, FALSE, FALSE, 2, << >>, MCImage, tp, i) : tp \in 1..4, i \in {4, 6, 8, 12}}
MCRoutes == {<<0, 1>>, <<2, 0>>, <<-1, 1>>}
=============================================================================

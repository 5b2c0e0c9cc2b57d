-------------------------- MODULE StructuredOutput --------------------------
(***************************************************************************)
(* One request of the vLLM lane that thinks, answers under a grammar and   *)
(* has a stop string, decoded a speculative batch at a time: the XGrammar  *)
(* matcher behind its cached termination flag, the bitmask loop that walks *)
(* over the drafts and rolls back, and the detokenizer that looks for the  *)
(* stop string (patch_xgrammar_termination,                                *)
(* patch_suppress_stops_in_reasoning).                                     *)
(***************************************************************************)
EXTENDS Naturals, Sequences, SequencesExt

CONSTANTS
  Tokens,   \* "END" closes the reasoning; "EOS" ends what Language accepts
  Language, \* the complete outputs the grammar accepts
  Text,     \* Text[t]: the characters of a token
  Marker,   \* the characters of "END"
  Stops,    \* stop strings, one of them per request
  MaxDraft, \* speculative tokens per step
  MaxOut    \* bound on the output

VARIABLES
  grammar, \* word: what the matcher took; flag: _is_terminated; count:
           \* num_processed_tokens; on: the request has a grammar
  think,   \* the reasoning is open
  drafts,  \* spec_token_ids of the next step
  out,     \* the output
  from,    \* where the constrained part of the output starts
  failed,  \* "Failed to advance FSM" was logged, or the loop asserted
  detok    \* text, guard, closed, stop, stopped

vars == <<grammar, think, drafts, out, from, failed, detok>>

----------------------------------------------------------------------------
(* XgrammarGrammar                                                         *)

\* The matcher takes a token that goes on with some output, and none after one.
Takes(w, t) == \E s \in Language : IsPrefix(Append(w, t), s)
Terminated(w) == w \in Language

Advanced(g, t) ==
  [g EXCEPT !.word = Append(@, t), !.count = @ + 1, !.flag = Terminated(Append(g.word, t))]

\* Mutant: the termination is noted after the batch (before #52805).
AcceptAll(g, ts) ==
  LET f[i \in 0..Len(ts)] ==
        IF i = 0 THEN [g |-> g, ok |-> ~g.flag]
        ELSE IF ~f[i - 1].ok THEN f[i - 1]
        ELSE IF ~Takes(f[i - 1].g.word, ts[i]) THEN [f[i - 1] EXCEPT !.ok = FALSE]
        ELSE [f[i - 1] EXCEPT !.g = [Advanced(@, ts[i]) EXCEPT !.flag = (i = Len(ts)) /\ @]]
  IN f[Len(ts)]

\* accept_tokens: what follows the termination is ignored.
AcceptTokens(g, ts) ==
  LET f[i \in 0..Len(ts)] ==
        IF i = 0 THEN [g |-> g, ok |-> TRUE]
        ELSE IF ~f[i - 1].ok \/ f[i - 1].g.flag THEN f[i - 1]
        ELSE IF ~Takes(f[i - 1].g.word, ts[i]) THEN [f[i - 1] EXCEPT !.ok = FALSE]
        ELSE [f[i - 1] EXCEPT !.g = Advanced(@, ts[i])]
  IN f[Len(ts)]

\* validate_tokens: advances the matcher and rolls it back.
ValidateTokens(g, ts) ==
  IF g.flag THEN << >>
  ELSE SubSeq(ts, 1, CHOOSE n \in 0..Len(ts) :
         /\ \A i \in 1..n : Takes(g.word \o SubSeq(ts, 1, i - 1), ts[i])
         /\ n = Len(ts) \/ ~Takes(g.word \o SubSeq(ts, 1, n), ts[n + 1]))

\* rollback
Rollback(g, n) ==
  LET w == SubSeq(g.word, 1, Len(g.word) - n)
  IN [g EXCEPT !.word = w, !.count = @ - n, !.flag = Terminated(w)]

----------------------------------------------------------------------------
(* The bitmask of a step                                                   *)

Allowed(g, apply) ==
  IF apply /\ g.on /\ ~g.flag THEN {t \in Tokens : Takes(g.word, t)} ELSE Tokens

\* Mutant: a draft made before the end of the reasoning advances the grammar
\* without being validated (before #53046).
Unchecked(l, t) == TRUE

\* A draft behind the end of the reasoning was made without the grammar.
Checked(l, t) == l.window => ValidateTokens(l.g, <<t>>) # << >>

\* One draft of the loop.  l: the grammar, whether the bitmask applies, whether
\* the reasoning ended in this window, advances, error and the rows so far.
Walk(l, t) ==
  IF ~l.apply
  THEN [l EXCEPT !.apply = (t = "END"), !.window = (t = "END"),
                 !.rows = Append(@, Allowed(l.g, t = "END"))]
  ELSE LET try == ~l.g.flag /\ Checked(l, t)
           a == AcceptTokens(l.g, <<t>>)
           took == try /\ a.ok
           g2 == IF took THEN a.g ELSE l.g
       IN [l EXCEPT !.g = g2, !.steps = IF took THEN @ + 1 ELSE @,
                    !.error = @ \/ (try /\ ~a.ok),
                    !.rows = Append(@, Allowed(g2, TRUE))]

Bitmask ==
  LET start == [g |-> grammar, apply |-> ~think, window |-> FALSE, steps |-> 0,
                error |-> FALSE, rows |-> <<Allowed(grammar, ~think)>>]
      l[i \in 0..Len(drafts)] == IF i = 0 THEN start ELSE Walk(l[i - 1], drafts[i])
  IN IF grammar.on THEN l[Len(drafts)]
     ELSE [start EXCEPT !.rows = [i \in 1..(Len(drafts) + 1) |-> Tokens]]

----------------------------------------------------------------------------
(* The detokenizer                                                         *)

At(text, s, i) == i + Len(s) <= Len(text) /\ SubSeq(text, i + 1, i + Len(s)) = s
Positions(text, s, lo) == {i \in lo..Len(text) : At(text, s, i)}
Minus(a, b) == IF a > b THEN a - b ELSE 0

\* Mutant: the marker is looked for in the new characters only.
NewOnly(d) == Len(d.text)

\* A marker may have begun in an earlier step.
MarkerFrom(d) == Minus(Len(d.text) + 1, Len(Marker))

\* update for the new tokens: stop_check_offset jumps past the marker, and the
\* search looks back from it by one less than the stop string.
Deliver(d, ts) ==
  LET old == Len(d.text)
      text == d.text \o FlattenSeq([i \in DOMAIN ts |-> Text[ts[i]]])
      ends == {i + Len(Marker) : i \in Positions(text, Marker, MarkerFrom(d))}
      close == d.guard /\ ~d.closed /\ ends # {}
      offset == IF close THEN CHOOSE e \in ends : \A x \in ends : e <= x ELSE old
      live == ~d.guard \/ d.closed \/ close
  IN [d EXCEPT !.text = text, !.closed = @ \/ close,
               !.stopped = live /\ offset < Len(text) /\
                  Positions(text, d.stop, Minus(offset + 1, Len(d.stop))) # {}]

----------------------------------------------------------------------------
(* A request                                                               *)

\* The guard arms when the prompt ends inside the reasoning and the overlay
\* is not switched off.
Init ==
  /\ think \in BOOLEAN /\ drafts = << >> /\ out = << >> /\ from = 0 /\ failed = FALSE
  /\ grammar \in [on : BOOLEAN, word : {<< >>}, count : {0}, flag : {FALSE}]
  /\ \E armed \in BOOLEAN, s \in Stops :
       detok = [text |-> << >>, guard |-> think /\ armed, closed |-> FALSE,
                stop |-> s, stopped |-> FALSE]

Active == ~detok.stopped /\ Len(out) < MaxOut /\ ("EOS" \notin Range(out) \/ grammar.on)

\* The drafter proposes; drafts for an active grammar are cut to what it takes.
Draft ==
  /\ Active /\ drafts = << >>
  /\ \E ts \in SeqOf(Tokens, MaxDraft) \ {<< >>} :
       drafts' = IF grammar.on /\ ~think THEN ValidateTokens(grammar, ts) ELSE ts
  /\ drafts' # << >>
  /\ UNCHANGED <<grammar, think, out, from, failed, detok>>

\* A step takes a prefix of the drafts its rows allow, and one more token.
Step ==
  /\ Active
  /\ \E n \in 0..Len(drafts), t \in Tokens :
       LET b == Bitmask
           ts == Append(SubSeq(drafts, 1, n), t)
           marks == {i \in DOMAIN ts : ts[i] = "END"}
           ends == think /\ marks # {}
           cut == IF ends THEN CHOOSE i \in marks : \A j \in marks : i <= j ELSE 0
           a == AcceptTokens(Rollback(b.g, b.steps), SubSeq(ts, cut + 1, Len(ts)))
           open == think /\ ~ends
       IN /\ \A i \in 1..n : drafts[i] \in b.rows[i]
          /\ t \in b.rows[n + 1]
          /\ out' = out \o ts
          /\ from' = IF ends THEN Len(out) + cut ELSE from
          /\ think' = open
          /\ grammar' = IF ~grammar.on \/ open THEN Rollback(b.g, b.steps) ELSE a.g
          /\ failed' = (failed \/ b.error \/ (grammar.on /\ ~open /\ ~a.ok))
          /\ detok' = Deliver(detok, ts)
  /\ drafts' = << >>

\* reset: the same grammar for the next output.
Reset ==
  /\ Active /\ grammar.flag
  /\ grammar' = [grammar EXCEPT !.word = << >>, !.count = 0, !.flag = FALSE]
  /\ out' = << >> /\ from' = 0 /\ drafts' = << >>
  /\ detok' = [detok EXCEPT !.text = << >>, !.guard = FALSE]
  /\ UNCHANGED <<think, failed>>

Next == Draft \/ Step \/ Reset
Spec == Init /\ [][Next]_vars

----------------------------------------------------------------------------
(* Properties                                                              *)

\* Between two steps the matcher stands where the constrained output stands:
\* at its end, or where it became complete; the cached flag and the count
\* agree with it, whatever was drafted, rejected and rolled back.
GrammarFollowsOutput ==
  grammar.on =>
    LET w == IF think THEN << >> ELSE SubSeq(out, from + 1, Len(out))
    IN /\ IsPrefix(grammar.word, w)
       /\ grammar.word = w \/ Terminated(grammar.word)
       /\ grammar.flag = Terminated(grammar.word)
       /\ grammar.count = Len(grammar.word)

\* Nothing that a draft or a batch contains makes the grammar fail.
NoSpuriousFailure == ~failed

\* A stop string ends the request exactly when it is completed after the
\* reasoning: none inside it does, and none after it is missed.
StopsExactlyAfterReasoning ==
  LET closes == {i + Len(Marker) : i \in Positions(detok.text, Marker, 0)}
      open == detok.guard /\ closes = {}
      edge == IF detok.guard /\ closes # {} THEN CHOOSE e \in closes : \A x \in closes : e <= x ELSE 0
  IN detok.stopped <=>
       ~open /\ \E i \in Positions(detok.text, detok.stop, 0) : i + Len(detok.stop) > edge
=============================================================================

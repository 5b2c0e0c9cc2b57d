---------------------------- MODULE MCAdaptiveK ----------------------------
(* Small instances of AdaptiveK: a drafter of length 4 with the ladder     *)
(* {1, 2, 4} stands for length 7 with {2, 4, 7}.                           *)
EXTENDS AdaptiveK

MCBootSet == {1, 2, 4}
MCParams == [alpha |-> 1, margin |-> 1, minSteps |-> 1, saturate |-> TRUE]

MCFile(on, kset) ==
  [enabled |-> on, params |-> MCParams, hasSet |-> kset # {}, set |-> kset, fault |-> "none"]

MCSwitches(m, t) == [enabled |-> TRUE, batchMargin |-> m, posTrim |-> t]
MCBootOff == {[enabled |-> FALSE, batchMargin |-> TRUE, posTrim |-> TRUE]}
MCPlain == {MCSwitches(FALSE, FALSE)}
MCKnobs == MCPlain \cup {MCSwitches(TRUE, TRUE)} \cup MCBootOff

(* A ladder partly and one wholly outside the boot set; a malformed one in  *)
(* a file that also switches the policy off.                               *)
MCConfigs == {MCFile(TRUE, {2, 3}), MCFile(TRUE, {3}),
              [MCFile(FALSE, {2}) EXCEPT !.fault = "set"]}

MCAny == [r \in Requests |-> 0]
(* One slot whose drafts are always accepted, the others arbitrary.         *)
MCMixed == [r \in Requests |-> IF r = CHOOSE x \in Requests : TRUE THEN K ELSE 0]
=============================================================================

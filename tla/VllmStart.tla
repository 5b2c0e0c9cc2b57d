----------------------------- MODULE VllmStart -----------------------------
(***************************************************************************)
(* `./start.sh start` of the vLLM lane as a whole: the weights are fetched *)
(* and mirrored (WeightStore), then the containers are launched            *)
(* (VllmLaunch; start.sh:1747-1764).  The two share no variable, and while *)
(* one runs the other rests.                                               *)
(***************************************************************************)
EXTENDS VllmLaunch

CONSTANTS Primary, Fallback, Revs, FallbackMain, Shards, Config, None, Skips, MaxStarts

VARIABLES stage, knob, repo, head, newest, ref, worker, marker, rev, starts

\* stage is the step of the start, pc of WeightStore.
Store == INSTANCE WeightStore WITH pc <- stage

ASSUME WeightStoreAssumption == Store!StoreConstants

weights == <<stage, knob, repo, head, newest, ref, worker, marker, rev, starts>>

\* What precedes a launch: no terminal has brought anything up.
WeightsSpec == Init /\ Store!Init /\ [][Store!Next /\ UNCHANGED vars]_<<vars, weights>>

\* What is launched has all its shards on both nodes, whatever download or
\* sync was cut short before (start.sh:1007-1166).
LaunchHasAllShards == Store!LaunchHasAllShards
=============================================================================

---------------------------- MODULE WeightStore ----------------------------
(***************************************************************************)
(* The weights of the vLLM lane, from the Hub to both nodes: the Hugging   *)
(* Face cache on the head, its copy on the worker and the marker that      *)
(* lets start.sh skip the rsync (download_weights, sync_weights and        *)
(* resolve_model_dir of vllm-exl3/start.sh).                               *)
(*                                                                         *)
(* A repository is a primary or its fallback; a snapshot is the set of its *)
(* files that are there.  A start is one process at a time and may die     *)
(* between any two of its steps.                                           *)
(***************************************************************************)
EXTENDS Naturals, FiniteSets

CONSTANTS
  Primary, Fallback, \* MODEL, MODEL_FALLBACK
  Revs,              \* commits; the pin MODEL_REVISION is one of them
  FallbackMain,      \* the commit the branch main of Fallback names
  Shards,            \* the *.safetensors of a commit; EXPECTED_SHARDS of them
  Config,            \* config.json, standing for the files that are no shards
  None,              \* no commit: an empty refs/main, no marker
  Skips,             \* values of SKIP_DOWNLOAD
  MaxStarts          \* bound on the number of starts

\* What VllmStart, which declares them, assumes of the constants.
StoreConstants ==
  /\ FallbackMain \in Revs /\ None \notin Revs /\ Config \notin Shards
  /\ IsFiniteSet(Shards) /\ Shards # {} /\ Skips \subseteq BOOLEAN /\ MaxStarts \in Nat

Repos == {Primary, Fallback}
Files == Shards \cup {Config}

VARIABLES
  pc,     \* the step of the start that runs
  knob,   \* its environment: pin, refresh, skip, force
  repo,   \* MODEL_PATH
  head,   \* head[p][r]: the files of snapshot r in the head's cache
  newest, \* the snapshot directory `ls -1t` lists first
  ref,    \* refs/main of the head's cache
  worker, \* the worker's copy
  marker, \* .glm53-exl3-synced on the worker
  rev,    \* the commit the running sync is keyed on
  starts

cache == <<head, newest, ref>>
copy == <<worker, marker>>
vars == <<pc, knob, repo, cache, copy, rev, starts>>

Choices == [pin : Revs, refresh : BOOLEAN, skip : Skips, force : BOOLEAN]

----------------------------------------------------------------------------
(* The cache on the head                                                   *)

\* count_shards: the shards of all snapshots of a repository.
Count(p) == Cardinality({x \in Revs \X Shards : x[2] \in head[p][x[1]]})

\* Mutant: one shard may be missing.
CompleteButOne(p) == Count(p) + 1 >= Cardinality(Shards)

Complete(p) == Count(p) >= Cardinality(Shards)

\* ensure_refs_main
RefMain(p) == IF ref[p] # None THEN ref[p] ELSE newest[p]

WriteRef(p) == ref' = [ref EXCEPT ![p] = RefMain(p)]

\* adopt_complete_weights: the primary, or else the fallback.
Adopts(p) ==
  /\ Complete(p)
  /\ p = Primary \/ ~Complete(Primary)
  /\ RefMain(p) # None
  /\ repo' = p /\ WriteRef(p) /\ pc' = "sync"
  /\ UNCHANGED <<head, newest>>

AdoptsNone == \A p \in Repos : ~Complete(p)

----------------------------------------------------------------------------
(* A start                                                                 *)

Init ==
  /\ pc = "idle" /\ repo = Primary /\ rev = None /\ starts = 0
  /\ knob \in Choices
  /\ head = [p \in Repos |-> [r \in Revs |-> {}]] /\ worker = head
  /\ newest = [p \in Repos |-> None] /\ ref = newest /\ marker = newest

Begin ==
  /\ pc = "idle" /\ starts < MaxStarts
  /\ \E k \in Choices :
       /\ knob' = k
       /\ pc' = IF k.skip THEN "sync" ELSE IF k.refresh THEN "fetch" ELSE "check"
  /\ repo' = Primary /\ starts' = starts + 1
  /\ UNCHANGED <<cache, copy, rev>>

Check ==
  /\ pc = "check"
  /\ \/ \E p \in Repos : Adopts(p)
     \/ AdoptsNone /\ pc' = "fetch" /\ UNCHANGED <<repo, cache>>
  /\ UNCHANGED <<knob, copy, rev, starts>>

\* hf download writes the files in any order.  A commit named by its hash
\* leaves refs/main alone; a branch writes it.
Fetch(p, r, f) ==
  /\ f \notin head[p][r]
  /\ head' = [head EXCEPT ![p][r] = @ \cup {f}]
  /\ newest' = [newest EXCEPT ![p] = r]

FetchPrimary ==
  /\ pc = "fetch"
  /\ \E f \in Files : Fetch(Primary, knob.pin, f)
  /\ UNCHANGED <<pc, knob, repo, ref, copy, rev, starts>>

\* Success or not, what is there is counted.
FetchPrimaryEnds ==
  /\ pc = "fetch"
  /\ \/ \E p \in Repos : Adopts(p)
     \/ /\ AdoptsNone
        /\ pc' = IF Fallback # Primary THEN "fallback" ELSE "idle"
        /\ UNCHANGED <<repo, cache>>
  /\ UNCHANGED <<knob, copy, rev, starts>>

FetchFallback ==
  /\ pc = "fallback"
  /\ \E f \in Files : Fetch(Fallback, FallbackMain, f)
  /\ ref' = [ref EXCEPT ![Fallback] = FallbackMain]
  /\ UNCHANGED <<pc, knob, repo, copy, rev, starts>>

FetchFallbackEnds ==
  /\ pc = "fallback" /\ head[Fallback][FallbackMain] = Files
  /\ \E p \in Repos : Adopts(p)
  /\ UNCHANGED <<knob, copy, rev, starts>>

\* sync_repo_to_worker: is the worker at this commit?  A failed ssh reads no
\* marker, and then everything is copied again.
Sync ==
  /\ pc = "sync" /\ \E r \in Revs : head[repo][r] # {}
  /\ rev' = RefMain(repo)
  /\ \/ ~knob.force /\ marker[repo] = RefMain(repo) /\ pc' = "resolve"
     \/ pc' = "rsync"
  /\ UNCHANGED <<knob, repo, cache, copy, starts>>

RsyncFile ==
  /\ pc = "rsync"
  /\ \E r \in Revs : \E f \in head[repo][r] \ worker[repo][r] :
       worker' = [worker EXCEPT ![repo][r] = @ \cup {f}]
  /\ UNCHANGED <<pc, knob, repo, cache, marker, rev, starts>>

\* Mutant: the marker is written whatever rsync's status was.
RsyncedAnyhow == TRUE

Rsynced == \A r \in Revs : head[repo][r] \subseteq worker[repo][r]

WriteMarker ==
  /\ pc = "rsync" /\ Rsynced
  /\ marker' = [marker EXCEPT ![repo] = rev] /\ pc' = "resolve"
  /\ UNCHANGED <<knob, repo, cache, worker, rev, starts>>

\* resolve_model_dir, and the launch with the snapshot it names.
Resolve ==
  /\ pc = "resolve" /\ RefMain(repo) # None
  /\ WriteRef(repo)
  /\ pc' = IF Config \in head[repo][RefMain(repo)] THEN "up" ELSE "idle"
  /\ UNCHANGED <<knob, repo, head, newest, copy, rev, starts>>

\* The start dies (set -e, die, a signal, a power cut) or has come up.
End ==
  /\ pc # "idle" /\ pc' = "idle"
  /\ UNCHANGED <<knob, repo, cache, copy, rev, starts>>

Next ==
  \/ Begin \/ Check \/ FetchPrimary \/ FetchPrimaryEnds
  \/ FetchFallback \/ FetchFallbackEnds
  \/ Sync \/ RsyncFile \/ WriteMarker \/ Resolve \/ End

Spec == Init /\ [][Next]_vars

----------------------------------------------------------------------------
(* Properties                                                              *)

\* Every variable has its type, and neither refs/main nor `ls -1t` names a
\* snapshot that was not there.
TypeOK ==
  /\ pc \in {"idle", "check", "fetch", "fallback", "sync", "rsync", "resolve", "up"}
  /\ knob \in Choices /\ repo \in Repos /\ starts \in 0..MaxStarts
  /\ rev \in Revs \cup {None}
  /\ {head, worker} \subseteq [Repos -> [Revs -> SUBSET Files]]
  /\ {newest, ref, marker} \subseteq [Repos -> Revs \cup {None}]
  /\ \A p \in Repos :
       /\ \A r \in Revs : worker[p][r] \subseteq head[p][r]
       /\ newest[p] # None => head[p][newest[p]] # {}
       /\ ref[p] # None => head[p][ref[p]] # {}

\* What is launched has all its shards on both nodes, whatever download or
\* sync was cut short before, and whether the rsync was skipped or not.
LaunchHasAllShards ==
  pc = "up" => /\ Shards \subseteq head[repo][ref[repo]]
               /\ Shards \subseteq worker[repo][ref[repo]]
=============================================================================

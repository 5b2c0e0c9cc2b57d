---------------------------- MODULE PrefixStore ----------------------------
(***************************************************************************)
(* What the prefix cache of the vLLM lane promises its requests: a set of  *)
(* checkpoints, one kind (KV of the MLA layers, state of the Mamba layers) *)
(* for each prefix.  An admitted request resumes at the longest prefix     *)
(* that has both; the drafter, the block ids and the free queue are not    *)
(* visible.                                                                *)
(***************************************************************************)
EXTENDS Naturals, Sequences, FiniteSetsExt

CONSTANTS Reqs, Prompts

VARIABLES
  store, \* the checkpoints that can be found
  held,  \* held[r]: those that request r works on
  done,  \* done[r]: segments of r that have their blocks, 0 when not running
  asked, \* asked[r]: its prompt, << >> when there is no request
  missed, \* segments found for MLA, but without a state, at the last admission
  saves  \* saves[r]: its checkpoints may enter the store

Key(g, p, i) == <<g, SubSeq(p, 1, i)>>

\* The segments of p that are found: an unbroken run of MLA, one Mamba state.
MlaRun(S, p) == Max({i \in 0..(Len(p) - 1) : \A j \in 1..i : Key("mla", p, j) \in S})
Resume(S, p) == Max({i \in 0..MlaRun(S, p) : i = 0 \/ Key("mamba", p, i) \in S})

Found(p, i) == {Key("mla", p, j) : j \in 1..i} \cup {Key("mamba", p, j) : j \in {i} \ {0}}
Fresh(p, i) == {Key("mla", p, i), Key("mamba", p, i)}

\* Nothing in use is forgotten, and nothing but New appears.
Moves(New) ==
  /\ store' \subseteq store \cup New
  /\ \A r \in Reqs : held'[r] \subseteq store'

Saved(r, i) == IF saves[r] THEN Fresh(asked[r], i) ELSE {}

Init ==
  /\ store = {} /\ held = [r \in Reqs |-> {}] /\ done = [r \in Reqs |-> 0]
  /\ asked = [r \in Reqs |-> << >>] /\ saves = [r \in Reqs |-> TRUE] /\ missed = 0

Ask(r) ==
  /\ asked[r] = << >>
  /\ \E p \in Prompts, s \in BOOLEAN :
       asked' = [asked EXCEPT ![r] = p] /\ saves' = [saves EXCEPT ![r] = s]
  /\ UNCHANGED <<store, held, done, missed>>

Admit(r) ==
  LET h == Resume(store, asked[r]) IN
  /\ asked[r] # << >> /\ done[r] = 0
  /\ done' = [done EXCEPT ![r] = h + 1]
  /\ held' = [held EXCEPT ![r] = Found(asked[r], h) \cup Saved(r, h + 1)]
  /\ missed' = MlaRun(store, asked[r]) - h
  /\ Moves(Saved(r, h + 1))
  /\ UNCHANGED <<asked, saves>>

Advance(r) ==
  /\ done[r] \in 1..(Len(asked[r]) - 1)
  /\ done' = [done EXCEPT ![r] = @ + 1]
  /\ held' = [held EXCEPT ![r] = @ \cup Saved(r, done[r] + 1)]
  /\ Moves(Saved(r, done[r] + 1))
  /\ UNCHANGED <<asked, saves, missed>>

\* Finished, or preempted and to be admitted again.
Leave(r) ==
  /\ done[r] > 0
  /\ done' = [done EXCEPT ![r] = 0] /\ held' = [held EXCEPT ![r] = {}]
  /\ \/ UNCHANGED <<asked, saves>>
     \/ /\ done[r] = Len(asked[r])
        /\ asked' = [asked EXCEPT ![r] = << >>] /\ saves' = [saves EXCEPT ![r] = TRUE]
  /\ UNCHANGED <<store, missed>>

Forget ==
  /\ \A r \in Reqs : done[r] = 0
  /\ store' = {} /\ UNCHANGED <<held, done, asked, saves, missed>>

Next == (\E r \in Reqs : Ask(r) \/ Admit(r) \/ Advance(r) \/ Leave(r)) \/ Forget

vars == <<store, held, done, asked, saves, missed>>
Spec == Init /\ [][Next]_vars
=============================================================================

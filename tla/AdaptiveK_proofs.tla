-------------------------- MODULE AdaptiveK_proofs --------------------------
(* Proofs about AdaptiveK for every batch size, ladder, knob and override  *)
(* file: type correctness and the safety invariants of the trimmed rows.   *)
EXTENDS AdaptiveK, CommonLemmas

(* Lengths the policy may settle on for a row of full length: a rung of    *)
(* the boot ladder that fits, or no trim at all.                           *)
Rungs == {k \in BootSet : k <= K} \cup {K}
EmaType == [Requests -> [val : 0..(Scale * Max({K, KMax})), obs : 0..StepCap]]

LEMMA BootSetElements ==
  /\ BootSet # {} /\ SetBound \in Nat
  /\ \A v \in BootSet : v \in Nat /\ 1 <= v /\ v <= SetBound
<1>1. BootSet # {} /\ SetBound \in Nat /\ BootSet \subseteq 1..SetBound
  BY AdaptiveKAssumption DEF AdaptiveKAssumption
<1>2. \A v \in BootSet : v \in 1..SetBound
  BY <1>1
<1> QED BY <1>1, <1>2

LEMMA KMaxInBootSet == KMax \in BootSet /\ KMax \in Nat \ {0}
<1>1. BootSet \in SUBSET (0..SetBound)
  BY BootSetElements
<1>2. Max(BootSet) \in BootSet
  BY <1>1, BootSetElements, MaxOfBounded
<1> QED BY <1>2, BootSetElements DEF KMax

(* choose gives no pick, or a width between 1 and the row; a row of full   *)
(* length gets a rung; a structured row gets none.                         *)
LEMMA ChooseRange ==
  ASSUME NEW pol \in PolicyType, NEW st, NEW k \in 1..K, NEW b \in BOOLEAN
  PROVE  LET c == Choose(pol, st, k, b)
         IN  /\ c \in 0..k
             /\ k = K => c \in {NoPick} \cup Rungs
             /\ b => c = NoPick
<1> DEFINE cands == {v \in pol.kset : v <= Target(pol.params, st) /\ v <= k}
           n == IF cands # {} THEN Max(cands) ELSE Min(pol.kset)
<1>1. /\ pol.kset # {} /\ SetBound \in Nat /\ K \in Nat \ {0}
      /\ \A v \in pol.kset : v \in BootSet /\ v \in 1..SetBound
  <2>1. pol.kset \in SUBSET BootSet /\ pol.kset # {}
    BY DEF PolicyType
  <2> QED BY <2>1, BootSetElements, AdaptiveKAssumption DEF AdaptiveKAssumption
<1>2. n \in pol.kset
  <2>1. CASE cands # {}
    <3>1. cands \in SUBSET (0..SetBound)
      BY <1>1
    <3>2. Max(cands) \in cands
      BY <2>1, <3>1, <1>1, MaxOfBounded
    <3> QED BY <2>1, <3>2
  <2>2. CASE cands = {}
    <3>1. pol.kset \in SUBSET Nat
      BY <1>1
    <3>2. Min(pol.kset) \in pol.kset
      BY <3>1, <1>1, MinOfNaturals
    <3> QED BY <2>2, <3>2
  <2> QED BY <2>1, <2>2
<1> DEFINE w == Max({1, Min({n, k})})
<1>3. n \in Nat \ {0} /\ n \in BootSet
  BY <1>1, <1>2
<1>4. w = IF n <= k THEN n ELSE k
  <2> HIDE DEF n
  <2>1. Min({n, k}) = IF n <= k THEN n ELSE k
    BY <1>3, MinOfPair
  <2>2. Min({n, k}) \in Nat \ {0}
    BY <2>1, <1>3
  <2>3. w = Min({n, k})
    BY <2>2, MaxOfPair
  <2> QED BY <2>1, <2>3
<1>5. Choose(pol, st, k, b) =
        IF b \/ st.obs = 0 \/ st.obs < pol.params.minSteps THEN NoPick ELSE w
  BY DEF Choose
<1> HIDE DEF n, w, cands
<1> QED BY <1>1, <1>3, <1>4, <1>5 DEF Rungs, NoPick

(* The batch the hook of update_draft_token_ids hands to the policy: rows  *)
(* with drafts, at full length unless a grammar cut them.                  *)
IsBatch(row, batch) ==
  /\ row \in [Requests -> 0..K]
  /\ batch = {r \in Requests : row[r] > 0} /\ batch # {}
  /\ \A r \in batch : ~Structured(r) => row[r] = K

(* The width is a length; it cuts no row of a batch that holds a           *)
(* structured row; otherwise a row it does cut is cut to a rung.           *)
LEMMA WidthRange ==
  ASSUME NEW pol \in PolicyType, NEW e, NEW row, NEW batch, IsBatch(row, batch)
  PROVE  LET n == Width(pol, e, row, batch)
         IN  /\ n \in 0..K
             /\ (\E r \in batch : Structured(r)) => \A r \in batch : row[r] <= n
             /\ \A r \in batch : row[r] > n => n \in Rungs
<1> DEFINE pick == [r \in batch |-> Choose(pol, e[r], row[r], Structured(r))]
           known == {pick[r] : r \in batch} \ {NoPick}
           allKnown == \A r \in batch : pick[r] # NoPick
           noneStructured == \A r \in batch : ~Structured(r)
           posFires == /\ knobs.posTrim /\ knobs.batchMargin /\ noneStructured
                       /\ Cardinality(batch) >= 2
           marginFires == knobs.batchMargin /\ noneStructured /\ known # {}
           lengths == {row[r] : r \in batch}
           n == Width(pol, e, row, batch)
<1>1. K \in Nat \ {0} /\ batch # {} /\ \A r \in batch : row[r] \in 1..K
  BY AdaptiveKAssumption DEF AdaptiveKAssumption, IsBatch
<1>2. \A r \in batch : /\ pick[r] \in 0..K
                       /\ ~Structured(r) => pick[r] \in {NoPick} \cup Rungs
                       /\ Structured(r) => pick[r] = NoPick
  <2> TAKE r \in batch
  <2>1. row[r] \in 1..K /\ Structured(r) \in BOOLEAN
    BY <1>1 DEF Structured
  <2>2. ~Structured(r) => row[r] = K
    BY DEF IsBatch
  <2>3. pick[r] = Choose(pol, e[r], row[r], Structured(r))
    OBVIOUS
  <2> DEFINE c == Choose(pol, e[r], row[r], Structured(r))
  <2>4. c \in 0..row[r] /\ (row[r] = K => c \in {NoPick} \cup Rungs)
        /\ (Structured(r) => c = NoPick)
    BY <2>1, ChooseRange
  <2>5. pick[r] = c
    BY <2>3
  <2> HIDE DEF pick, c
  <2> QED BY <1>1, <2>1, <2>2, <2>4, <2>5
<1>3. /\ allKnown => noneStructured
      /\ allKnown => known # {}
      /\ noneStructured => known \in SUBSET (Rungs \cap 0..K)
      /\ known \in SUBSET (0..K)
  BY <1>1, <1>2
<1>4. known # {} => Min(known) \in known
  <2>1. known \in SUBSET Nat
    BY <1>1, <1>3
  <2> QED BY <2>1, MinOfNaturals
<1>5. Max(lengths) \in 1..K /\ \A r \in batch : row[r] <= Max(lengths)
  <2>1. \A r \in batch : row[r] \in lengths
    OBVIOUS
  <2>2. lengths \in SUBSET (0..K) /\ lengths # {} /\ \A x \in lengths : x \in 1..K
    BY <1>1
  <2> HIDE DEF lengths
  <2>3. Max(lengths) \in lengths /\ \A y \in lengths : Max(lengths) >= y
    BY <2>2, <1>1, MaxOfBounded
  <2> QED BY <2>1, <2>2, <2>3, <1>1
<1>6. Min(pol.kset) \in BootSet /\ Min(pol.kset) \in Nat
  <2>1. pol.kset \in SUBSET BootSet /\ pol.kset # {}
    BY DEF PolicyType
  <2>2. \A v \in pol.kset : v \in BootSet /\ v \in Nat
    BY <2>1, BootSetElements
  <2>3. Min(pol.kset) \in pol.kset
    BY <2>1, <2>2, MinOfNaturals
  <2> QED BY <2>2, <2>3
<1>7. n = CASE allKnown /\ posFires -> Min({Min(known), Min(pol.kset)})
            [] allKnown /\ ~posFires -> Min(known)
            [] ~allKnown /\ marginFires -> Min(known)
            [] OTHER -> Max(lengths)
  BY DEF Width
<1> HIDE DEF pick, known, lengths, n
<1>8. CASE allKnown /\ posFires
  <2>1. n = Min({Min(known), Min(pol.kset)})
    BY <1>7, <1>8
  <2>2. Min(known) \in Rungs /\ Min(known) \in 0..K
    BY <1>3, <1>4, <1>8
  <2>3. n = IF Min(known) <= Min(pol.kset) THEN Min(known) ELSE Min(pol.kset)
    BY <2>1, <2>2, <1>1, <1>6, MinOfPair
  <2>4. n \in Rungs /\ n \in 0..K
    BY <2>2, <2>3, <1>1, <1>6 DEF Rungs
  <2> QED BY <2>4, <1>3, <1>8 DEF n
<1>9. CASE (allKnown /\ ~posFires) \/ (~allKnown /\ marginFires)
  <2>1. n = Min(known)
    BY <1>7, <1>9
  <2>2. Min(known) \in Rungs /\ Min(known) \in 0..K /\ noneStructured
    BY <1>3, <1>4, <1>9
  <2> QED BY <2>1, <2>2 DEF n
<1>10. CASE ~allKnown /\ ~marginFires
  <2>1. n = Max(lengths)
    BY <1>7, <1>10
  <2> QED BY <2>1, <1>1, <1>5 DEF n
<1> QED BY <1>8, <1>9, <1>10

(* The EMA of an observed request stays between 0 and the longest draft.   *)
LEMMA ObservedRange ==
  ASSUME NEW p \in Params, NEW numDraft \in 1..K, NEW numAccepted \in 0..numDraft,
         NEW st \in [val : 0..(Scale * Max({K, KMax})), obs : 0..StepCap]
  PROVE  Observed(p, st, numDraft, numAccepted) \subseteq
           [val : 0..(Scale * Max({K, KMax})), obs : 0..StepCap]
<1> DEFINE M == Scale * Max({K, KMax})
           x == Scale * Observation(p, numDraft, numAccepted)
           y == IF st.obs = 0 THEN Scale * KMax ELSE st.val
           o == IF st.obs < StepCap THEN st.obs + 1 ELSE StepCap
<1>1. /\ K \in Nat \ {0} /\ KMax \in Nat /\ Scale \in Nat \ {0}
      /\ AlphaDen \in Nat \ {0} /\ StepCap \in Nat \ {0} /\ p.alpha \in 0..AlphaDen
  BY AdaptiveKAssumption, KMaxInBootSet DEF AdaptiveKAssumption, Params
<1>2. Max({K, KMax}) \in Nat /\ K <= Max({K, KMax}) /\ KMax <= Max({K, KMax})
  BY <1>1, MaxOfPair
<1>3. Observation(p, numDraft, numAccepted) \in 0..Max({K, KMax})
  <2>1. Max({KMax, numDraft}) \in 0..Max({K, KMax})
    <3>1. Max({KMax, numDraft}) = IF KMax >= numDraft THEN KMax ELSE numDraft
      BY <1>1, MaxOfPair
    <3> QED BY <3>1, <1>1, <1>2
  <2>2. numAccepted \in 0..Max({K, KMax})
    BY <1>1, <1>2
  <2> QED BY <2>1, <2>2 DEF Observation
<1> HIDE DEF M, x, y, o
<1>4. M \in Nat /\ x \in 0..M /\ y \in 0..M /\ o \in 0..StepCap
  <2>1. \A z \in 0..Max({K, KMax}) : Scale * z \in 0..(Scale * Max({K, KMax}))
    BY <1>1, <1>2
  <2>2. M \in Nat /\ x \in 0..M
    BY <1>1, <1>2, <1>3, <2>1 DEF M, x
  <2>3. y \in 0..M
    <3>1. KMax \in 0..Max({K, KMax})
      BY <1>1, <1>2
    <3> QED BY <2>1, <3>1 DEF y, M
  <2> QED BY <2>2, <2>3, <1>1 DEF o
<1>5. Mixes(p, x, y) \subseteq 0..M
  <2> DEFINE n == x * p.alpha + y * (AlphaDen - p.alpha)
  <2>1. n \div AlphaDen \in 0..M /\ (n % AlphaDen # 0 => n \div AlphaDen + 1 \in 0..M)
    BY <1>1, <1>4, MixBound
  <2> QED BY <2>1 DEF Mixes, MixDown, MixExact
<1>6. Observed(p, st, numDraft, numAccepted) = {[val |-> v, obs |-> o] : v \in Mixes(p, x, y)}
  BY DEF Observed, x, y, o
<1>7. \A v \in Mixes(p, x, y) : [val |-> v, obs |-> o] \in [val : 0..M, obs : 0..StepCap]
  BY <1>4, <1>5
<1>8. Observed(p, st, numDraft, numAccepted) \subseteq [val : 0..M, obs : 0..StepCap]
  BY <1>6, <1>7
<1> QED BY <1>8 DEF M

(* A file never widens the ladder beyond the boot set nor empties it.      *)
LEMMA OverrideType ==
  ASSUME NEW pol \in PolicyType, NEW cfg \in Configs
  PROVE  Override(pol, cfg) \in PolicyType
<1>1. cfg \in ConfigType
  BY AdaptiveKAssumption DEF AdaptiveKAssumption
<1>2. OverrideSet(pol, cfg) \in {S \in SUBSET BootSet : S # {}}
  BY BootSetElements DEF OverrideSet, PolicyType
<1>3. CASE cfg.fault = "parse"
  BY <1>3 DEF Override
<1>4. CASE cfg.fault # "parse"
  BY <1>1, <1>2, <1>4 DEF Override, PolicyType, ConfigType
<1> QED BY <1>3, <1>4

(* What apply leaves behind, given what it was called with.                *)
LEMMA ApplyRange ==
  ASSUME TypeOK, NEW row, NEW batch, IsBatch(row, batch), Apply(row, batch)
  PROVE  /\ policy' \in PolicyType /\ ema' \in EmaType
         /\ steps' \in 0..(StepPeriod - 1) /\ fileMtime' \in 0..MaxWrites
         /\ spec' \in [Requests -> 0..K]
         /\ (\E r \in batch : Structured(r)) => spec' = row
         /\ \A r \in Requests : spec'[r] # row[r] => spec'[r] \in Rungs
<1> DEFINE pol == IF Polls THEN ReloadedPolicy ELSE policy
           kept == IF Polls /\ ReloadClears THEN Forgotten ELSE ema
           n == Width(pol, kept, row, batch)
<1>1. pol \in PolicyType
  BY OverrideType DEF TypeOK, ReloadedPolicy
<1>2. Unseen \in [val : 0..(Scale * Max({K, KMax})), obs : 0..StepCap]
  <2>1. Max({K, KMax}) \in Nat
    BY AdaptiveKAssumption, KMaxInBootSet, MaxOfPair DEF AdaptiveKAssumption
  <2> QED BY <2>1, AdaptiveKAssumption DEF AdaptiveKAssumption, Unseen
<1>3. kept \in EmaType
  BY <1>2 DEF TypeOK, Forgotten, EmaType
<1> HIDE DEF pol, kept, n
<1>4. /\ n \in 0..K
      /\ (\E r \in batch : Structured(r)) => \A r \in batch : row[r] <= n
      /\ \A r \in batch : row[r] > n => n \in Rungs
  BY <1>1, WidthRange DEF n
<1>5. policy' = pol /\ fileMtime' = (IF Polls THEN ReloadedMtime ELSE fileMtime)
      /\ steps' = (steps + 1) % StepPeriod
  BY DEF Apply, pol
<1>6. ema' \in EmaType
  <2>1. Pruned(kept) \in EmaType
    BY <1>2, <1>3 DEF Pruned, EmaType
  <2> QED BY <2>1, <1>3 DEF Apply, pol, kept
<1>7. \/ spec' = [r \in Requests |-> IF row[r] > n THEN n ELSE row[r]]
      \/ spec' = row
  BY DEF Apply, pol, kept, n
<1>8. /\ spec' \in [Requests -> 0..K]
      /\ (\E r \in batch : Structured(r)) => spec' = row
      /\ \A r \in Requests : spec'[r] # row[r] => spec'[r] \in Rungs
  <2>1. /\ row \in [Requests -> 0..K] /\ K \in Nat
        /\ \A r \in Requests : row[r] > 0 => r \in batch
    BY AdaptiveKAssumption DEF IsBatch, AdaptiveKAssumption
  <2>2. CASE spec' = row
    BY <2>1, <2>2
  <2>3. CASE spec' = [r \in Requests |-> IF row[r] > n THEN n ELSE row[r]]
    <3>1. \A r \in Requests : row[r] > n => r \in batch
      BY <2>1, <1>4
    <3>2. spec' \in [Requests -> 0..K]
      BY <2>1, <2>3, <1>4
    <3>3. (\E r \in batch : Structured(r)) => spec' = row
      <4> SUFFICES ASSUME \E r \in batch : Structured(r)
                   PROVE  spec' = row
        OBVIOUS
      <4>1. \A r \in Requests : ~(row[r] > n)
        BY <3>1, <2>1, <1>4
      <4> QED BY <4>1, <2>1, <2>3
    <3>4. \A r \in Requests : spec'[r] # row[r] => spec'[r] \in Rungs
      BY <3>1, <2>3, <1>4
    <3> QED BY <3>2, <3>3, <3>4
  <2> QED BY <1>7, <2>2, <2>3
<1>9. steps' \in 0..(StepPeriod - 1) /\ fileMtime' \in 0..MaxWrites
  BY <1>5, AdaptiveKAssumption DEF AdaptiveKAssumption, TypeOK, ReloadedMtime
<1> QED BY <1>1, <1>5, <1>6, <1>8, <1>9

(* Draft hands the policy a batch in the sense of IsBatch, or leaves every *)
(* row as drafted.                                                         *)
LEMMA DraftCases ==
  ASSUME TypeOK, Draft
  PROVE  \E row \in [Requests -> 0..K] :
           /\ drafted' = row
           /\ \/ /\ policy.enabled
                 /\ IsBatch(row, {r \in Requests : row[r] > 0})
                 /\ Apply(row, {r \in Requests : row[r] > 0})
              \/ spec' = row /\ UNCHANGED <<ema, policy, steps, fileMtime>>
<1>1. PICK valid \in [{r \in Requests : Structured(r)} -> 0..K] :
        LET row == [r \in Requests |->
                      CASE status[r] = "decode" -> K
                        [] status[r] = "grammar" -> valid[r]
                        [] OTHER -> 0]
            batch == {r \in Requests : row[r] > 0}
        IN  /\ drafted' = row
            /\ IF policy.enabled /\ batch # {}
                 THEN Apply(row, batch)
                 ELSE spec' = row /\ UNCHANGED <<ema, policy, steps, fileMtime>>
  BY DEF Draft
<1> DEFINE row == [r \in Requests |->
                     CASE status[r] = "decode" -> K
                       [] status[r] = "grammar" -> valid[r]
                       [] OTHER -> 0]
           batch == {r \in Requests : row[r] > 0}
<1>2. K \in Nat \ {0}
  BY AdaptiveKAssumption DEF AdaptiveKAssumption
<1>3. \A r \in Requests : /\ row[r] \in 0..K
                          /\ row[r] > 0 /\ ~Structured(r) => row[r] = K
  <2> TAKE r \in Requests
  <2>1. CASE status[r] = "decode"
    BY <1>2, <2>1
  <2>2. CASE status[r] = "grammar"
    <3>1. valid[r] \in 0..K
      BY <2>2, <1>1 DEF Structured
    <3> QED BY <2>2, <3>1 DEF Structured
  <2>3. CASE status[r] # "decode" /\ status[r] # "grammar"
    BY <1>2, <2>3
  <2> QED BY <2>1, <2>2, <2>3
<1>4. row \in [Requests -> 0..K]
  BY <1>3
<1>5. batch # {} => IsBatch(row, batch)
  <2> HIDE DEF row
  <2> QED BY <1>3, <1>4 DEF IsBatch
<1>6. /\ drafted' = row
      /\ \/ policy.enabled /\ batch # {} /\ Apply(row, batch)
         \/ spec' = row /\ UNCHANGED <<ema, policy, steps, fileMtime>>
  BY <1>1
<1> HIDE DEF row
<1> QED BY <1>4, <1>5, <1>6

(* Type correctness, for every number of requests and every ladder.        *)
THEOREM TypeCorrect == Spec => []TypeOK
<1> USE DEF EmaType
<1>1. Init => TypeOK
  <2> SUFFICES ASSUME Init PROVE TypeOK
    OBVIOUS
  <2>1. Unseen \in [val : 0..(Scale * Max({K, KMax})), obs : 0..StepCap]
    <3>1. Max({K, KMax}) \in Nat
      BY AdaptiveKAssumption, KMaxInBootSet, MaxOfPair DEF AdaptiveKAssumption
    <3> QED BY <3>1, AdaptiveKAssumption DEF AdaptiveKAssumption, Unseen
  <2>2. ema \in [Requests -> [val : 0..(Scale * Max({K, KMax})), obs : 0..StepCap]]
    BY <2>1 DEF Init, Forgotten
  <2>3. /\ file \in [mtime : 0..MaxWrites, cfg : Configs] /\ writes \in 0..MaxWrites
        /\ fileMtime \in 0..MaxWrites
    <3>1. NoFile \in [mtime : 0..MaxWrites, cfg : Configs]
      BY AdaptiveKAssumption DEF AdaptiveKAssumption, NoFile
    <3> QED BY <3>1, AdaptiveKAssumption DEF AdaptiveKAssumption, Init
  <2>4. policy \in PolicyType
    <3>1. BootPolicy \in PolicyType
      BY BootSetElements, AdaptiveKAssumption
      DEF AdaptiveKAssumption, BootPolicy, PolicyType, Init
    <3> QED BY <3>1, <2>3, OverrideType DEF Init
  <2>5. /\ spec \in [Requests -> 0..K] /\ sched \in [Requests -> 0..K]
        /\ drafted \in [Requests -> 0..K] /\ steps \in 0..(StepPeriod - 1)
    BY AdaptiveKAssumption DEF AdaptiveKAssumption, Init
  <2>6. status \in [Requests -> {"absent", "prefill", "decode", "grammar"}]
    BY DEF Init
  <2> QED BY <2>2, <2>3, <2>4, <2>5, <2>6 DEF Init, TypeOK
<1>2. TypeOK /\ [Next]_vars => TypeOK'
  <2> SUFFICES ASSUME TypeOK, [Next]_vars PROVE TypeOK'
    OBVIOUS
  <2>0. K \in Nat \ {0}
    BY AdaptiveKAssumption DEF AdaptiveKAssumption
  <2>1. ASSUME NEW r \in Requests, Arrive(r) PROVE TypeOK'
    <3>1. Unseen \in [val : 0..(Scale * Max({K, KMax})), obs : 0..StepCap]
      <4>1. Max({K, KMax}) \in Nat
        BY AdaptiveKAssumption, KMaxInBootSet, MaxOfPair DEF AdaptiveKAssumption
      <4> QED BY <4>1, AdaptiveKAssumption DEF AdaptiveKAssumption, Unseen
    <3>2. ema' \in [Requests -> [val : 0..(Scale * Max({K, KMax})), obs : 0..StepCap]]
      BY <2>1, <3>1 DEF TypeOK, Arrive
    <3>3. status' \in [Requests -> {"absent", "prefill", "decode", "grammar"}]
      BY <2>1 DEF TypeOK, Arrive
    <3>4. spec' \in [Requests -> 0..K] /\ drafted' \in [Requests -> 0..K]
      BY <2>0, <2>1 DEF TypeOK, Arrive
    <3> QED BY <2>1, <3>2, <3>3, <3>4 DEF TypeOK, Arrive
  <2>2. ASSUME NEW r \in Requests, Abort(r) PROVE TypeOK'
    <3>1. status' \in [Requests -> {"absent", "prefill", "decode", "grammar"}]
      BY <2>2 DEF TypeOK, Abort
    <3>2. spec' \in [Requests -> 0..K] /\ drafted' \in [Requests -> 0..K]
      BY <2>0, <2>2 DEF TypeOK, Abort
    <3> QED BY <2>2, <3>1, <3>2 DEF TypeOK, Abort
  <2>3. ASSUME NEW r \in Requests, Observe(r) PROVE TypeOK'
    <3>1. ema' \in [Requests -> [val : 0..(Scale * Max({K, KMax})), obs : 0..StepCap]]
      <4>1. PICK accepted \in Min({MinAccepted[r], sched[r]})..sched[r] :
              IF policy.enabled
                THEN \E st \in Observed(policy.params, ema[r], sched[r], accepted) :
                       ema' = [ema EXCEPT ![r] = st]
                ELSE UNCHANGED ema
        BY <2>3 DEF Observe
      <4>2. accepted \in 0..sched[r] /\ sched[r] \in 1..K
        <5>1. sched[r] \in 1..K /\ MinAccepted[r] \in Nat
          <6>1. sched[r] \in 0..K /\ sched[r] > 0
            BY <2>3 DEF Observe, TypeOK
          <6>2. MinAccepted[r] \in 0..K
            BY AdaptiveKAssumption DEF AdaptiveKAssumption
          <6> QED BY <2>0, <6>1, <6>2
        <5>2. Min({MinAccepted[r], sched[r]}) \in Nat
          BY <5>1, MinOfPair
        <5> QED BY <5>1, <5>2
      <4>3. policy.params \in Params
        BY DEF TypeOK, PolicyType
      <4>4. Observed(policy.params, ema[r], sched[r], accepted) \subseteq
              [val : 0..(Scale * Max({K, KMax})), obs : 0..StepCap]
        BY <4>2, <4>3, ObservedRange DEF TypeOK
      <4> QED BY <4>1, <4>4 DEF TypeOK
    <3>2. sched' \in [Requests -> 0..K]
      BY <2>0, <2>3 DEF TypeOK, Observe
    <3> QED BY <2>3, <3>1, <3>2 DEF TypeOK, Observe
  <2>4. CASE Schedule
    BY <2>4 DEF TypeOK, Schedule
  <2>5. CASE Advance
    BY <2>5 DEF TypeOK, Advance
  <2>6. CASE Draft
    <3>1. /\ phase' = "schedule" /\ drafted' \in [Requests -> 0..K]
          /\ spec' \in [Requests -> 0..K] /\ policy' \in PolicyType
          /\ ema' \in EmaType /\ steps' \in 0..(StepPeriod - 1)
          /\ fileMtime' \in 0..MaxWrites
      <4>1. PICK row \in [Requests -> 0..K] :
              /\ drafted' = row
              /\ \/ /\ IsBatch(row, {r \in Requests : row[r] > 0})
                    /\ Apply(row, {r \in Requests : row[r] > 0})
                 \/ spec' = row /\ UNCHANGED <<ema, policy, steps, fileMtime>>
        BY <2>6, DraftCases
      <4>2. CASE UNCHANGED <<ema, policy, steps, fileMtime>> /\ spec' = row
        BY <2>6, <4>1, <4>2 DEF Draft, TypeOK
      <4>3. CASE IsBatch(row, {r \in Requests : row[r] > 0})
                 /\ Apply(row, {r \in Requests : row[r] > 0})
        BY <2>6, <4>1, <4>3, ApplyRange DEF Draft
      <4> QED BY <4>1, <4>2, <4>3
    <3> QED BY <2>6, <3>1 DEF Draft, TypeOK
  <2>7. CASE WriteFile
    <3>1. MaxWrites \in Nat /\ writes' = writes + 1 /\ writes' \in 0..MaxWrites
      BY <2>7, AdaptiveKAssumption DEF AdaptiveKAssumption, TypeOK, WriteFile
    <3>2. file' \in [mtime : 0..MaxWrites, cfg : Configs]
      BY <2>7, <3>1 DEF WriteFile
    <3> QED BY <2>7, <3>1, <3>2 DEF TypeOK, WriteFile
  <2>8. CASE DeleteFile
    <3>1. NoFile \in [mtime : 0..MaxWrites, cfg : Configs]
      BY AdaptiveKAssumption DEF AdaptiveKAssumption, NoFile
    <3> QED BY <2>8, <3>1 DEF TypeOK, DeleteFile
  <2>9. CASE UNCHANGED vars
    BY <2>9 DEF TypeOK, vars
  <2> QED BY <2>1, <2>2, <2>3, <2>4, <2>5, <2>6, <2>7, <2>8, <2>9 DEF Next
<1>3. QED
  BY <1>1, <1>2, PTL DEF Spec

(* The inductive invariant behind the safety properties of the rows: a     *)
(* policy that was off at boot is still off.                               *)
RowsInv ==
  /\ TrimmedRowsAreCaptured
  /\ StructuredHoldsBatch
  /\ BootOffNeverTrims
  /\ ~knobs.enabled => ~policy.enabled

LEMMA RungsAreCaptured ==
  ASSUME NEW k \in Rungs PROVE k + 1 \in CapturedQueryLens
BY DEF Rungs, CapturedQueryLens

LEMMA RowsInvInit == Init => RowsInv
<1> SUFFICES ASSUME Init PROVE RowsInv
  OBVIOUS
<1>1. spec = drafted /\ ~knobs.enabled => ~policy.enabled
  BY DEF Init, MayReload, BootPolicy
<1> QED BY <1>1 DEF Init, RowsInv, TrimmedRowsAreCaptured, StructuredHoldsBatch,
                  BootOffNeverTrims

LEMMA RowsInvStep == TypeOK /\ RowsInv /\ [Next]_vars => RowsInv'
<1> SUFFICES ASSUME TypeOK, RowsInv, [Next]_vars PROVE RowsInv'
  OBVIOUS
<1> USE DEF RowsInv, TrimmedRowsAreCaptured, StructuredHoldsBatch, BootOffNeverTrims
<1>1. ASSUME NEW r \in Requests, Arrive(r) PROVE RowsInv'
  <2>1. /\ status' = [status EXCEPT ![r] = "prefill"] /\ phase' = phase /\ phase # "draft"
        /\ spec' = [spec EXCEPT ![r] = 0] /\ drafted' = [drafted EXCEPT ![r] = 0]
        /\ knobs' = knobs /\ policy' = policy
    BY <1>1 DEF Arrive
  <2> QED BY <2>1 DEF TypeOK, Structured, CapturedQueryLens
<1>2. ASSUME NEW r \in Requests, Abort(r) PROVE RowsInv'
  <2>1. /\ status' = [status EXCEPT ![r] = "absent"] /\ phase' = phase /\ phase # "draft"
        /\ spec' = [spec EXCEPT ![r] = 0] /\ drafted' = [drafted EXCEPT ![r] = 0]
        /\ knobs' = knobs /\ policy' = policy
    BY <1>2 DEF Abort
  <2> QED BY <2>1 DEF TypeOK, Structured, CapturedQueryLens
<1>3. ASSUME NEW r \in Requests, Observe(r) PROVE RowsInv'
  BY <1>3 DEF Observe, Structured, CapturedQueryLens
<1>4. CASE Schedule
  BY <1>4 DEF Schedule, Structured, CapturedQueryLens
<1>5. CASE Advance
  BY <1>5 DEF Advance, CapturedQueryLens
<1>6. CASE Draft
  <2>1. PICK row \in [Requests -> 0..K] :
          /\ drafted' = row
          /\ \/ /\ policy.enabled
                /\ IsBatch(row, {r \in Requests : row[r] > 0})
                /\ Apply(row, {r \in Requests : row[r] > 0})
             \/ spec' = row /\ UNCHANGED <<ema, policy, steps, fileMtime>>
    BY <1>6, DraftCases
  <2>2. knobs' = knobs /\ status' = status
    BY <1>6 DEF Draft
  <2>3. CASE spec' = row /\ UNCHANGED <<ema, policy, steps, fileMtime>>
    BY <2>1, <2>2, <2>3
  <2>4. CASE /\ policy.enabled
             /\ IsBatch(row, {r \in Requests : row[r] > 0})
             /\ Apply(row, {r \in Requests : row[r] > 0})
    <3>1. /\ (\E r \in {r \in Requests : row[r] > 0} : Structured(r)) => spec' = row
          /\ \A r \in Requests : spec'[r] # row[r] => spec'[r] \in Rungs
      BY <2>4, ApplyRange
    <3>2. TrimmedRowsAreCaptured'
      <4>1. \A r \in Requests : spec'[r] # row[r] => spec'[r] + 1 \in CapturedQueryLens
        BY <3>1, RungsAreCaptured
      <4> QED BY <2>1, <4>1 DEF CapturedQueryLens
    <3>3. StructuredHoldsBatch'
      BY <2>1, <2>2, <3>1 DEF Structured
    <3>4. knobs.enabled
      BY <2>4
    <3> QED BY <2>2, <3>2, <3>3, <3>4
  <2> QED BY <2>1, <2>3, <2>4
<1>7. CASE WriteFile
  BY <1>7 DEF WriteFile, Structured, CapturedQueryLens
<1>8. CASE DeleteFile
  BY <1>8 DEF DeleteFile, Structured, CapturedQueryLens
<1>9. CASE UNCHANGED vars
  BY <1>9 DEF vars, Structured, CapturedQueryLens
<1> QED BY <1>1, <1>2, <1>3, <1>4, <1>5, <1>6, <1>7, <1>8, <1>9 DEF Next

LEMMA RowsInvariant == Spec => []RowsInv
BY RowsInvInit, RowsInvStep, TypeCorrect, PTL DEF Spec

(* Every trimmed row replays a captured graph, under every override file.  *)
THEOREM CapturedRows == Spec => []TrimmedRowsAreCaptured
<1>1. RowsInv => TrimmedRowsAreCaptured
  BY DEF RowsInv
<1> QED BY <1>1, RowsInvariant, PTL

(* A grammar-validated row holds its batch, whichever trims are on.        *)
THEOREM StructuredPin == Spec => []StructuredHoldsBatch
<1>1. RowsInv => StructuredHoldsBatch
  BY DEF RowsInv
<1> QED BY <1>1, RowsInvariant, PTL

(* A boot without the policy never trims.                                  *)
THEOREM BootOff == Spec => []BootOffNeverTrims
<1>1. RowsInv => BootOffNeverTrims
  BY DEF RowsInv
<1> QED BY <1>1, RowsInvariant, PTL

(* A policy call keeps what it knows of every live request, unless it has  *)
(* just accepted a changed override file.                                  *)
LEMMA ApplyKeepsLive ==
  ASSUME NEW row, NEW batch, Apply(row, batch), fileMtime' = fileMtime,
         NEW r \in Live
  PROVE  ema'[r] = ema[r] \/ ema' = ema
<1>1. ~(Polls /\ ReloadClears)
  <2> SUFFICES ASSUME Polls, ReloadClears
               PROVE  FALSE
    OBVIOUS
  <2>1. MayReload /\ file.mtime # fileMtime
    BY DEF ReloadClears, ReadsFile
  <2>2. fileMtime' = file.mtime
    BY <2>1 DEF Apply, ReloadedMtime
  <2> QED BY <2>1, <2>2
<1>2. ema' = Pruned(ema) \/ ema' = ema
  BY <1>1 DEF Apply
<1>3. Pruned(ema)[r] = ema[r]
  BY DEF Pruned, Live
<1> QED BY <1>2, <1>3

(* An observation is never taken for an unseen request.                    *)
LEMMA ObservedIsSeen ==
  ASSUME NEW p, NEW st, st.obs \in 0..StepCap, NEW numDraft, NEW numAccepted
  PROVE  Unseen \notin Observed(p, st, numDraft, numAccepted)
<1>1. StepCap \in Nat \ {0}
  BY AdaptiveKAssumption DEF AdaptiveKAssumption
<1>2. (IF st.obs < StepCap THEN st.obs + 1 ELSE StepCap) # 0
  BY <1>1
<1>3. ASSUME NEW s \in Observed(p, st, numDraft, numAccepted)
      PROVE  s.obs # 0
  BY <1>2, <1>3 DEF Observed
<1> QED BY <1>3 DEF Unseen

(* Only an accepted override file makes the policy forget a live request:  *)
(* neither the prune nor anything a request or the operator does.          *)
THEOREM ForgettingIsAReload == Spec => ForgetsLiveOnlyOnReload
<1>1. ASSUME TypeOK, [Next]_vars,
             NEW r \in Live, ema[r] # Unseen, r \in Live', ema'[r] = Unseen
      PROVE  fileMtime' # fileMtime
  <2>0. SUFFICES ASSUME fileMtime' = fileMtime
                 PROVE  FALSE
    OBVIOUS
  <2> r \in Requests
    BY DEF Live
  <2>1. ema'[r] # ema[r] /\ ema' # ema
    BY <1>1
  <2>2. ASSUME NEW q \in Requests, Arrive(q) PROVE FALSE
    <3>1. q # r
      BY <2>2, <1>1 DEF Arrive, Live
    <3> QED BY <3>1, <2>2, <2>1 DEF Arrive, TypeOK
  <2>3. ASSUME NEW q \in Requests, Observe(q) PROVE FALSE
    <3>1. PICK accepted : \E st \in Observed(policy.params, ema[q], sched[q], accepted) :
            ema' = [ema EXCEPT ![q] = st]
      BY <2>1, <2>3 DEF Observe
    <3>2. q = r
      BY <3>1, <2>1 DEF TypeOK
    <3>3. Unseen \in Observed(policy.params, ema[r], sched[r], accepted)
      BY <3>1, <3>2, <1>1 DEF TypeOK
    <3>4. ema[r].obs \in 0..StepCap
      BY <1>1 DEF TypeOK
    <3> QED BY <3>3, <3>4, ObservedIsSeen
  <2>4. CASE Draft
    <3>1. PICK row, batch : Apply(row, batch) \/ ema' = ema
      BY <1>1, <2>4, DraftCases
    <3> QED BY <3>1, <2>0, <2>1, ApplyKeepsLive
  <2>5. ~(\E q \in Requests : Abort(q)) /\ ~Schedule /\ ~Advance /\ ~WriteFile /\ ~DeleteFile
    BY <2>1 DEF Abort, Schedule, Advance, WriteFile, DeleteFile
  <2>6. ~UNCHANGED vars
    BY <2>1 DEF vars
  <2> QED BY <1>1, <2>2, <2>3, <2>4, <2>5, <2>6 DEF Next
<1>2. TypeOK /\ [Next]_vars
        => [\A r \in Live : ema[r] # Unseen /\ r \in Live' /\ ema'[r] = Unseen
              => fileMtime' # fileMtime]_vars
  BY <1>1
<1> QED BY <1>2, TypeCorrect, PTL DEF Spec, ForgetsLiveOnlyOnReload
=============================================================================

--------------------------- MODULE Bringup_proofs ---------------------------
(***************************************************************************)
(* Proofs about the bring-up and the shutdown of the two ranks (Bringup),  *)
(* for any number of starts, process ids, polls, faults and signals:       *)
(*                                                                         *)
(*   - every guard alive is the one its PID file names, so what disarms or *)
(*     cleans up finds it;                                                 *)
(*   - stop-glm53.sh reports the truth while no start is active;           *)
(*   - if starts do not overlap, a failed start whose cleanup worked       *)
(*     leaves nothing, a start that announces the service has no guard     *)
(*     armed, and no later start touches a service that runs.              *)
(***************************************************************************)
EXTENDS Bringup, TLAPS

----------------------------------------------------------------------------
(* The inductive invariant                                                 *)

\* A guard process is the one the PID file of its node names.
Named == \A r \in Ranks, p \in Pids : proc[r][p] \in GuardStates => pidFile[r] = p

\* While the stop script is alone, nothing it has stopped comes back.
StopSound ==
  stop.alone =>
    /\ Quiet
    /\ stop.result = 0 =>
         /\ stop.pc \in {"guardHead", "sshTest", "stopWorker", "guardWorker", "reported"}
              => cont[Head] = None
         /\ stop.pc \in {"guardWorker", "reported"} => cont[Worker] = None

\* One start at a time.
OneStart == \A s, t \in Starters : pc[s] \in Active /\ pc[t] \in Active => s = t

\* Past the first "already running" check the head is down or the start's own.
HeadIsMine ==
  \A s \in Starters :
    pc[s] \in {"checkWorker"} \cup Raising \cup Cleaning => cont[Head] \in {None, s}

\* What a start has disarmed stays disarmed until it announces the service.
Disarmed ==
  \A s \in Starters :
    /\ pc[s] \in {"disarmWorker", "smoke"} => Guards(Head) = {}
    /\ pc[s] = "smoke" => Guards(Worker) = {}

\* What a cleanup has done, as long as none of its commands failed.
Cleaned ==
  \A s \in Starters : ~botched[s] =>
    /\ pc[s] \in {"cleanWorker", "cleanGuardHead", "cleanGuardWorker"} => cont[Head] # s
    /\ pc[s] \in {"cleanGuardHead", "cleanGuardWorker"} => cont[Worker] # s
    /\ pc[s] = "cleanGuardWorker" => Guards(Head) = {}

Alone == OneStart /\ HeadIsMine /\ Disarmed /\ Cleaned

IInv == TypeOK /\ Named /\ StopSound /\ (~Overlap => Alone)

----------------------------------------------------------------------------
(* What one command of a start script may do                               *)

UpPc(r) == IF r = Head THEN "upHead" ELSE "upWorker"
GuardPc(r) == IF r = Head THEN "guardHead" ELSE "guardWorker"

\* The line a script stands at and the one it may go on to.
Edge(p, x) ==
  /\ p \in Active /\ x \in Active \cup Ended
  /\ x = "checkWorker" => p = "checkHead"
  /\ x \in Raising \cup Cleaning => p \in {"checkWorker"} \cup Raising \cup Cleaning
  /\ x = "disarmWorker" => p = "disarmHead"
  /\ x = "smoke" => p = "disarmWorker"
  /\ x = "serving" => p = "smoke"
  /\ x = "cleanWorker" => p = "cleanHead"
  /\ x = "cleanGuardHead" => p = "cleanWorker"
  /\ x = "cleanGuardWorker" => p = "cleanGuardHead"

Walks(s) == \E x : Goto(s, x) /\ Edge(pc[s], x)

\* A container stays, goes, or is created by the start that stands at its `up`.
Takes(s) ==
  /\ \A r \in Ranks : \/ cont'[r] \in {cont[r], None}
                      \/ pc[s] = UpPc(r) /\ cont'[r] = s
  /\ cont' = cont \/ \E r \in Ranks, c \in {s, None} : Replace(r, c)
  /\ pc[s] \in Preparing => cont' = cont
  /\ UNCHANGED api \/ \E r \in Ranks, c \in {s, None} : Replace(r, c)

\* Only the steps that start a guard arm one.
Arms(s) ==
  \/ UNCHANGED guards
  \/ \E r \in Ranks, ok \in BOOLEAN :
       StopGuard(r, ok) \/ (pc[s] = GuardPc(r) /\ StartGuard(r, ok))

\* Only the cleanup records failed commands, its own, and forgets none.
Owns(s) == botched' = botched \/ \E b \in BOOLEAN : Botch(s, b)

StepEffect(s) ==
  /\ Walks(s) /\ Takes(s) /\ Arms(s) /\ Owns(s)
  /\ elapsed' = elapsed
       \/ \E n \in 0..WaitRounds : elapsed' = [elapsed EXCEPT ![s] = n]
  /\ faults' = faults \/ DockerError
  /\ UNCHANGED <<stop, env, link, interrupts>>

LEMMA LooksEffect ==
  ASSUME TypeOK, NEW s \in Starters,
         \/ Preflight(s) \/ CheckHead(s) \/ CheckWorker(s) \/ VerifyWorker(s)
         \/ WaitHead(s) \/ WaitWorker(s) \/ Probe(s) \/ Smoke(s)
  PROVE  StepEffect(s)
<1>1. /\ UNCHANGED <<botched, env, link, interrupts, cont, api, stop, guards, faults>>
  BY DEF Preflight, CheckHead, CheckWorker, VerifyWorker, WaitHead, WaitWorker, Probe, Smoke,
         StartUnchanged, NoContainerChange
<1>2. Walks(s)
  <2>1. CASE Preflight(s) \/ CheckHead(s) \/ CheckWorker(s)
    BY <2>1 DEF Preflight, CheckHead, CheckWorker, Walks, Edge, Fail, Goto,
                Active, Preparing, Raising, Cleaning, Ended
  <2>2. CASE VerifyWorker(s) \/ WaitHead(s) \/ WaitWorker(s)
    BY <2>2 DEF VerifyWorker, WaitHead, WaitWorker, Walks, Edge, Fail, Goto,
                Active, Preparing, Raising, Cleaning, Ended
  <2>3. CASE Probe(s) \/ Smoke(s)
    BY <2>3 DEF Probe, Smoke, Walks, Edge, Fail, Goto,
                Active, Preparing, Raising, Cleaning, Ended
  <2> QED BY <2>1, <2>2, <2>3
<1>3. elapsed' = elapsed \/ \E n \in 0..WaitRounds : elapsed' = [elapsed EXCEPT ![s] = n]
  <2>1. CASE Probe(s)
    <3>1. elapsed[s] \in 0..WaitRounds /\ WaitRounds \in Nat
      BY BringupAssumption DEF TypeOK
    <3> DEFINE n == IF elapsed[s] < WaitRounds THEN elapsed[s] + 1 ELSE WaitRounds
    <3>2. n \in 0..WaitRounds
      BY <3>1
    <3>3. elapsed' = elapsed \/ elapsed' = [elapsed EXCEPT ![s] = n]
      BY <2>1 DEF Probe
    <3> HIDE DEF n
    <3> QED BY <3>2, <3>3
  <2>2. CASE ~Probe(s)
    BY <2>2 DEF Preflight, CheckHead, CheckWorker, VerifyWorker, WaitHead, WaitWorker, Smoke
  <2> QED BY <2>1, <2>2
<1> QED BY <1>1, <1>2, <1>3 DEF StepEffect, Takes, Arms, Owns

LEMMA ReplaceIs ==
  ASSUME TypeOK, NEW r \in Ranks, NEW c, Replace(r, c)
  PROVE  cont'[r] = c /\ \A q \in Ranks \ {r} : cont'[q] = cont[q]
BY DEF TypeOK, Replace

LEMMA UpEffect ==
  ASSUME TypeOK, NEW s \in Starters, UpWorker(s) \/ UpHead(s)
  PROVE  StepEffect(s)
<1> USE DEF Ranks, Head, Worker
<1>1. PICK r \in Ranks, reachable \in {link, TRUE} :
        pc[s] = UpPc(r) /\ Up(s, r, reachable, GuardPc(r))
  BY DEF UpWorker, UpHead, UpPc, GuardPc
<1>2. /\ Replace(r, s) \/ NoContainerChange
      /\ Goto(s, GuardPc(r)) \/ Fail(s)
      /\ faults' = faults \/ DockerError
      /\ UNCHANGED <<botched, env, link, interrupts, elapsed, stop, guards>>
  BY <1>1 DEF Up, StartUnchanged
<1>3. Walks(s)
  BY <1>1, <1>2 DEF UpPc, GuardPc, Walks, Edge, Fail, Goto,
                    Active, Preparing, Raising, Cleaning, Ended
<1>4. Takes(s)
  <2>1. pc[s] \notin Preparing
    BY <1>1 DEF UpPc, Preparing
  <2>2. CASE Replace(r, s)
    BY <1>1, <2>1, <2>2, ReplaceIs DEF Takes, Replace
  <2>3. CASE NoContainerChange
    BY <2>3 DEF Takes, NoContainerChange
  <2> QED BY <1>2, <2>2, <2>3
<1> QED BY <1>2, <1>3, <1>4 DEF StepEffect, Arms, Owns

LEMMA ArmEffect ==
  ASSUME TypeOK, NEW s \in Starters,
         GuardWorker(s) \/ GuardHead(s) \/ DisarmHead(s) \/ DisarmWorker(s)
  PROVE  StepEffect(s)
<1>1. UNCHANGED <<botched, env, link, interrupts, cont, api, elapsed, stop, faults>>
  BY DEF GuardWorker, GuardHead, DisarmHead, DisarmWorker, Arm, Disarm, StartUnchanged, NoContainerChange
<1>2. Arms(s)
  <2>1. CASE GuardWorker(s) \/ GuardHead(s)
    BY <2>1 DEF GuardWorker, GuardHead, Arm, Arms, GuardPc, Ranks, Head, Worker
  <2>2. CASE DisarmWorker(s) \/ DisarmHead(s)
    BY <2>2 DEF DisarmWorker, DisarmHead, Disarm, Arms, Ranks
  <2> QED BY <2>1, <2>2
<1>3. Walks(s)
  <2>1. CASE GuardWorker(s) \/ GuardHead(s)
    <3>1. /\ pc[s] \in {"guardWorker", "guardHead"}
          /\ Fail(s) \/ Goto(s, IF pc[s] = "guardWorker" THEN "verifyWorker" ELSE "waitHead")
      BY <2>1 DEF GuardWorker, GuardHead, Arm
    <3> QED BY <3>1 DEF Walks, Edge, Fail, Goto, Active, Preparing, Raising, Cleaning, Ended
  <2>2. CASE DisarmWorker(s) \/ DisarmHead(s)
    <3>1. /\ pc[s] \in {"disarmWorker", "disarmHead"}
          /\ Fail(s) \/ Goto(s, IF pc[s] = "disarmWorker" THEN "smoke" ELSE "disarmWorker")
      BY <2>2 DEF DisarmWorker, DisarmHead, Disarm
    <3> QED BY <3>1 DEF Walks, Edge, Fail, Goto, Active, Preparing, Raising, Cleaning, Ended
  <2> QED BY <2>1, <2>2
<1> QED BY <1>1, <1>2, <1>3 DEF StepEffect, Takes, Owns

LEMMA CleanEffect ==
  ASSUME TypeOK, NEW s \in Starters,
         CleanHead(s) \/ CleanWorker(s) \/ CleanGuardHead(s) \/ CleanGuardWorker(s)
  PROVE  StepEffect(s)
<1>1. UNCHANGED <<elapsed, stop, env, link, interrupts>>
  BY DEF CleanHead, CleanWorker, CleanGuardHead, CleanGuardWorker, CleanRank, CleanGuard, CleanUnchanged
<1>2. /\ pc[s] \in Cleaning
      /\ Goto(s, IF pc[s] = "cleanHead" THEN "cleanWorker"
                 ELSE IF pc[s] = "cleanWorker" THEN "cleanGuardHead"
                 ELSE IF pc[s] = "cleanGuardHead" THEN "cleanGuardWorker" ELSE "failed")
  <2>1. CASE CleanHead(s) \/ CleanWorker(s)
    BY <2>1 DEF CleanHead, CleanWorker, CleanRank, Cleaning
  <2>2. CASE CleanGuardHead(s) \/ CleanGuardWorker(s)
    BY <2>2 DEF CleanGuardHead, CleanGuardWorker, CleanGuard, Cleaning
  <2> QED BY <2>1, <2>2
<1>3. Walks(s)
  <2> DEFINE x == IF pc[s] = "cleanHead" THEN "cleanWorker"
                    ELSE IF pc[s] = "cleanWorker" THEN "cleanGuardHead"
                    ELSE IF pc[s] = "cleanGuardHead" THEN "cleanGuardWorker" ELSE "failed"
  <2>1. Edge(pc[s], x)
    BY <1>2 DEF Edge, Active, Preparing, Raising, Cleaning, Ended
  <2>2. Goto(s, x)
    BY <1>2
  <2> HIDE DEF x
  <2> QED BY <2>1, <2>2 DEF Walks
<1>4. pc[s] \notin Preparing
  BY <1>2 DEF Preparing, Cleaning
<1>5. CASE CleanHead(s) \/ CleanWorker(s)
  <2>1. /\ \/ \E r \in Ranks : Replace(r, None)
           \/ NoContainerChange
        /\ \E b \in BOOLEAN : Botch(s, b)
        /\ faults' = faults \/ DockerError
        /\ UNCHANGED guards
    BY <1>5 DEF CleanHead, CleanWorker, CleanRank, Ranks
  <2>2. Takes(s)
    <3>1. CASE \E r \in Ranks : Replace(r, None)
      <4>1. PICK r \in Ranks : Replace(r, None)
        BY <3>1
      <4> QED BY <1>4, <4>1, ReplaceIs DEF Takes
    <3>2. CASE NoContainerChange
      BY <3>2 DEF Takes, NoContainerChange
    <3> QED BY <2>1, <3>1, <3>2
  <2> QED BY <1>1, <1>3, <2>1, <2>2 DEF StepEffect, Arms, Owns
<1>6. CASE CleanGuardHead(s) \/ CleanGuardWorker(s)
  <2>1. /\ \/ \E r \in Ranks, ok \in BOOLEAN : StopGuard(r, ok)
           \/ UNCHANGED guards
        /\ \E b \in BOOLEAN : Botch(s, b)
        /\ UNCHANGED <<cont, api, faults>>
    BY <1>6 DEF CleanGuardHead, CleanGuardWorker, CleanGuard, Ranks, NoContainerChange
  <2> QED BY <1>1, <1>3, <2>1 DEF StepEffect, Takes, Arms, Owns
<1> QED BY <1>5, <1>6

LEMMA StartStepEffect ==
  ASSUME TypeOK, NEW s \in Starters, StartStep(s)
  PROVE  StepEffect(s)
BY LooksEffect, UpEffect, ArmEffect, CleanEffect DEF StartStep

----------------------------------------------------------------------------
(* The guards and their PID files                                          *)

GuardsOK ==
  /\ proc \in [Ranks -> [Pids -> {"free", "other"} \cup GuardStates]]
  /\ pidFile \in [Ranks -> Pids \cup {None, Invalid}]
  /\ stops \in [Ranks -> SUBSET Ids]

\* No process becomes a guard.
Fewer == \A r \in Ranks : Guards(r)' \subseteq Guards(r)

LEMMA TypedGuards == ASSUME TypeOK PROVE GuardsOK
BY DEF TypeOK, GuardsOK

\* Killing the guard the file names leaves none.
LEMMA StopGuardIs ==
  ASSUME GuardsOK, Named, NEW r \in Ranks, NEW ok \in BOOLEAN, StopGuard(r, ok)
  PROVE  GuardsOK' /\ Named' /\ Fewer /\ (ok => Guards(r)' = {})
<1> DEFINE p == pidFile[r]
<1>1. CASE ok /\ p \in Guards(r)
  <2>1. /\ pidFile' = [pidFile EXCEPT ![r] = None] /\ proc' = [proc EXCEPT ![r][p] = "free"]
        /\ stops' = stops /\ p \in Pids
    BY <1>1 DEF StopGuard, Guards
  <2>2. proc'[r] = [proc[r] EXCEPT ![p] = "free"] /\ \A q \in Ranks \ {r} : proc'[q] = proc[q]
    BY <2>1 DEF GuardsOK
  <2>3. pidFile'[r] = None /\ \A q \in Ranks \ {r} : pidFile'[q] = pidFile[q]
    BY <2>1 DEF GuardsOK
  <2>4. \A q \in Pids : proc'[r][q] = (IF q = p THEN "free" ELSE proc[r][q])
    BY <2>2 DEF GuardsOK
  <2>5. \A q \in Pids : proc'[r][q] \notin GuardStates
    BY <2>4 DEF Named, GuardStates
  <2>6. GuardsOK'
    BY <2>1 DEF GuardsOK
  <2>7. Named'
    BY <2>2, <2>3, <2>5 DEF Named
  <2>8. Fewer /\ Guards(r)' = {}
    BY <2>2, <2>5 DEF Fewer, Guards
  <2> QED BY <2>6, <2>7, <2>8
<1>2. CASE ok /\ p \notin Guards(r)
  <2>1. pidFile' = [pidFile EXCEPT ![r] = None] /\ proc' = proc /\ stops' = stops
    BY <1>2 DEF StopGuard
  <2>2. Guards(r) = {}
    BY <1>2 DEF Named, Guards
  <2>3. GuardsOK'
    BY <2>1 DEF GuardsOK
  <2>4. Named'
    BY <2>1, <2>2 DEF Named, Guards, GuardsOK
  <2> QED BY <2>1, <2>2, <2>3, <2>4 DEF Fewer, Guards
<1>3. CASE ~ok
  <2>1. UNCHANGED <<proc, pidFile, stops>>
    BY <1>3 DEF StopGuard
  <2> QED BY <1>3, <2>1 DEF GuardsOK, Named, Fewer, Guards
<1> QED BY <1>1, <1>2, <1>3

\* A guard is started under the name the file gets, after the one it named.
LEMMA StartGuardIs ==
  ASSUME GuardsOK, Named, NEW r \in Ranks, NEW ok \in BOOLEAN, StartGuard(r, ok)
  PROVE  GuardsOK' /\ Named' /\ \A q \in Ranks \ {r} : Guards(q)' = Guards(q)
<1>1. CASE UNCHANGED <<proc, pidFile, stops>>
  BY <1>1 DEF GuardsOK, Named, Guards
<1>2. CASE ~UNCHANGED <<proc, pidFile, stops>>
  <2> DEFINE rest == [q \in Pids |-> IF q = pidFile[r] /\ q \in Guards(r) THEN "free" ELSE proc[r][q]]
  <2>1. PICK p \in Pids :
          /\ proc' = [proc EXCEPT ![r] = [rest EXCEPT ![p] = "guard"]]
          /\ pidFile' = [pidFile EXCEPT ![r] = p] /\ stops' = stops
    BY <1>2 DEF StartGuard, guards
  <2>2. \A q \in Pids : rest[q] \in {"free", "other"}
    BY DEF GuardsOK, Named, Guards, GuardStates
  <2>3. rest \in [Pids -> {"free", "other"}]
    BY <2>2
  <2> HIDE DEF rest
  <2>4. [rest EXCEPT ![p] = "guard"] \in [Pids -> {"free", "other"} \cup GuardStates]
    BY <2>3 DEF GuardStates
  <2>5. GuardsOK'
    BY <2>1, <2>4 DEF GuardsOK
  <2>6. /\ pidFile'[r] = p /\ \A q \in Ranks \ {r} : pidFile'[q] = pidFile[q] /\ proc'[q] = proc[q]
        /\ proc'[r] = [rest EXCEPT ![p] = "guard"]
    BY <2>1 DEF GuardsOK
  <2>7. \A q \in Pids : proc'[r][q] \in GuardStates => q = p
    BY <2>2, <2>3, <2>6 DEF GuardStates
  <2>8. Named'
    BY <2>6, <2>7 DEF Named
  <2>9. \A q \in Ranks \ {r} : Guards(q)' = Guards(q)
    BY <2>6 DEF Guards
  <2> QED BY <2>5, <2>8, <2>9
<1> QED BY <1>1, <1>2

LEMMA ArmsIs ==
  ASSUME GuardsOK, Named, NEW s \in Starters, Arms(s)
  PROVE  /\ GuardsOK' /\ Named'
         /\ \A r \in Ranks : Guards(r)' \subseteq Guards(r) \/ pc[s] = GuardPc(r)
<1>1. CASE UNCHANGED guards
  BY <1>1 DEF guards, GuardsOK, Named, Guards
<1>2. CASE \E r \in Ranks, ok \in BOOLEAN : StopGuard(r, ok)
  <2>1. PICK r \in Ranks, ok \in BOOLEAN : StopGuard(r, ok)
    BY <1>2
  <2>2. GuardsOK' /\ Named' /\ Fewer
    BY <2>1, StopGuardIs
  <2> QED BY <2>2 DEF Fewer
<1>3. CASE \E r \in Ranks, ok \in BOOLEAN : pc[s] = GuardPc(r) /\ StartGuard(r, ok)
  <2>1. PICK r \in Ranks, ok \in BOOLEAN : pc[s] = GuardPc(r) /\ StartGuard(r, ok)
    BY <1>3
  <2>2. GuardsOK' /\ Named' /\ \A q \in Ranks \ {r} : Guards(q)' = Guards(q)
    BY <2>1, StartGuardIs
  <2> QED BY <2>1, <2>2
<1> QED BY <1>1, <1>2, <1>3 DEF Arms

\* A loop of a guard, a finished docker stop and a reused PID start no guard.
LEMMA GuardLoopIs ==
  ASSUME GuardsOK, Named, cont \in [Ranks -> Ids \cup {None}],
         \/ \E r \in Ranks, p \in Pids : GuardStep(r, p) \/ ReusePid(r, p)
         \/ \E r \in Ranks : DockerStopDone(r)
  PROVE  GuardsOK' /\ Named' /\ Fewer
<1>1. CASE \E r \in Ranks, p \in Pids : GuardStep(r, p) \/ ReusePid(r, p)
  <2>1. PICK r \in Ranks, p \in Pids : GuardStep(r, p) \/ ReusePid(r, p)
    BY <1>1
  <2>2. pidFile' = pidFile
    BY <2>1 DEF GuardStep, GuardHealthy, GuardUnhealthy, GuardTrip, GuardSleep, GuardTimeout,
                GuardUnchanged, ReusePid
  <2>3. PICK g \in {"free", "other"} \cup GuardStates :
          proc' = [proc EXCEPT ![r][p] = g] /\ (g \in GuardStates => proc[r][p] \in GuardStates)
    BY <2>1 DEF GuardStep, GuardHealthy, GuardUnhealthy, GuardTrip, GuardSleep, GuardTimeout,
                ReusePid, Becomes, GuardStates
  <2>4. stops' \in [Ranks -> SUBSET Ids]
    <3>1. CASE stops' = stops
      BY <3>1 DEF GuardsOK
    <3>2. CASE GuardTrip(r, p)
      <4>1. cont[r] \in Ids /\ stops' = [stops EXCEPT ![r] = @ \cup {cont[r]}]
        BY <3>2 DEF GuardTrip
      <4> QED BY <4>1 DEF GuardsOK
    <3> QED BY <2>1, <3>1, <3>2 DEF GuardStep, GuardHealthy, GuardUnhealthy, GuardSleep, GuardTimeout, ReusePid
  <2>5. GuardsOK'
    BY <2>2, <2>3, <2>4 DEF GuardsOK
  <2>6. \A q \in Ranks, x \in Pids : proc'[q][x] \in GuardStates => proc[q][x] \in GuardStates
    BY <2>3 DEF GuardsOK
  <2> QED BY <2>2, <2>5, <2>6 DEF Named, Fewer, Guards
<1>2. CASE \E r \in Ranks : DockerStopDone(r)
  <2>1. PICK r \in Ranks, c \in Ids :
          /\ stops' = [stops EXCEPT ![r] = @ \ {c}] /\ pidFile' = pidFile
          /\ proc' = [proc EXCEPT ![r] = [p \in Pids |->
                        IF proc[r][p] = "tripped" THEN "free" ELSE proc[r][p]]]
    <3>1. PICK r \in Ranks : DockerStopDone(r)
      BY <1>2
    <3>2. stops[r] \subseteq Ids
      BY DEF GuardsOK
    <3> QED BY <3>1, <3>2 DEF DockerStopDone
  <2>2. GuardsOK'
    BY <2>1 DEF GuardsOK
  <2>3. \A q \in Ranks, x \in Pids : proc'[q][x] \in GuardStates => proc[q][x] \in GuardStates
    BY <2>1 DEF GuardsOK, GuardStates
  <2> QED BY <2>1, <2>2, <2>3 DEF Named, Fewer, Guards
<1> QED BY <1>1, <1>2

----------------------------------------------------------------------------
(* What every step does to the containers, the guards and the scripts      *)

\* No container is created.
Drops == \A r \in Ranks : cont'[r] \in {cont[r], None}

ContOK == cont \in [Ranks -> Ids \cup {None}] /\ api \in BOOLEAN

LEMMA ReplaceTyped ==
  ASSUME ContOK, NEW r \in Ranks, NEW c \in Ids \cup {None}, Replace(r, c)
  PROVE  ContOK' /\ (c = None => Drops)
BY DEF ContOK, Replace, Drops

LEMMA StopScriptIs ==
  ASSUME TypeOK, Named, StopBegin \/ StopStep
  PROVE  /\ UNCHANGED <<pc, elapsed, botched, env, link, interrupts>>
         /\ Drops /\ ContOK' /\ GuardsOK' /\ Named' /\ Fewer
         /\ faults' = faults \/ DockerError
         /\ stop' \in [pc : StopPcs, result : 0..1, alone : BOOLEAN]
<1> USE DEF Ranks
<1>1. ContOK /\ GuardsOK
  BY TypedGuards DEF TypeOK, ContOK
<1>2. UNCHANGED <<pc, elapsed, botched, env, link, interrupts>>
  BY DEF StopBegin, StopStep, StopHead, StopWorker, StopRank, StopGuardHead, SshTest,
         StopGuardWorker, StopUnchanged
<1>3. faults' = faults \/ DockerError
  BY DEF StopBegin, StopStep, StopHead, StopWorker, StopRank, StopGuardHead, SshTest, StopGuardWorker
<1>4. Drops /\ ContOK'
  <2>1. NoContainerChange \/ \E r \in Ranks : Replace(r, None)
    BY DEF StopBegin, StopStep, StopHead, StopWorker, StopRank, StopGuardHead, SshTest, StopGuardWorker
  <2>2. CASE NoContainerChange
    BY <1>1, <2>2 DEF NoContainerChange, ContOK, Drops
  <2>3. CASE \E r \in Ranks : Replace(r, None)
    BY <1>1, <2>3, ReplaceTyped
  <2> QED BY <2>1, <2>2, <2>3
<1>5. GuardsOK' /\ Named' /\ Fewer
  <2>1. UNCHANGED guards \/ \E r \in Ranks, ok \in BOOLEAN : StopGuard(r, ok)
    BY DEF StopBegin, StopStep, StopHead, StopWorker, StopRank, StopGuardHead, SshTest, StopGuardWorker
  <2>2. CASE UNCHANGED guards
    BY <1>1, <2>2 DEF guards, GuardsOK, Named, Fewer, Guards
  <2>3. CASE \E r \in Ranks, ok \in BOOLEAN : StopGuard(r, ok)
    BY <1>1, <2>3, StopGuardIs
  <2> QED BY <2>1, <2>2, <2>3
<1>6. stop' \in [pc : StopPcs, result : 0..1, alone : BOOLEAN]
  <2>0. stop \in [pc : StopPcs, result : 0..1, alone : BOOLEAN]
    BY DEF TypeOK
  <2>1. CASE StopBegin
    BY <2>1 DEF StopBegin, Quiet, StopPcs
  <2>2. CASE StopStep
    <3>1. PICK p \in StopPcs, failed \in BOOLEAN : StopGoto(p, failed)
      BY <2>2 DEF StopStep, StopHead, StopWorker, StopRank, StopGuardHead, SshTest, StopGuardWorker, StopPcs
    <3> DEFINE res == IF failed THEN 1 ELSE stop.result
    <3>2. res \in 0..1
      BY <2>0
    <3>3. stop' = [stop EXCEPT !.pc = p, !.result = res]
      BY <3>1 DEF StopGoto
    <3> HIDE DEF res
    <3> QED BY <2>0, <3>2, <3>3
  <2> QED BY <2>1, <2>2
<1> QED BY <1>2, <1>3, <1>4, <1>5, <1>6

LEMMA WorldIs ==
  ASSUME TypeOK, Named,
         \/ \E r \in Ranks, p \in Pids : GuardStep(r, p) \/ ReusePid(r, p)
         \/ \E r \in Ranks : DockerStopDone(r) \/ Crash(r)
         \/ Load \/ LinkDown \/ LinkUp
  PROVE  /\ UNCHANGED <<pc, elapsed, botched, env, stop, interrupts>>
         /\ Drops /\ ContOK' /\ GuardsOK' /\ Named' /\ Fewer
         /\ faults' = faults \/ DockerError
         /\ link' \in BOOLEAN
<1>1. ContOK /\ GuardsOK /\ link \in BOOLEAN
  BY TypedGuards DEF TypeOK, ContOK
<1>2. CASE \E r \in Ranks, p \in Pids : GuardStep(r, p) \/ ReusePid(r, p)
  <2>1. GuardsOK' /\ Named' /\ Fewer
    BY <1>1, <1>2, GuardLoopIs DEF ContOK
  <2>2. /\ UNCHANGED <<pc, elapsed, botched, env, stop, interrupts, cont, api, link>>
        /\ faults' = faults \/ DockerError
    BY <1>2 DEF GuardStep, GuardHealthy, GuardUnhealthy, GuardTrip, GuardSleep, GuardTimeout,
                GuardUnchanged, ReusePid, scripts, bounds
  <2> QED BY <1>1, <2>1, <2>2 DEF ContOK, Drops
<1>3. CASE \E r \in Ranks : DockerStopDone(r)
  <2>1. GuardsOK' /\ Named' /\ Fewer
    BY <1>1, <1>3, GuardLoopIs DEF ContOK
  <2>2. PICK r \in Ranks : DockerStopDone(r)
    BY <1>3
  <2>3. UNCHANGED <<pc, elapsed, botched, env, stop, interrupts, faults, link>>
    BY <2>2 DEF DockerStopDone, scripts, bounds
  <2>4. Replace(r, None) \/ NoContainerChange
    BY <2>2 DEF DockerStopDone
  <2>5. Drops /\ ContOK'
    <3>1. CASE Replace(r, None)
      BY <1>1, <3>1, ReplaceTyped
    <3>2. CASE NoContainerChange
      BY <1>1, <3>2 DEF NoContainerChange, ContOK, Drops
    <3> QED BY <2>4, <3>1, <3>2
  <2> QED BY <1>1, <2>1, <2>3, <2>5
<1>4. CASE \E r \in Ranks : Crash(r)
  <2>1. PICK r \in Ranks : Crash(r)
    BY <1>4
  <2>2. Drops /\ ContOK'
    BY <1>1, <2>1, ReplaceTyped DEF Crash
  <2>3. UNCHANGED <<pc, elapsed, botched, env, stop, interrupts, link, guards>> /\ DockerError
    BY <2>1 DEF Crash, scripts
  <2> QED BY <1>1, <2>2, <2>3 DEF guards, GuardsOK, Named, Fewer, Guards
<1>5. CASE Load \/ LinkDown \/ LinkUp
  <2>1. /\ UNCHANGED <<pc, elapsed, botched, env, stop, interrupts, guards, cont>>
        /\ api' \in BOOLEAN /\ link' \in BOOLEAN /\ (faults' = faults \/ DockerError)
    BY <1>1, <1>5 DEF Load, LinkDown, LinkUp, scripts, bounds, ContOK
  <2> QED BY <1>1, <2>1 DEF guards, GuardsOK, Named, Fewer, Guards, ContOK, Drops
<1> QED BY <1>2, <1>3, <1>4, <1>5

LEMMA FaultTyped ==
  ASSUME TypeOK, faults' = faults \/ DockerError
  PROVE  faults' \in 0..MaxFaults
BY BringupAssumption DEF TypeOK, DockerError

LEMMA TypeStep ==
  ASSUME TypeOK, Named, [Next]_vars
  PROVE  TypeOK' /\ Named'
<1>1. ASSUME NEW s \in Starters, Begin(s) PROVE TypeOK' /\ Named'
  <2>1. /\ pc' = [pc EXCEPT ![s] = "preflight"] /\ stop' = [stop EXCEPT !.alone = FALSE]
        /\ UNCHANGED <<elapsed, botched, env, cont, api, link, guards, faults, interrupts>>
    BY <1>1 DEF Begin, Goto, StartUnchanged, NoContainerChange
  <2>2. pc' \in [Starters -> {"idle"} \cup Active \cup Ended]
    BY <2>1 DEF TypeOK, Active, Preparing
  <2>3. stop' \in [pc : StopPcs, result : 0..1, alone : BOOLEAN]
    BY <2>1 DEF TypeOK
  <2> QED BY <2>1, <2>2, <2>3 DEF TypeOK, Named, guards
<1>2. ASSUME NEW s \in Starters, StartStep(s) PROVE TypeOK' /\ Named'
  <2>1. StepEffect(s)
    BY <1>2, StartStepEffect
  <2>2. pc' \in [Starters -> {"idle"} \cup Active \cup Ended]
    <3>1. PICK x : Goto(s, x) /\ x \in Active \cup Ended
      BY <2>1 DEF StepEffect, Walks, Edge
    <3> QED BY <3>1 DEF TypeOK, Goto
  <2>3. elapsed' \in [Starters -> 0..WaitRounds] /\ botched' \in [Starters -> BOOLEAN]
    <3>1. elapsed' \in [Starters -> 0..WaitRounds]
      BY <2>1 DEF StepEffect, TypeOK
    <3>2. botched' \in [Starters -> BOOLEAN]
      BY <2>1 DEF StepEffect, Owns, Botch, TypeOK
    <3> QED BY <3>1, <3>2
  <2>4. ContOK'
    <3>1. ContOK
      BY DEF TypeOK, ContOK
    <3>2. UNCHANGED <<cont, api>> \/ \E r \in Ranks, c \in {s, None} : Replace(r, c)
      BY <2>1 DEF StepEffect, Takes
    <3> QED BY <3>1, <3>2, ReplaceTyped DEF ContOK, Ids
  <2>5. GuardsOK' /\ Named'
    BY <2>1, ArmsIs, TypedGuards DEF StepEffect
  <2>6. faults' \in 0..MaxFaults /\ UNCHANGED <<stop, env, link, interrupts>>
    BY <2>1, FaultTyped DEF StepEffect
  <2> QED BY <2>2, <2>3, <2>4, <2>5, <2>6 DEF TypeOK, ContOK, GuardsOK
<1>3. ASSUME NEW s \in Starters, Interrupt(s) PROVE TypeOK' /\ Named'
  <2>1. /\ pc' = [pc EXCEPT ![s] = "interrupted"] /\ interrupts < MaxInterrupts /\ interrupts' = interrupts + 1
        /\ UNCHANGED <<elapsed, botched, env, stop, cont, api, link, guards, faults>>
    BY <1>3 DEF Interrupt, Goto
  <2>2. pc' \in [Starters -> {"idle"} \cup Active \cup Ended]
    BY <2>1 DEF TypeOK, Ended
  <2>3. interrupts' \in 0..MaxInterrupts
    BY <2>1, BringupAssumption DEF TypeOK
  <2> QED BY <2>1, <2>2, <2>3 DEF TypeOK, Named, guards
<1>4. CASE StopBegin \/ StopStep
  <2>1. /\ UNCHANGED <<pc, elapsed, botched, env, link, interrupts>> /\ ContOK' /\ GuardsOK' /\ Named'
        /\ faults' \in 0..MaxFaults /\ stop' \in [pc : StopPcs, result : 0..1, alone : BOOLEAN]
    BY <1>4, StopScriptIs, FaultTyped
  <2> QED BY <2>1 DEF TypeOK, ContOK, GuardsOK
<1>5. CASE \/ \E r \in Ranks, p \in Pids : GuardStep(r, p) \/ ReusePid(r, p)
           \/ \E r \in Ranks : DockerStopDone(r) \/ Crash(r)
           \/ Load \/ LinkDown \/ LinkUp
  <2>1. /\ UNCHANGED <<pc, elapsed, botched, env, stop, interrupts>> /\ ContOK' /\ GuardsOK' /\ Named'
        /\ faults' \in 0..MaxFaults /\ link' \in BOOLEAN
    BY <1>5, WorldIs, FaultTyped
  <2> QED BY <2>1 DEF TypeOK, ContOK, GuardsOK
<1>6. CASE UNCHANGED vars
  BY <1>6 DEF TypeOK, Named, vars, scripts, guards, bounds
<1> QED BY <1>1, <1>2, <1>3, <1>4, <1>5, <1>6 DEF Next

----------------------------------------------------------------------------
(* The stop script's report                                                *)

\* The fields after a step of the script from p to x.
StopFields(p, x) ==
  stop.pc = p /\ stop'.pc = x /\ stop'.alone = stop.alone

LEMMA StopHeadIs ==
  ASSUME TypeOK, StopHead
  PROVE  StopFields("stopHead", "guardHead") /\ (stop'.result = 0 => Replace(Head, None))
<1>1. stop \in [pc : StopPcs, result : 0..1, alone : BOOLEAN] /\ stop.pc = "stopHead"
  BY DEF TypeOK, StopHead
<1>2. \/ Replace(Head, None) /\ stop' = [stop EXCEPT !.pc = "guardHead", !.result = stop.result]
      \/ stop' = [stop EXCEPT !.pc = "guardHead", !.result = 1]
  BY DEF StopHead, StopRank, StopGoto
<1>3. CASE stop' = [stop EXCEPT !.pc = "guardHead", !.result = stop.result] /\ Replace(Head, None)
  <2>1. StopFields("stopHead", "guardHead") /\ stop'.result = stop.result
    BY <1>1, <1>3 DEF StopFields
  <2> QED BY <1>3, <2>1
<1>4. CASE stop' = [stop EXCEPT !.pc = "guardHead", !.result = 1]
  <2>1. StopFields("stopHead", "guardHead") /\ stop'.result = 1
    BY <1>1, <1>4 DEF StopFields
  <2> QED BY <2>1
<1> QED BY <1>2, <1>3, <1>4

LEMMA StopWorkerIs ==
  ASSUME TypeOK, StopWorker
  PROVE  /\ StopFields("stopWorker", "guardWorker")
         /\ stop'.result = 0 => stop.result = 0 /\ Replace(Worker, None)
<1>1. stop \in [pc : StopPcs, result : 0..1, alone : BOOLEAN] /\ stop.pc = "stopWorker"
  BY DEF TypeOK, StopWorker
<1>2. \/ Replace(Worker, None) /\ stop' = [stop EXCEPT !.pc = "guardWorker", !.result = stop.result]
      \/ stop' = [stop EXCEPT !.pc = "guardWorker", !.result = 1]
  BY DEF StopWorker, StopRank, StopGoto
<1>3. CASE stop' = [stop EXCEPT !.pc = "guardWorker", !.result = stop.result] /\ Replace(Worker, None)
  <2>1. StopFields("stopWorker", "guardWorker") /\ stop'.result = stop.result
    BY <1>1, <1>3 DEF StopFields
  <2> QED BY <1>3, <2>1
<1>4. CASE stop' = [stop EXCEPT !.pc = "guardWorker", !.result = 1]
  <2>1. StopFields("stopWorker", "guardWorker") /\ stop'.result = 1
    BY <1>1, <1>4 DEF StopFields
  <2> QED BY <2>1
<1> QED BY <1>2, <1>3, <1>4

LEMMA StopGuardHeadIs ==
  ASSUME TypeOK, StopGuardHead
  PROVE  StopFields("guardHead", "sshTest") /\ stop'.result = stop.result
<1>1. stop \in [pc : StopPcs, result : 0..1, alone : BOOLEAN] /\ stop.pc = "guardHead"
  BY DEF TypeOK, StopGuardHead
<1>2. stop' = [stop EXCEPT !.pc = "sshTest", !.result = stop.result]
  BY DEF StopGuardHead, StopGoto
<1> QED BY <1>1, <1>2 DEF StopFields

LEMMA SshTestIs ==
  ASSUME TypeOK, SshTest
  PROVE  \/ StopFields("sshTest", "stopWorker") /\ stop'.result = stop.result
         \/ StopFields("sshTest", "stopFailed") /\ stop'.result = 1
<1>1. stop \in [pc : StopPcs, result : 0..1, alone : BOOLEAN] /\ stop.pc = "sshTest"
  BY DEF TypeOK, SshTest
<1>2. \/ stop' = [stop EXCEPT !.pc = "stopWorker", !.result = stop.result]
      \/ stop' = [stop EXCEPT !.pc = "stopFailed", !.result = 1]
  BY DEF SshTest, StopGoto
<1> QED BY <1>1, <1>2 DEF StopFields

LEMMA StopGuardWorkerIs ==
  ASSUME TypeOK, StopGuardWorker
  PROVE  /\ StopFields("guardWorker", IF stop.result = 0 THEN "reported" ELSE "stopFailed")
         /\ stop'.result = stop.result
<1>1. stop \in [pc : StopPcs, result : 0..1, alone : BOOLEAN] /\ stop.pc = "guardWorker"
  BY DEF TypeOK, StopGuardWorker
<1> DEFINE x == IF stop.result = 0 THEN "reported" ELSE "stopFailed"
<1>2. stop' = [stop EXCEPT !.pc = x, !.result = stop.result]
  BY DEF StopGuardWorker, StopGoto
<1> HIDE DEF x
<1>3. StopFields("guardWorker", x) /\ stop'.result = stop.result
  BY <1>1, <1>2 DEF StopFields
<1> QED BY <1>3 DEF x

LEMMA StopSoundStep ==
  ASSUME TypeOK, Named, StopSound, [Next]_vars
  PROVE  StopSound'
<1>1. ASSUME NEW s \in Starters, Begin(s) PROVE StopSound'
  <2>1. stop'.alone = FALSE
    BY <1>1 DEF Begin, TypeOK
  <2> QED BY <2>1 DEF StopSound
<1>2. ASSUME NEW s \in Starters, StartStep(s) \/ Interrupt(s) PROVE StopSound'
  <2>1. stop' = stop /\ pc[s] \in Active
    BY <1>2, StartStepEffect DEF StepEffect, Walks, Edge, Interrupt
  <2>2. ~stop.alone
    BY <2>1 DEF StopSound, Quiet
  <2> QED BY <2>1, <2>2 DEF StopSound
<1>3. CASE StopBegin
  <2>1. stop'.pc = "stopHead" /\ stop'.alone = Quiet /\ pc' = pc
    BY <1>3 DEF StopBegin, StopUnchanged
  <2> QED BY <2>1 DEF StopSound, Quiet
<1>4. CASE StopStep
  <2> SUFFICES ASSUME stop'.alone PROVE StopSound'
    BY DEF StopSound
  <2>1. pc' = pc /\ Drops /\ stop \in [pc : StopPcs, result : 0..1, alone : BOOLEAN]
    BY <1>4, StopScriptIs DEF TypeOK
  <2> USE DEF StopFields
  <2>2. stop'.alone = stop.alone
    BY <1>4, StopHeadIs, StopGuardHeadIs, SshTestIs, StopWorkerIs, StopGuardWorkerIs DEF StopStep
  <2>3. Quiet' /\ \A r \in Ranks : cont[r] = None => cont'[r] = None
    BY <2>1, <2>2 DEF StopSound, Quiet, Drops
  <2>4. CASE StopHead
    <3>1. stop'.result = 0 => cont'[Head] = None
      BY <2>4, StopHeadIs, ReplaceIs DEF Ranks
    <3> QED BY <2>3, <2>4, <3>1, StopHeadIs DEF StopSound
  <2>5. CASE StopGuardHead \/ SshTest
    <3>1. /\ stop.pc \in {"guardHead", "sshTest"} /\ stop'.pc \in {"sshTest", "stopWorker", "stopFailed"}
          /\ stop'.result = 0 => stop.result = 0
      <4>1. CASE StopGuardHead
        BY <4>1, StopGuardHeadIs
      <4>2. CASE SshTest
        <5>1. CASE StopFields("sshTest", "stopWorker") /\ stop'.result = stop.result
          BY <5>1
        <5>2. CASE StopFields("sshTest", "stopFailed") /\ stop'.result = 1
          BY <5>2
        <5> QED BY <4>2, <5>1, <5>2, SshTestIs
      <4> QED BY <2>5, <4>1, <4>2
    <3> QED BY <2>2, <2>3, <3>1 DEF StopSound, Ranks
  <2>6. CASE StopWorker
    <3>1. stop'.result = 0 => stop.result = 0 /\ cont'[Worker] = None
      BY <2>6, StopWorkerIs, ReplaceIs DEF Ranks
    <3> QED BY <2>2, <2>3, <2>6, <3>1, StopWorkerIs DEF StopSound, Ranks
  <2>7. CASE StopGuardWorker
    <3>1. /\ stop.pc = "guardWorker" /\ stop'.pc \in {"reported", "stopFailed"}
          /\ stop'.result = stop.result
      BY <2>7, StopGuardWorkerIs
    <3> QED BY <2>2, <2>3, <3>1 DEF StopSound, Ranks
  <2> QED BY <1>4, <2>4, <2>5, <2>6, <2>7 DEF StopStep
<1>5. CASE \/ \E r \in Ranks, p \in Pids : GuardStep(r, p) \/ ReusePid(r, p)
           \/ \E r \in Ranks : DockerStopDone(r) \/ Crash(r)
           \/ Load \/ LinkDown \/ LinkUp
  <2>1. UNCHANGED <<pc, stop>> /\ Drops
    BY <1>5, WorldIs
  <2> QED BY <2>1 DEF StopSound, Quiet, Drops, Ranks
<1>6. CASE UNCHANGED vars
  BY <1>6 DEF StopSound, Quiet, vars, scripts
<1> QED BY <1>1, <1>2, <1>3, <1>4, <1>5, <1>6 DEF Next

\* What is reported is so when it is reported.
LEMMA ReportIs ==
  ASSUME TypeOK, Named, StopSound, [Next]_vars,
         stop.pc # "reported", stop'.pc = "reported", stop'.alone
  PROVE  \A r \in Ranks : cont'[r] = None
<1>1. StopGuardWorker
  <2>1. ASSUME NEW s \in Starters PROVE ~Begin(s) /\ ~StartStep(s) /\ ~Interrupt(s)
    <3>1. ~Begin(s)
      BY DEF Begin, TypeOK
    <3>2. ~StartStep(s)
      BY StartStepEffect DEF StepEffect
    <3>3. ~Interrupt(s)
      BY DEF Interrupt
    <3> QED BY <3>1, <3>2, <3>3
  <2>2. stop' # stop
    OBVIOUS
  <2>3. StopBegin \/ StopStep
    BY <2>1, <2>2, WorldIs DEF Next, vars, scripts
  <2>4. ~StopBegin
    BY DEF StopBegin
  <2>5. ~StopHead /\ ~StopWorker /\ ~StopGuardHead /\ ~SshTest
    BY StopHeadIs, StopWorkerIs, StopGuardHeadIs, SshTestIs DEF StopFields
  <2> QED BY <2>3, <2>4, <2>5 DEF StopStep
<1>2. stop'.result = 0
  BY <1>1, StopGuardWorkerIs DEF StopFields
<1>3. StopSound'
  BY StopSoundStep
<1> QED BY <1>2, <1>3 DEF StopSound, Ranks

----------------------------------------------------------------------------
(* One start at a time                                                     *)

\* A script does what stands on its line.
LEMMA LineIs ==
  ASSUME NEW s \in Starters, StartStep(s)
  PROVE  /\ pc[s] = "checkHead" => CheckHead(s)
         /\ pc[s] = "disarmHead" => DisarmHead(s)
         /\ pc[s] = "disarmWorker" => DisarmWorker(s)
         /\ pc[s] = "smoke" => Smoke(s)
         /\ pc[s] = "cleanHead" => CleanHead(s)
         /\ pc[s] = "cleanWorker" => CleanWorker(s)
         /\ pc[s] = "cleanGuardHead" => CleanGuardHead(s)
         /\ pc[s] = "cleanGuardWorker" => CleanGuardWorker(s)
<1>1. /\ Preflight(s) => pc[s] = "preflight"
      /\ CheckHead(s) => pc[s] = "checkHead"
      /\ CheckWorker(s) => pc[s] = "checkWorker"
  BY DEF Preflight, CheckHead, CheckWorker
<1>2. /\ UpWorker(s) => pc[s] = "upWorker"
      /\ GuardWorker(s) => pc[s] = "guardWorker"
      /\ VerifyWorker(s) => pc[s] = "verifyWorker"
      /\ UpHead(s) => pc[s] = "upHead"
      /\ GuardHead(s) => pc[s] = "guardHead"
  BY DEF UpWorker, GuardWorker, VerifyWorker, UpHead, GuardHead
<1>3. /\ WaitHead(s) => pc[s] = "waitHead"
      /\ WaitWorker(s) => pc[s] = "waitWorker"
      /\ Probe(s) => pc[s] = "probe"
      /\ DisarmHead(s) => pc[s] = "disarmHead"
      /\ DisarmWorker(s) => pc[s] = "disarmWorker"
      /\ Smoke(s) => pc[s] = "smoke"
  BY DEF WaitHead, WaitWorker, Probe, DisarmHead, DisarmWorker, Smoke
<1>4. /\ CleanHead(s) => pc[s] = "cleanHead"
      /\ CleanWorker(s) => pc[s] = "cleanWorker"
      /\ CleanGuardHead(s) => pc[s] = "cleanGuardHead"
      /\ CleanGuardWorker(s) => pc[s] = "cleanGuardWorker"
  BY DEF CleanHead, CleanWorker, CleanGuardHead, CleanGuardWorker
<1> QED BY <1>1, <1>2, <1>3, <1>4 DEF StartStep

\* A step of a start leaves the lines of the others, and while starts do not
\* overlap the others are not active.
LEMMA OthersRest ==
  ASSUME TypeOK, OneStart, NEW s \in Starters, StepEffect(s) \/ Interrupt(s)
  PROVE  /\ pc[s] \in Active
         /\ \A t \in Starters \ {s} : pc'[t] = pc[t] /\ pc[t] \notin Active
<1>1. pc[s] \in Active /\ \E x : Goto(s, x)
  BY DEF StepEffect, Walks, Edge, Interrupt
<1>2. \A t \in Starters \ {s} : pc'[t] = pc[t]
  BY <1>1 DEF Goto, TypeOK
<1> QED BY <1>1, <1>2 DEF OneStart

LEMMA WalkIs ==
  ASSUME TypeOK, NEW s \in Starters, StepEffect(s)
  PROVE  Edge(pc[s], pc'[s])
<1>1. PICK x : Goto(s, x) /\ Edge(pc[s], x)
  BY DEF StepEffect, Walks
<1>2. pc'[s] = x
  BY <1>1 DEF Goto, TypeOK
<1> QED BY <1>1, <1>2

LEMMA BotchedStays ==
  ASSUME TypeOK, NEW s \in Starters, StepEffect(s), ~botched'[s]
  PROVE  ~botched[s]
<1>1. botched' = botched \/ \E b \in BOOLEAN : botched' = [botched EXCEPT ![s] = botched[s] \/ b]
  BY DEF StepEffect, Owns, Botch
<1> QED BY <1>1 DEF TypeOK

\* The lines the invariant speaks of belong to an active script.
LEMMA LinesActive ==
  /\ {"checkWorker"} \cup Raising \cup Cleaning \subseteq Active
  /\ {"disarmWorker", "smoke", "cleanWorker", "cleanGuardHead", "cleanGuardWorker"} \subseteq Active
BY DEF Active, Preparing, Raising, Cleaning

\* The parts that only speak of active scripts, when none but s is active.
LEMMA OnlyMine ==
  ASSUME NEW s \in Starters,
         \A t \in Starters \ {s} : pc'[t] \notin Active,
         pc'[s] \in {"checkWorker"} \cup Raising \cup Cleaning => cont'[Head] \in {None, s},
         pc'[s] \in {"disarmWorker", "smoke"} => Guards(Head)' = {},
         pc'[s] = "smoke" => Guards(Worker)' = {},
         ~botched'[s] =>
           /\ pc'[s] \in {"cleanWorker", "cleanGuardHead", "cleanGuardWorker"} => cont'[Head] # s
           /\ pc'[s] \in {"cleanGuardHead", "cleanGuardWorker"} => cont'[Worker] # s
           /\ pc'[s] = "cleanGuardWorker" => Guards(Head)' = {}
  PROVE  Alone'
<1>1. OneStart'
  BY DEF OneStart
<1>2. HeadIsMine'
  BY LinesActive DEF HeadIsMine
<1>3. Disarmed'
  BY LinesActive DEF Disarmed
<1>4. Cleaned'
  BY LinesActive DEF Cleaned
<1> QED BY <1>1, <1>2, <1>3, <1>4 DEF Alone

\* Nobody active: nothing to show of a script that is not at such a line.
LEMMA AtRest ==
  ASSUME NEW s \in Starters,
         \A t \in Starters \ {s} : pc'[t] \notin Active,
         pc'[s] \in {"preflight"} \cup Ended
  PROVE  Alone'
<1>1. pc'[s] \notin {"checkWorker"} \cup Raising \cup Cleaning
  BY DEF Raising, Cleaning, Ended
<1>2. pc'[s] \notin {"disarmWorker", "smoke", "cleanWorker", "cleanGuardHead", "cleanGuardWorker"}
  BY DEF Ended
<1> QED BY <1>1, <1>2, OnlyMine

\* What the others do to a start: containers and guards only go away.
LEMMA AloneKept ==
  ASSUME TypeOK, Alone, UNCHANGED <<pc, botched>>, Drops, Fewer
  PROVE  Alone'
<1>1. OneStart'
  BY DEF Alone, OneStart
<1>2. HeadIsMine'
  BY DEF Alone, HeadIsMine, Drops, Ranks
<1>3. Disarmed'
  BY DEF Alone, Disarmed, Fewer, Ranks
<1>4. Cleaned'
  <2>1. \A s \in Starters : None # s
    BY BringupAssumption
  <2>2. Cleaned /\ pc' = pc /\ botched' = botched /\ Guards(Head)' \subseteq Guards(Head)
    BY DEF Alone, Fewer, Ranks
  <2>3. \A s \in Starters : /\ cont[Head] # s => cont'[Head] # s
                            /\ cont[Worker] # s => cont'[Worker] # s
    BY <2>1 DEF Drops, Ranks
  <2> QED BY <2>2, <2>3 DEF Cleaned
<1> QED BY <1>1, <1>2, <1>3, <1>4 DEF Alone

\* The disarming steps.
LEMMA DisarmIs ==
  ASSUME TypeOK, Named, NEW s \in Starters
  PROVE  /\ DisarmHead(s) /\ pc'[s] = "disarmWorker" => Guards(Head)' = {}
         /\ DisarmWorker(s) /\ pc'[s] = "smoke" => Guards(Worker)' = {} /\ Fewer
<1>1. GuardsOK /\ pc \in [Starters -> {"idle"} \cup Active \cup Ended]
  BY TypedGuards DEF TypeOK
<1>2. ASSUME DisarmHead(s), pc'[s] = "disarmWorker" PROVE Guards(Head)' = {}
  <2>1. Fail(s) => pc'[s] # "disarmWorker"
    BY <1>1 DEF Fail, Goto
  <2>2. \E ok \in BOOLEAN : StopGuard(Head, ok) /\ ok
    BY <1>2, <2>1 DEF DisarmHead, Disarm
  <2> QED BY <1>1, <2>2, StopGuardIs DEF Ranks
<1>3. ASSUME DisarmWorker(s), pc'[s] = "smoke" PROVE Guards(Worker)' = {} /\ Fewer
  <2>1. Fail(s) => pc'[s] # "smoke"
    BY <1>1 DEF Fail, Goto
  <2>2. \E ok \in BOOLEAN : StopGuard(Worker, ok) /\ ok
    BY <1>3, <2>1 DEF DisarmWorker, Disarm
  <2> QED BY <1>1, <2>2, StopGuardIs DEF Ranks
<1> QED BY <1>2, <1>3

\* The cleanup steps, when their command works.
LEMMA CleanIs ==
  ASSUME TypeOK, Named, NEW s \in Starters, ~botched'[s]
  PROVE  /\ CleanHead(s) => cont'[Head] = None
         /\ CleanWorker(s) => cont'[Worker] = None /\ cont'[Head] = cont[Head]
         /\ CleanGuardHead(s) => cont' = cont /\ Guards(Head)' = {}
         /\ CleanGuardWorker(s) => cont' = cont /\ Guards(Worker)' = {} /\ Fewer
<1>1. GuardsOK
  BY TypedGuards
<1>2. ASSUME NEW b \in BOOLEAN, Botch(s, b) PROVE ~b
  <2>1. botched'[s] = (botched[s] \/ b)
    BY <1>2 DEF Botch, TypeOK
  <2> QED BY <2>1
<1>3. ASSUME NEW r \in Ranks, NEW reachable \in BOOLEAN, NEW next, CleanRank(s, r, reachable, next)
      PROVE  Replace(r, None)
  <2>1. ~Botch(s, TRUE)
    BY <1>2
  <2> QED BY <1>3, <2>1 DEF CleanRank
<1>4. ASSUME NEW r \in Ranks, NEW reachable \in BOOLEAN, NEW next, CleanGuard(s, r, reachable, next)
      PROVE  cont' = cont /\ \E ok \in BOOLEAN : StopGuard(r, ok) /\ ok
  <2>1. ~Botch(s, TRUE)
    BY <1>2
  <2>2. \A ok \in BOOLEAN : Botch(s, ~ok) => ok
    BY <1>2
  <2> QED BY <1>4, <2>1, <2>2 DEF CleanGuard, NoContainerChange
<1>5. CleanHead(s) => Replace(Head, None)
  BY <1>3 DEF CleanHead, Ranks
<1>6. CleanWorker(s) => Replace(Worker, None)
  BY <1>3 DEF CleanWorker, Ranks, TypeOK
<1>7. CleanGuardHead(s) => cont' = cont /\ \E ok \in BOOLEAN : StopGuard(Head, ok) /\ ok
  BY <1>4 DEF CleanGuardHead, Ranks
<1>8. CleanGuardWorker(s) => cont' = cont /\ \E ok \in BOOLEAN : StopGuard(Worker, ok) /\ ok
  BY <1>4 DEF CleanGuardWorker, Ranks, TypeOK
<1>9. CleanHead(s) => cont'[Head] = None
  BY <1>5, ReplaceIs DEF Ranks
<1>10. CleanWorker(s) => cont'[Worker] = None /\ cont'[Head] = cont[Head]
  BY <1>6, ReplaceIs DEF Ranks, Head, Worker
<1>11. CleanGuardHead(s) => Guards(Head)' = {}
  BY <1>1, <1>7, StopGuardIs DEF Ranks
<1>12. CleanGuardWorker(s) => Guards(Worker)' = {} /\ Fewer
  BY <1>1, <1>8, StopGuardIs DEF Ranks
<1> QED BY <1>7, <1>8, <1>9, <1>10, <1>11, <1>12

LEMMA AloneStep ==
  ASSUME TypeOK, Named, ~Overlap, Alone, [Next]_vars
  PROVE  Alone'
<1>1. ASSUME NEW s \in Starters, Begin(s) PROVE Alone'
  <2>1. Quiet /\ pc' = [pc EXCEPT ![s] = "preflight"]
    BY <1>1 DEF Begin, Goto
  <2>2. pc'[s] = "preflight" /\ \A t \in Starters \ {s} : pc'[t] \notin Active
    BY <2>1 DEF Quiet, TypeOK
  <2> QED BY <2>2, AtRest
<1>2. ASSUME NEW s \in Starters, StartStep(s) PROVE Alone'
  <2>1. StepEffect(s) /\ Edge(pc[s], pc'[s])
    BY <1>2, StartStepEffect, WalkIs
  <2>2. \A t \in Starters \ {s} : pc'[t] \notin Active
    BY <2>1, OthersRest DEF Alone
  <2>3. pc'[s] \in {"checkWorker"} \cup Raising \cup Cleaning => cont'[Head] \in {None, s}
    <3>1. CASE pc'[s] = "checkWorker"
      <4>1. CheckHead(s)
        BY <1>2, <2>1, <3>1, LineIs DEF Edge
      <4>2. Fail(s) => pc'[s] # "checkWorker"
        BY DEF Fail, Goto, TypeOK
      <4> QED BY <3>1, <4>1, <4>2 DEF CheckHead, NoContainerChange
    <3>2. CASE pc'[s] \in Raising \cup Cleaning
      <4>1. pc[s] \in {"checkWorker"} \cup Raising \cup Cleaning
        BY <2>1, <3>2 DEF Edge
      <4>2. cont[Head] \in {None, s}
        BY <4>1 DEF Alone, HeadIsMine
      <4>3. cont'[Head] \in {cont[Head], None, s}
        BY <2>1 DEF StepEffect, Takes, Ranks
      <4> QED BY <4>2, <4>3
    <3> QED BY <3>1, <3>2
  <2>4. /\ pc'[s] \in {"disarmWorker", "smoke"} => Guards(Head)' = {}
        /\ pc'[s] = "smoke" => Guards(Worker)' = {}
    <3>1. pc'[s] = "disarmWorker" => DisarmHead(s)
      BY <1>2, <2>1, LineIs DEF Edge
    <3>2. pc'[s] = "smoke" => DisarmWorker(s) /\ Guards(Head) = {}
      BY <1>2, <2>1, LineIs DEF Edge, Alone, Disarmed
    <3>3. Fewer => Guards(Head)' \subseteq Guards(Head)
      BY DEF Fewer, Ranks
    <3> QED BY <3>1, <3>2, <3>3, DisarmIs
  <2>5. ASSUME ~botched'[s]
        PROVE  /\ pc'[s] \in {"cleanWorker", "cleanGuardHead", "cleanGuardWorker"} => cont'[Head] # s
               /\ pc'[s] \in {"cleanGuardHead", "cleanGuardWorker"} => cont'[Worker] # s
               /\ pc'[s] = "cleanGuardWorker" => Guards(Head)' = {}
    <3>1. None # s /\ ~botched[s]
      BY <2>1, <2>5, BotchedStays, BringupAssumption
    <3>2. pc'[s] = "cleanWorker" => CleanHead(s)
      BY <1>2, <2>1, LineIs DEF Edge
    <3>3. pc'[s] = "cleanGuardHead" => CleanWorker(s) /\ cont[Head] # s
      BY <1>2, <2>1, <3>1, LineIs DEF Edge, Alone, Cleaned
    <3>4. pc'[s] = "cleanGuardWorker" => CleanGuardHead(s) /\ cont[Head] # s /\ cont[Worker] # s
      BY <1>2, <2>1, <3>1, LineIs DEF Edge, Alone, Cleaned
    <3> QED BY <2>5, <3>1, <3>2, <3>3, <3>4, CleanIs
  <2> QED BY <2>2, <2>3, <2>4, <2>5, OnlyMine
<1>3. ASSUME NEW s \in Starters, Interrupt(s) PROVE Alone'
  <2>1. \A t \in Starters \ {s} : pc'[t] \notin Active
    BY <1>3, OthersRest DEF Alone
  <2>2. pc'[s] \in Ended
    BY <1>3 DEF Interrupt, Goto, Ended, TypeOK
  <2> QED BY <2>1, <2>2, AtRest
<1>4. CASE StopBegin \/ StopStep
  BY <1>4, StopScriptIs, AloneKept
<1>5. CASE \/ \E r \in Ranks, p \in Pids : GuardStep(r, p) \/ ReusePid(r, p)
           \/ \E r \in Ranks : DockerStopDone(r) \/ Crash(r)
           \/ Load \/ LinkDown \/ LinkUp
  BY <1>5, WorldIs, AloneKept
<1>6. CASE UNCHANGED vars
  BY <1>6, AloneKept DEF vars, scripts, guards, Drops, Fewer, Guards
<1> QED BY <1>1, <1>2, <1>3, <1>4, <1>5, <1>6 DEF Next

----------------------------------------------------------------------------
(* The invariant is inductive                                              *)

LEMMA InitHolds == Init => IInv
<1> SUFFICES ASSUME Init PROVE IInv
  OBVIOUS
<1>1. pc = [s \in Starters |-> "idle"] /\ \A s \in Starters : pc[s] \notin Active
  BY DEF Init, Active, Preparing, Raising, Cleaning
<1>2. /\ env \in [oomGuard : BOOLEAN, smoke : BOOLEAN]
      /\ stop \in [pc : StopPcs, result : 0..1, alone : BOOLEAN]
      /\ faults \in 0..MaxFaults /\ interrupts \in 0..MaxInterrupts
  BY BringupAssumption DEF Init, StopPcs
<1>3. /\ cont \in [Ranks -> Ids \cup {None}] /\ api \in BOOLEAN /\ link \in BOOLEAN
      /\ proc \in [Ranks -> [Pids -> {"free", "other"}]]
      /\ pidFile \in [Ranks -> Pids \cup {None, Invalid}]
      /\ stops \in [Ranks -> SUBSET Ids]
  BY DEF Init, Ids
<1>4. pc \in [Starters -> {"idle"} \cup Active \cup Ended]
  BY <1>1
<1>5. elapsed \in [Starters -> 0..WaitRounds] /\ botched \in [Starters -> BOOLEAN]
  BY BringupAssumption DEF Init
<1>6. proc \in [Ranks -> [Pids -> {"free", "other"} \cup GuardStates]]
  BY <1>3
<1>7. TypeOK
  BY <1>2, <1>3, <1>4, <1>5, <1>6 DEF TypeOK
<1>8. Named
  BY <1>3 DEF Named, GuardStates
<1>9. StopSound
  BY DEF Init, StopSound
<1>10. Alone
  BY <1>1, LinesActive DEF Alone, OneStart, HeadIsMine, Disarmed, Cleaned
<1> QED BY <1>7, <1>8, <1>9, <1>10 DEF IInv

LEMMA Inductive == IInv /\ [Next]_vars => IInv'
BY TypeStep, StopSoundStep, AloneStep DEF IInv

LEMMA Invariance == Spec => []IInv
BY InitHolds, Inductive, PTL DEF Spec

----------------------------------------------------------------------------
(* Theorems                                                                *)

\* Every variable has its type, whatever starts, stops, guards and faults do.
THEOREM TypeCorrect == Spec => []TypeOK
<1>1. IInv => TypeOK
  BY DEF IInv
<1> QED BY <1>1, Invariance, PTL

\* "Both ranks stopped" is printed only when nothing runs, unless a start was
\* active since the stop began (stop-glm53.sh); starts may overlap.
THEOREM TheReportIsTrue == Spec => StopReportIsTrue
<1>1. IInv /\ [Next]_vars
        => [stop.pc # "reported" /\ stop'.pc = "reported" /\ stop'.alone
              => \A r \in Ranks : cont'[r] = None]_vars
  BY ReportIs DEF IInv
<1> QED BY <1>1, Invariance, PTL DEF Spec, StopReportIsTrue

\* The step that changes a start's line is its own.
LEMMA OwnStep ==
  ASSUME TypeOK, Named, Next, NEW s \in Starters, pc'[s] # pc[s]
  PROVE  Begin(s) \/ StartStep(s) \/ Interrupt(s)
<1>1. pc' # pc
  OBVIOUS
<1>2. PICK t \in Starters : Begin(t) \/ StartStep(t) \/ Interrupt(t)
  BY <1>1, StopScriptIs, WorldIs DEF Next
<1>3. \E x : pc' = [pc EXCEPT ![t] = x]
  BY <1>2, StartStepEffect DEF Begin, Interrupt, StepEffect, Walks, Goto
<1>4. s = t
  BY <1>3 DEF TypeOK
<1> QED BY <1>2, <1>4

LEMMA FailedStep ==
  ASSUME TypeOK, Named, Alone, Next, NEW s \in Starters,
         pc[s] = "cleanGuardWorker", pc'[s] = "failed", ~botched'[s]
  PROVE  \A r \in Ranks : cont'[r] # s /\ Guards(r)' = {}
<1>1. CleanGuardWorker(s)
  <2>1. ~Begin(s)
    BY DEF Begin
  <2>2. ~Interrupt(s)
    BY DEF Interrupt, Goto, TypeOK
  <2> QED BY <2>1, <2>2, OwnStep, LineIs
<1>2. ~botched[s]
  BY <1>1, CleanEffect, BotchedStays
<1>3. cont[Head] # s /\ cont[Worker] # s /\ Guards(Head) = {}
  BY <1>2 DEF Alone, Cleaned
<1>4. cont' = cont /\ Guards(Worker)' = {} /\ Fewer
  BY <1>1, CleanIs
<1>5. Guards(Head)' \subseteq Guards(Head)
  BY <1>4 DEF Fewer, Ranks
<1> QED BY <1>3, <1>4, <1>5 DEF Ranks

\* A failed start whose cleanup worked leaves neither container nor guard
\* (cleanup_failed_start), if starts do not overlap.
THEOREM FailureIsCleanedUp == ASSUME ~Overlap PROVE Spec => FailedStartLeavesNothing
<1>1. IInv /\ [Next]_vars
        => [\A s \in Starters :
              pc[s] = "cleanGuardWorker" /\ pc'[s] = "failed" /\ ~botched'[s]
                => \A r \in Ranks : cont'[r] # s /\ Guards(r)' = {}]_vars
  BY FailedStep DEF IInv
<1> QED BY <1>1, Invariance, PTL DEF Spec, FailedStartLeavesNothing

LEMMA ServingStep ==
  ASSUME TypeOK, Named, Alone, Next, NEW s \in Starters, pc[s] # "serving", pc'[s] = "serving"
  PROVE  \A r \in Ranks : Guards(r)' = {}
<1>1. StartStep(s)
  <2>1. ~Begin(s)
    BY DEF Begin, Goto, TypeOK
  <2>2. ~Interrupt(s)
    BY DEF Interrupt, Goto, TypeOK
  <2> QED BY <2>1, <2>2, OwnStep
<1>2. pc[s] = "smoke"
  BY <1>1, StartStepEffect, WalkIs DEF Edge
<1>3. UNCHANGED guards
  BY <1>1, <1>2, LineIs DEF Smoke
<1>4. Guards(Head) = {} /\ Guards(Worker) = {}
  BY <1>2 DEF Alone, Disarmed
<1> QED BY <1>3, <1>4 DEF guards, Guards, Ranks

\* No guard is armed on either node when a start announces the service
\* ("disarming startup-only memory guards"), if starts do not overlap.
THEOREM AnnouncedMeansDisarmed == ASSUME ~Overlap PROVE Spec => ServingIsDisarmed
<1>1. IInv /\ [Next]_vars
        => [\A s \in Starters :
              pc[s] # "serving" /\ pc'[s] = "serving" => \A r \in Ranks : Guards(r)' = {}]_vars
  BY ServingStep DEF IInv
<1> QED BY <1>1, Invariance, PTL DEF Spec, ServingIsDisarmed

LEMMA SurvivesStep ==
  ASSUME TypeOK, Named, Alone, Next, NEW s \in Starters,
         pc[s] = "serving", pc' # pc, \A r \in Ranks : cont[r] = s
  PROVE  cont' = cont
<1>1. PICK t \in Starters : Begin(t) \/ StartStep(t) \/ Interrupt(t)
  BY StopScriptIs, WorldIs DEF Next
<1>2. CASE Begin(t) \/ Interrupt(t)
  BY <1>2 DEF Begin, Interrupt, NoContainerChange
<1>3. CASE StartStep(t)
  <2>1. StepEffect(t) /\ pc[t] \in Active
    BY <1>3, StartStepEffect, WalkIs DEF Edge
  <2>2. t # s /\ s # None
    BY <2>1, BringupAssumption DEF Active, Preparing, Raising, Cleaning
  <2>3. pc[t] \notin Raising \cup Cleaning
    BY <2>2 DEF Alone, HeadIsMine, Ranks
  <2>4. pc[t] \in Preparing
    BY <2>1, <2>3 DEF Active
  <2> QED BY <2>1, <2>4 DEF StepEffect, Takes
<1> QED BY <1>1, <1>2, <1>3

\* No step of a start script touches the containers of a service that runs on
\* both ranks (the "already running" checks), if starts do not overlap.
THEOREM ServiceSurvives == ASSUME ~Overlap PROVE Spec => ServingSurvivesOtherStarts
<1>1. IInv /\ [Next]_vars
        => [\A s \in Starters :
              /\ pc[s] = "serving" /\ pc' # pc
              /\ \A r \in Ranks : cont[r] = s
              => cont' = cont]_vars
  BY SurvivesStep DEF IInv
<1> QED BY <1>1, Invariance, PTL DEF Spec, ServingSurvivesOtherStarts
=============================================================================

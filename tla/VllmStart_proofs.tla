-------------------------- MODULE VllmStart_proofs --------------------------
(***************************************************************************)
(* Proofs about a start of the vLLM lane, in three sections: the launch    *)
(* (VllmLaunch), the weights it loads (WeightStore) and the overlays that  *)
(* each rank installs before it serves (OverlayBoot).                      *)
(***************************************************************************)
EXTENDS VllmStart, OverlayBoot, FiniteSetTheorems, TLAPS

----------------------------------------------------------------------------
(* The launch.  For any number of terminals, invocations, faults and       *)
(* polls, as long as one terminal starts and the others stop: what /health *)
(* answers for was launched by this start, and both ranks run one image.   *)
(*                                                                         *)
(* The argument.  Only the starting terminal names containers, and it does *)
(* so after `docker rm -f` of both: a name it could take belongs to nobody *)
(* else until the start ends, and a stop from another terminal can only    *)
(* free it (Launched).  ensure_image ends with one image on both nodes     *)
(* (Provided): a key that matches means equal content, because only images *)
(* from the registry carry a digest (Digests).                             *)

\* Every terminal but a runs nothing but stop.
Starter(a) == \A s \in Shells \ {a} :
  pc[s] \in {"idle", "stopHead", "stopWorker"} /\ inv[s].cmd = "stop"

\* Only what was pulled, or shipped after a pull, has a digest.
Digests == \A n \in Nodes : image[n].digest => image[n].from = "registry"

Launching == {"rmHead", "rmWorker", "runWorker", "runHead", "wait"}

SameImage ==
  image["worker"] # NoImage /\ Content(image["worker"]) = Content(image["head"])

\* What ensure_image has found so far, and what it leaves.
Provided(a) ==
  /\ pc[a] \in {"imageWorker"} \cup Launching => image["head"] # NoImage
  /\ pc[a] = "imageWorker" /\ loc[a].workerOk => SameImage
  /\ pc[a] \in Launching /\ ~inv[a].knob.skipShip => SameImage

\* The container on node n is gone or was made by this start from the image.
Own(a, n) ==
  cont[n] = NoCont \/ (cont[n].run = inv[a].run /\ cont[n].image = Content(image[n]))

Launched(a) ==
  /\ pc[a] \in {"runHead", "wait"} => Own(a, "worker")
  /\ pc[a] = "wait" => Own(a, "head")



----------------------------------------------------------------------------

(* Types                                                                   *)

\* An invocation that runs has a number.
Numbered == \A s \in Shells : pc[s] # "idle" => inv[s].run # 0

IInv(a) ==
  TypeOK /\ Numbered /\ Starter(a) /\ Digests /\ Provided(a) /\ Launched(a)

\* What a process starts from, and what its end leaves.
LEMMA NoneTyped ==
  /\ NoInv \in Invocations /\ NoLoc \in Locals /\ NoPoll \in Polls
  /\ NoInv.knob \in Env
BY VllmLaunchAssumption DEF NoInv, NoLoc, NoPoll, Invocations, Locals, Polls, Env, AllCmds, Stamps

LEMMA GoesTyped ==
  ASSUME ShellTypeOK, NEW s \in Shells, NEW st \in Stages, Goes(s, st), UNCHANGED <<loc, poll>>
  PROVE  ShellTypeOK'
BY DEF Goes, ShellTypeOK

LEMMA EndsTyped ==
  ASSUME ShellTypeOK, NEW s \in Shells, Ends(s)
  PROVE  ShellTypeOK'
<1>1. "idle" \in Stages
  BY DEF Stages
<1> QED BY <1>1, NoneTyped DEF Ends, ShellTypeOK

LEMMA FaultTyped ==
  ASSUME TypeOK, Fault \/ UNCHANGED faults
  PROVE  faults' \in 0 .. MaxFaults
BY VllmLaunchAssumption DEF Fault, TypeOK

LEMMA RemovedTyped ==
  ASSUME TypeOK, NEW n \in Nodes, cont' = [cont EXCEPT ![n] = NoCont] \/ UNCHANGED cont
  PROVE  cont' \in [Nodes -> Containers \cup {NoCont}]
BY DEF TypeOK

LEMMA ImageTyped ==
  ASSUME TypeOK
  PROVE  /\ Pulled \in Images /\ Built \in Images
         /\ \A i \in Images, d \in BOOLEAN : [i EXCEPT !.digest = d] \in Images
BY DEF TypeOK, Pulled, Built, Images

\* An image that is not there is shipped as one that is not there.
LEMMA NoImageKept ==
  ASSUME NEW d \in {FALSE, NoImage.digest}
  PROVE  [NoImage EXCEPT !.digest = d] = NoImage
<1>1. ASSUME NEW x \in [stamp : {0}, from : {"none"}, digest : {FALSE}]
      PROVE  [x EXCEPT !.digest = x.digest] = x
  OBVIOUS
<1>2. NoImage \in [stamp : {0}, from : {"none"}, digest : {FALSE}] /\ d = NoImage.digest
  BY DEF NoImage
<1> QED BY <1>1, <1>2

LEMMA InitType == Init => TypeOK
<1> SUFFICES ASSUME Init PROVE TypeOK
  OBVIOUS
<1>1. ShellTypeOK
  BY NoneTyped DEF Init, ShellTypeOK, Stages
<1> QED BY <1>1, VllmLaunchAssumption DEF Init, Stamps, TypeOK

LEMMA DockerRunTyped ==
  ASSUME TypeOK, NEW s \in Shells, NEW n \in Nodes, inv[s].run # 0, DockerRun(s, n)
  PROVE  /\ image' \in [Nodes -> Images \cup {NoImage}]
         /\ cont' \in [Nodes -> Containers \cup {NoCont}]
<1> DEFINE i == IF image[n] = NoImage THEN Pulled ELSE image[n]
           c == [run |-> inv[s].run, image |-> Content(i), st |-> "boot"]
<1>1. i \in Images
  BY ImageTyped DEF TypeOK
<1>2. inv[s].run \in 1 .. MaxRuns
  BY DEF TypeOK, ShellTypeOK, Invocations
<1>3. c \in Containers
  BY <1>1, <1>2 DEF Containers
<1>4. /\ image' = [image EXCEPT ![n] = i] /\ cont' = [cont EXCEPT ![n] = c]
  BY DEF DockerRun
<1> HIDE DEF i, c
<1> QED BY <1>1, <1>3, <1>4 DEF TypeOK

\* No action but Invoke takes an idle terminal away from idle or numbers it.
LEMMA NumberedStep ==
  ASSUME TypeOK, Numbered, [Next]_vars
  PROVE  Numbered'
<1> USE DEF Numbered
<1>1. ASSUME NEW s \in Shells, Invoke(s) PROVE Numbered'
  <2>1. runs + 1 # 0
    BY <1>1 DEF TypeOK
  <2>2. PICK c \in Cmds[s], k \in Knobs \cup {NoInv.knob} :
          inv' = [inv EXCEPT ![s] = [run |-> runs + 1, cmd |-> c, knob |-> k]]
    BY <1>1 DEF Invoke
  <2>3. \A t \in Shells \ {s} : pc'[t] = pc[t] /\ inv'[t] = inv[t]
    BY <1>1, <2>2 DEF Invoke, TypeOK
  <2>4. inv'[s].run = runs + 1
    BY <2>2 DEF TypeOK, ShellTypeOK
  <2> QED BY <2>1, <2>3, <2>4
<1>2. ASSUME NEW s \in Shells, NEW st, Goes(s, st), pc[s] # "idle" PROVE Numbered'
  BY <1>2 DEF Goes, TypeOK
<1>3. ASSUME NEW s \in Shells, Ends(s) PROVE Numbered'
  BY <1>3 DEF Ends, TypeOK, ShellTypeOK
<1>4. ASSUME UNCHANGED <<pc, inv>> PROVE Numbered'
  BY <1>4
<1>5. ASSUME NEW s \in Shells, Step(s) PROVE Numbered'
  <2>1. pc[s] # "idle" /\ ((\E st : Goes(s, st)) \/ Ends(s))
    BY <1>5, Zenon DEF Step, At, Waits, Run, Dies, StopHead, StopWorker, Preflight, ImageHead, ImageWorker,
       RmHead, RmWorker, RunWorker, RunHead, Up, HeadExited, WorkerSeen, WorkerMissed, TimedOut
  <2> QED BY <1>2, <1>3, <2>1
<1>6. ASSUME NEW s \in Shells, CommandFails(s) \/ Interrupt(s) PROVE Numbered'
  BY <1>3, <1>6 DEF CommandFails, Interrupt, Dies
<1>7. ASSUME NEW n \in Nodes, Boot(n) \/ RankExits(n) PROVE Numbered'
  BY <1>7 DEF Boot, RankExits, shell
<1>8. ASSUME Rendezvous \/ GitPull \/ Publish \/ UNCHANGED vars PROVE Numbered'
  BY <1>8 DEF Rendezvous, GitPull, Publish, shell, vars
<1> QED BY <1>1, <1>5, <1>6, <1>7, <1>8 DEF Next

\* Every action keeps the types.
LEMMA TypeStep ==
  ASSUME TypeOK, Numbered, [Next]_vars
  PROVE  TypeOK'
<1> USE DEF TypeOK
<1>1. ASSUME NEW s \in Shells, Invoke(s) PROVE TypeOK'
  <2>1. PICK c \in Cmds[s], k \in Knobs \cup {NoInv.knob} :
          inv' = [inv EXCEPT ![s] = [run |-> runs + 1, cmd |-> c, knob |-> k]]
    BY <1>1 DEF Invoke
  <2>2. c \in AllCmds /\ k \in Env /\ runs + 1 \in 0 .. MaxRuns
    BY <1>1, VllmLaunchAssumption, NoneTyped DEF Invoke
  <2>3. [run |-> runs + 1, cmd |-> c, knob |-> k] \in Invocations
    BY <2>2 DEF Invocations
  <2>4. pc' \in [Shells -> Stages]
    BY <1>1 DEF Invoke, ShellTypeOK, Stages
  <2>5. ShellTypeOK'
    BY <1>1, <2>1, <2>3, <2>4 DEF Invoke, ShellTypeOK
  <2> QED BY <1>1, <2>2, <2>5 DEF Invoke, origin
<1>2. ASSUME NEW s \in Shells, NEW n \in Nodes, NEW st \in Stages,
             (Goes(s, st) /\ UNCHANGED <<loc, poll>>) \/ Ends(s),
             \/ cont' = [cont EXCEPT ![n] = NoCont] /\ UNCHANGED faults
             \/ Fault /\ UNCHANGED cont,
             UNCHANGED <<origin, image, runs>>
      PROVE  TypeOK'
  <2>1. ShellTypeOK'
    BY <1>2, GoesTyped, EndsTyped
  <2>2. faults' \in 0 .. MaxFaults /\ cont' \in [Nodes -> Containers \cup {NoCont}]
    BY <1>2, FaultTyped, RemovedTyped
  <2> QED BY <1>2, <2>1, <2>2 DEF origin
<1>3. ASSUME NEW s \in Shells, StopHead(s) \/ StopWorker(s) \/ RmHead(s) \/ RmWorker(s) PROVE TypeOK'
  <2>1. /\ "head" \in Nodes /\ "worker" \in Nodes
        /\ {"stopWorker", "preflight", "rmWorker", "runWorker"} \subseteq Stages
    BY DEF Nodes, Stages
  <2>2. CASE StopHead(s)
    <3>1. Goes(s, "stopWorker") /\ UNCHANGED <<loc, poll>>
      BY <2>2 DEF StopHead
    <3>2. \/ cont' = [cont EXCEPT !["head"] = NoCont] /\ UNCHANGED faults
          \/ Fault /\ UNCHANGED cont
      BY <2>2 DEF StopHead
    <3>3. UNCHANGED <<origin, image, runs>>
      BY <2>2 DEF StopHead
    <3> QED BY <1>2, <2>1, <3>1, <3>2, <3>3
  <2>3. CASE StopWorker(s)
    <3>1. (Goes(s, "preflight") /\ UNCHANGED <<loc, poll>>) \/ Ends(s)
      BY <2>3 DEF StopWorker
    <3>2. \/ cont' = [cont EXCEPT !["worker"] = NoCont] /\ UNCHANGED faults
          \/ Fault /\ UNCHANGED cont
      BY <2>3 DEF StopWorker
    <3>3. UNCHANGED <<origin, image, runs>>
      BY <2>3 DEF StopWorker
    <3> QED BY <1>2, <2>1, <3>1, <3>2, <3>3
  <2>4. CASE RmHead(s)
    <3>1. Goes(s, "rmWorker") /\ UNCHANGED <<loc, poll>>
      BY <2>4 DEF RmHead
    <3>2. \/ cont' = [cont EXCEPT !["head"] = NoCont] /\ UNCHANGED faults
          \/ Fault /\ UNCHANGED cont
      BY <2>4 DEF RmHead
    <3>3. UNCHANGED <<origin, image, runs>>
      BY <2>4 DEF RmHead
    <3> QED BY <1>2, <2>1, <3>1, <3>2, <3>3
  <2>5. CASE RmWorker(s)
    <3>1. Goes(s, "runWorker") /\ UNCHANGED <<loc, poll>>
      BY <2>5 DEF RmWorker
    <3>2. \/ cont' = [cont EXCEPT !["worker"] = NoCont] /\ UNCHANGED faults
          \/ Fault /\ UNCHANGED cont
      BY <2>5 DEF RmWorker
    <3>3. UNCHANGED <<origin, image, runs>>
      BY <2>5 DEF RmWorker
    <3> QED BY <1>2, <2>1, <3>1, <3>2, <3>3
  <2> QED BY <1>3, <2>2, <2>3, <2>4, <2>5
<1>4. ASSUME NEW s \in Shells, Dies(s), UNCHANGED <<origin, runs>>, Fault \/ UNCHANGED faults
      PROVE  TypeOK'
  <2>1. ShellTypeOK' /\ faults' \in 0 .. MaxFaults
    BY <1>4, EndsTyped, FaultTyped DEF Dies
  <2> QED BY <1>4, <2>1 DEF Dies, origin
<1>5. ASSUME NEW s \in Shells, NEW st \in Stages, Goes(s, st),
             UNCHANGED <<origin, image, cont, loc, poll, runs, faults>>
      PROVE  TypeOK'
  <2>1. ShellTypeOK'
    BY <1>5, GoesTyped
  <2> QED BY <1>5, <2>1 DEF origin
<1>6. ASSUME NEW s \in Shells, Preflight(s) PROVE TypeOK'
  BY <1>4, <1>5, <1>6 DEF Preflight, Stages
<1>7. ASSUME NEW s \in Shells, ImageHead(s) PROVE TypeOK'
  <2>1. CASE Dies(s)
    BY <1>4, <1>7, <2>1 DEF ImageHead
  <2>2. CASE (Builds(s) \/ Pulls(s) \/ Keeps(s)) /\ Goes(s, "imageWorker") /\ UNCHANGED <<cont, poll>>
    <3>1. image' \in [Nodes -> Images \cup {NoImage}]
      BY <2>2, ImageTyped DEF Builds, Pulls, Keeps, Nodes
    <3>2. \A i, j \in Images \cup {NoImage} : ImagesMatch(i, j) \in BOOLEAN
      BY DEF ImagesMatch
    <3>3. BuildWanted(s) \in BOOLEAN /\ recipe \in Stamps
      BY DEF BuildWanted
    <3>4. PICK w \in Stamps, b \in BOOLEAN, o \in BOOLEAN :
            loc' = [loc EXCEPT ![s] = [wanted |-> w, built |-> b, workerOk |-> o]]
      BY <2>2, <3>2, <3>3, ImageTyped DEF Builds, Pulls, Keeps, Nodes
    <3>5. [wanted |-> w, built |-> b, workerOk |-> o] \in Locals
      BY DEF Locals
    <3>6. ShellTypeOK'
      BY <2>2, <3>4, <3>5 DEF Goes, ShellTypeOK, Stages
    <3> QED BY <1>7, <2>2, <3>1, <3>6 DEF ImageHead, origin
  <2> QED BY <1>7, <2>1, <2>2 DEF ImageHead
<1>8. ASSUME NEW s \in Shells, ImageWorker(s) PROVE TypeOK'
  <2>1. image' \in [Nodes -> Images \cup {NoImage}]
    <3>1. CASE UNCHANGED image
      BY <3>1
    <3>2. CASE WorkerPulls(s)
      BY <3>2, ImageTyped DEF WorkerPulls, Nodes
    <3>3. CASE Ships
      <4>1. PICK d \in {FALSE, image["head"].digest} :
              image' = [image EXCEPT !["worker"] = [image["head"] EXCEPT !.digest = d]]
        BY <3>3 DEF Ships
      <4>2. image["head"] \in Images \cup {NoImage}
        BY DEF Nodes
      <4>3. [image["head"] EXCEPT !.digest = d] \in Images \cup {NoImage}
        <5>1. CASE image["head"] \in Images
          <6>1. d \in BOOLEAN
            BY <5>1 DEF Images
          <6> QED BY <5>1, <6>1, ImageTyped
        <5>2. CASE image["head"] = NoImage
          BY <5>2, NoImageKept
        <5> QED BY <4>2, <5>1, <5>2
      <4> QED BY <4>1, <4>3 DEF Nodes
    <3> QED BY <1>8, <3>1, <3>2, <3>3 DEF ImageWorker
  <2>2. ShellTypeOK'
    BY <1>8, GoesTyped DEF ImageWorker, Stages
  <2> QED BY <1>8, <2>1, <2>2 DEF ImageWorker, origin
<1>9. ASSUME NEW s \in Shells, NEW n \in Nodes, NEW st \in Stages,
             pc[s] # "idle", Run(s, n, st), UNCHANGED <<origin, runs, faults>>
      PROVE  TypeOK'
  <2>1. CASE DockerRun(s, n) /\ Goes(s, st) /\ UNCHANGED <<loc, poll>>
    <3>1. image' \in [Nodes -> Images \cup {NoImage}] /\ cont' \in [Nodes -> Containers \cup {NoCont}]
      BY <1>9, <2>1, DockerRunTyped DEF Numbered
    <3>2. ShellTypeOK'
      BY <2>1, GoesTyped
    <3> QED BY <1>9, <3>1, <3>2 DEF origin
  <2>2. CASE Dies(s)
    BY <1>4, <1>9, <2>2
  <2> QED BY <1>9, <2>1, <2>2 DEF Run
<1>10. ASSUME NEW s \in Shells, RunWorker(s) \/ RunHead(s) PROVE TypeOK'
  BY <1>9, <1>10 DEF RunWorker, RunHead, At, Nodes, Stages
<1>11. ASSUME NEW s \in Shells, Up(s) \/ HeadExited(s) \/ TimedOut(s) \/ CommandFails(s) \/ Interrupt(s)
       PROVE  TypeOK'
  BY <1>4, <1>11 DEF Up, HeadExited, TimedOut, CommandFails, Interrupt, Dies
<1>12. ASSUME NEW s \in Shells, WorkerSeen(s) \/ WorkerMissed(s) PROVE TypeOK'
  <2>1. poll[s] \in Polls /\ Waits(s) /\ ReadyPolls \in Nat
    BY <1>12, VllmLaunchAssumption DEF WorkerSeen, WorkerMissed, ShellTypeOK
  <2>2. ASSUME NEW k \in 0 .. 2, NEW h \in 0 .. MaxHiccups, Sleeps(s, k, h), Goes(s, "wait"),
               UNCHANGED <<origin, image, cont, loc, runs, faults>>
        PROVE  TypeOK'
    <3>1. poll[s].n + 1 \in 0 .. ReadyPolls
      BY <2>1 DEF Waits, Polls
    <3>2. [n |-> poll[s].n + 1, strikes |-> k, hiccups |-> h] \in Polls
      BY <3>1 DEF Polls
    <3>3. poll' \in [Shells -> Polls]
      BY <2>2, <3>2 DEF Sleeps, ShellTypeOK
    <3>4. ShellTypeOK'
      BY <2>2, <3>3 DEF Goes, ShellTypeOK, Stages
    <3> QED BY <2>2, <3>4 DEF origin
  <2>3. CASE WorkerSeen(s)
    <3>1. poll[s].hiccups \in 0 .. MaxHiccups
      BY <2>1 DEF Polls
    <3> QED BY <2>2, <2>3, <3>1 DEF WorkerSeen
  <2>4. CASE WorkerMissed(s)
    <3>1. PICK h \in {0, 1} :
            /\ poll[s].hiccups + h <= MaxHiccups
            /\ IF poll[s].strikes + 1 >= Strikes
                 THEN Ends(s) /\ UNCHANGED <<image, cont>>
                 ELSE /\ Sleeps(s, poll[s].strikes + 1, poll[s].hiccups + h)
                      /\ Goes(s, "wait") /\ UNCHANGED <<image, cont, loc>>
      BY <2>4 DEF WorkerMissed
    <3>2. CASE poll[s].strikes + 1 >= Strikes
      BY <1>4, <2>4, <3>1, <3>2 DEF WorkerMissed, Dies
    <3>3. CASE ~(poll[s].strikes + 1 >= Strikes)
      <4>1. poll[s].strikes + 1 \in 0 .. 2 /\ poll[s].hiccups + h \in 0 .. MaxHiccups
        BY <2>1, <3>1, <3>3, VllmLaunchAssumption DEF Polls, Strikes
      <4> QED BY <2>2, <2>4, <3>1, <3>3, <4>1 DEF WorkerMissed
    <3> QED BY <3>2, <3>3
  <2> QED BY <1>12, <2>3, <2>4
<1>13. ASSUME NEW n \in Nodes, NEW st \in {"boot", "loading", "serving", "exited"}, cont[n] # NoCont
       PROVE  [cont[n] EXCEPT !.st = st] \in Containers
  BY <1>13 DEF Containers
<1>14. ASSUME NEW n \in Nodes, Boot(n) \/ RankExits(n) PROVE TypeOK'
  <2>1. cont[n] # NoCont /\ cont[n].st # "none"
    BY <1>14 DEF Boot, RankExits, NoCont
  <2>2. PICK st \in {"loading", "exited"} : cont' = [cont EXCEPT ![n] = [cont[n] EXCEPT !.st = st]]
                                             \/ UNCHANGED cont
    BY <1>14 DEF Boot, RankExits, Becomes
  <2>3. cont' \in [Nodes -> Containers \cup {NoCont}]
    BY <1>13, <2>1, <2>2
  <2>4. faults' \in 0 .. MaxFaults
    BY <1>14, FaultTyped DEF Boot, RankExits
  <2>5. ShellTypeOK' /\ UNCHANGED <<tag, recipe, registry, image, runs>>
    BY <1>14 DEF Boot, RankExits, ShellTypeOK, shell, origin
  <2> QED BY <2>3, <2>4, <2>5
<1>15. CASE Rendezvous
  <2>1. \A n \in Nodes : cont[n] # NoCont
    BY <1>15 DEF Rendezvous, NoCont
  <2>2. cont' \in [Nodes -> Containers \cup {NoCont}]
    BY <1>13, <1>15, <2>1 DEF Rendezvous
  <2>3. ShellTypeOK' /\ UNCHANGED <<tag, recipe, registry, image, runs, faults>>
    BY <1>15 DEF Rendezvous, ShellTypeOK, shell, origin
  <2> QED BY <2>2, <2>3
<1>16. CASE GitPull \/ Publish
  <2>1. recipe' \in Stamps /\ registry' \in Stamps
    BY <1>16, VllmLaunchAssumption DEF GitPull, Publish, Stamps
  <2>2. ShellTypeOK' /\ UNCHANGED <<tag, image, cont, runs, faults>>
    BY <1>16 DEF GitPull, Publish, ShellTypeOK, shell
  <2> QED BY <2>1, <2>2
<1>17. CASE UNCHANGED vars
  BY <1>17 DEF vars, origin, shell, ShellTypeOK
<1> QED
  BY <1>1, <1>3, <1>6, <1>7, <1>8, <1>10, <1>11, <1>12, <1>14, <1>15, <1>16, <1>17 DEF Next, Step

----------------------------------------------------------------------------
(* Steps of another terminal, and of the world                             *)

\* The other terminals are given no command but stop.
OnlyStops(a) == \A s \in Shells \ {a} : Cmds[s] \subseteq {"stop"}

\* A container is gone, or it is still the one it was.
Fades(n) ==
  \/ cont'[n] = NoCont
  \/ cont'[n].run = cont[n].run /\ cont'[n].image = cont[n].image /\ cont[n] # NoCont

\* What such a step leaves of what terminal a relies on.
Aside(a) ==
  /\ pc'[a] = pc[a] /\ inv'[a] = inv[a] /\ loc'[a] = loc[a] /\ image' = image
  /\ \A n \in Nodes : Fades(n)

LEMMA AsideKeeps ==
  ASSUME NEW a, Digests, Provided(a), Launched(a), Aside(a)
  PROVE  Digests' /\ Provided(a)' /\ Launched(a)'
<1>1. Digests' /\ Provided(a)'
  BY DEF Digests, Provided, Aside, SameImage
<1>2. ASSUME NEW n \in Nodes, Own(a, n) PROVE Own(a, n)'
  BY <1>2 DEF Own, Aside, Fades
<1>3. Launched(a)'
  BY <1>2 DEF Launched, Aside, Nodes
<1> QED BY <1>1, <1>3

\* A container that stays as it is, goes, or changes its state.
LEMMA FadesCases ==
  ASSUME TypeOK, NEW n \in Nodes,
         \/ UNCHANGED cont
         \/ cont' = [cont EXCEPT ![n] = NoCont]
         \/ cont[n] # NoCont /\ \E st : Becomes(n, st)
  PROVE  \A m \in Nodes : Fades(m)
<1> TAKE m \in Nodes
<1>1. CASE UNCHANGED cont
  BY <1>1 DEF Fades
<1>2. CASE cont' = [cont EXCEPT ![n] = NoCont]
  BY <1>2 DEF Fades, TypeOK
<1>3. CASE cont[n] # NoCont /\ \E st : Becomes(n, st)
  <2>1. PICK st : cont' = [cont EXCEPT ![n] = [cont[n] EXCEPT !.st = st]]
    BY <1>3 DEF Becomes
  <2>2. cont[n] \in Containers
    BY <1>3 DEF TypeOK
  <2>3. cont'[n].run = cont[n].run /\ cont'[n].image = cont[n].image
    BY <2>1, <2>2 DEF TypeOK, Containers
  <2> QED BY <1>3, <2>1, <2>3 DEF Fades, TypeOK
<1> QED BY <1>1, <1>2, <1>3

\* Another terminal stops, is interrupted, or begins to stop.
LEMMA OtherTerminal ==
  ASSUME TypeOK, NEW a \in Shells, OnlyStops(a), Starter(a), NEW s \in Shells \ {a},
         Invoke(s) \/ Step(s) \/ CommandFails(s) \/ Interrupt(s)
  PROVE  Starter(a)' /\ Aside(a)
<1> USE DEF TypeOK, ShellTypeOK
<1>1. ASSUME NEW st \in {"idle", "stopHead", "stopWorker"}, NEW v, v.cmd = "stop",
             pc' = [pc EXCEPT ![s] = st], inv' = [inv EXCEPT ![s] = v] \/ inv' = inv,
             loc' = [loc EXCEPT ![s] = NoLoc] \/ loc' = loc, image' = image,
             \A n \in Nodes : Fades(n)
      PROVE  Starter(a)' /\ Aside(a)
  BY <1>1 DEF Starter, Aside
<1>2. pc[s] \in {"idle", "stopHead", "stopWorker"} /\ inv[s].cmd = "stop" /\ NoInv.cmd = "stop"
  BY DEF Starter, NoInv
<1>3. "head" \in Nodes /\ "worker" \in Nodes
  BY DEF Nodes
<1>4. CASE Invoke(s)
  <2>1. PICK c \in Cmds[s], k \in Knobs \cup {NoInv.knob} :
          /\ inv' = [inv EXCEPT ![s] = [run |-> runs + 1, cmd |-> c, knob |-> k]]
          /\ pc' = [pc EXCEPT ![s] = IF c = "start" THEN "preflight" ELSE "stopHead"]
    BY <1>4 DEF Invoke
  <2>2. c = "stop"
    BY DEF OnlyStops
  <2>3. image' = image /\ loc' = loc /\ cont' = cont
    BY <1>4 DEF Invoke
  <2>4. \A n \in Nodes : Fades(n)
    BY <1>3, <2>3, FadesCases
  <2> DEFINE v == [run |-> runs + 1, cmd |-> c, knob |-> k]
  <2>5. v.cmd = "stop" /\ inv' = [inv EXCEPT ![s] = v] /\ pc' = [pc EXCEPT ![s] = "stopHead"]
    BY <2>1, <2>2
  <2> HIDE DEF v
  <2> QED BY <1>1, <2>3, <2>4, <2>5
<1>5. CASE StopHead(s)
  <2>1. \A n \in Nodes : Fades(n)
    BY <1>3, <1>5, FadesCases DEF StopHead
  <2> QED BY <1>1, <1>2, <1>5, <2>1 DEF StopHead, Goes
<1>6. CASE StopWorker(s)
  <2>1. \A n \in Nodes : Fades(n)
    BY <1>3, <1>6, FadesCases DEF StopWorker
  <2>2. Ends(s) /\ image' = image
    BY <1>2, <1>6 DEF StopWorker
  <2> QED BY <1>1, <1>2, <2>1, <2>2 DEF Ends
<1>7. CASE Ends(s) /\ UNCHANGED <<image, cont>>
  <2>1. \A n \in Nodes : Fades(n)
    BY <1>3, <1>7, FadesCases
  <2> QED BY <1>1, <1>2, <1>7, <2>1 DEF Ends
<1>8. CASE CommandFails(s) \/ Interrupt(s)
  BY <1>7, <1>8 DEF CommandFails, Interrupt, Dies
<1>9. CASE Step(s)
  BY <1>2, <1>5, <1>6, <1>9
     DEF Step, At, Waits, Preflight, ImageHead, ImageWorker, RmHead, RmWorker, RunWorker, RunHead,
         Up, HeadExited, WorkerSeen, WorkerMissed, TimedOut
<1> QED BY <1>4, <1>8, <1>9

\* The containers, the checkout and the registry move on their own.
LEMMA World ==
  ASSUME TypeOK, NEW a \in Shells, Starter(a),
         \/ \E n \in Nodes : Boot(n) \/ RankExits(n)
         \/ Rendezvous \/ GitPull \/ Publish \/ UNCHANGED vars
  PROVE  Starter(a)' /\ Aside(a)
<1>1. UNCHANGED <<pc, inv, loc, image>>
  BY DEF Boot, RankExits, Rendezvous, GitPull, Publish, vars, shell
<1>2. \A n \in Nodes : Fades(n)
  <2>1. CASE \E n \in Nodes : Boot(n) \/ RankExits(n)
    <3>1. PICK n \in Nodes : Boot(n) \/ RankExits(n)
      BY <2>1
    <3>2. cont[n] # NoCont
      BY <3>1 DEF Boot, RankExits, NoCont
    <3> QED BY <3>1, <3>2, FadesCases DEF Boot, RankExits
  <2>2. CASE Rendezvous
    <3>1. ASSUME NEW n \in Nodes PROVE Fades(n)
      <4>1. cont[n] # NoCont /\ cont'[n] = [cont[n] EXCEPT !.st = "serving"]
        BY <2>2 DEF Rendezvous, NoCont
      <4>2. cont[n] \in Containers
        BY <4>1 DEF TypeOK
      <4> QED BY <4>1, <4>2 DEF Fades, Containers
    <3> QED BY <3>1
  <2>3. CASE GitPull \/ Publish \/ UNCHANGED vars
    BY <2>3, FadesCases DEF GitPull, Publish, vars, Nodes
  <2> QED BY <2>1, <2>2, <2>3
<1> QED BY <1>1, <1>2 DEF Starter, Aside

----------------------------------------------------------------------------
(* Steps of the terminal that starts                                       *)

\* Images whose keys are equal have one content.
LEMMA KeysMatch ==
  ASSUME NEW i \in Images, NEW j \in Images, ImagesMatch(i, j),
         i.digest => i.from = "registry", j.digest => j.from = "registry"
  PROVE  Content(i) = Content(j)
<1>1. Key(i) = Key(j)
  BY DEF ImagesMatch
<1>2. CASE i.digest /\ j.digest
  BY <1>1, <1>2 DEF Key, Content
<1>3. CASE ~i.digest /\ ~j.digest
  BY <1>1, <1>3 DEF Key, Content
<1>4. CASE i.digest /\ ~j.digest
  BY <1>1, <1>4 DEF Key
<1>5. CASE ~i.digest /\ j.digest
  BY <1>1, <1>5 DEF Key
<1>6. i.digest \in BOOLEAN /\ j.digest \in BOOLEAN
  BY DEF Images
<1> QED BY <1>2, <1>3, <1>4, <1>5, <1>6

\* No terminal but a moves, and where a goes to little is asked.
LEMMA OthersStay ==
  ASSUME TypeOK, NEW a \in Shells, Starter(a), NEW st, NEW v,
         pc' = [pc EXCEPT ![a] = st], inv' = [inv EXCEPT ![a] = v] \/ inv' = inv
  PROVE  Starter(a)' /\ pc'[a] = st
BY DEF Starter, TypeOK, ShellTypeOK

\* The start ends, or has launched nothing yet.
LEMMA Early ==
  ASSUME TypeOK, NEW a \in Shells, Starter(a), Digests, image' = image,
         NEW st \in {"idle", "stopHead", "stopWorker", "preflight", "imageHead"}, NEW v,
         pc' = [pc EXCEPT ![a] = st], inv' = [inv EXCEPT ![a] = v] \/ inv' = inv
  PROVE  Starter(a)' /\ Digests' /\ Provided(a)' /\ Launched(a)'
<1>1. Starter(a)' /\ pc'[a] = st
  BY OthersStay
<1> QED BY <1>1 DEF Digests, Provided, Launched, Launching

LEMMA EndsEarly ==
  ASSUME TypeOK, NEW a \in Shells, Starter(a), Digests, image' = image, Ends(a)
  PROVE  Starter(a)' /\ Digests' /\ Provided(a)' /\ Launched(a)'
BY Early DEF Ends

\* The stage of ensure_image on the head.
LEMMA HeadProvided ==
  ASSUME TypeOK, NEW a \in Shells, Starter(a), Digests, ImageHead(a)
  PROVE  Starter(a)' /\ Digests' /\ Provided(a)' /\ Launched(a)'
<1> USE DEF TypeOK, Nodes
<1>1. CASE Dies(a)
  BY <1>1, EndsEarly DEF Dies
<1>2. CASE Goes(a, "imageWorker") /\ (Builds(a) \/ Pulls(a) \/ (Keeps(a) /\ image["head"] # NoImage))
  <2>1. Starter(a)' /\ pc'[a] = "imageWorker"
    BY <1>2, OthersStay DEF Goes
  <2>2. Launched(a)'
    BY <2>1 DEF Launched
  <2>3. Pulled \in Images /\ Built \in Images /\ Pulled # NoImage /\ Built # NoImage
        /\ Pulled.from = "registry" /\ ~Built.digest
    BY ImageTyped DEF Pulled, Built, NoImage
  <2>4. CASE Builds(a)
    <3>1. image' = [image EXCEPT !["head"] = Built] /\ ~loc'[a].workerOk
      BY <2>4 DEF Builds, ShellTypeOK
    <3> QED BY <2>1, <2>2, <2>3, <3>1 DEF Digests, Provided, Launching
  <2>5. CASE Pulls(a)
    <3>1. image' = [image EXCEPT !["head"] = Pulled]
          /\ loc'[a].workerOk = ImagesMatch(image["worker"], Pulled)
      BY <2>5 DEF Pulls, ShellTypeOK
    <3>2. ASSUME ImagesMatch(image["worker"], Pulled)
          PROVE  image["worker"] # NoImage /\ Content(image["worker"]) = Content(Pulled)
      <4>1. image["worker"] # NoImage /\ image["worker"] \in Images
        BY <3>2 DEF ImagesMatch
      <4> QED BY <3>2, <4>1, <2>3, KeysMatch DEF Digests
    <3>3. image'["head"] = Pulled /\ image'["worker"] = image["worker"]
      BY <3>1
    <3>4. Digests'
      BY <2>3, <3>3 DEF Digests
    <3>5. loc'[a].workerOk => SameImage'
      BY <3>1, <3>2, <3>3 DEF SameImage
    <3>6. Provided(a)'
      BY <2>1, <2>3, <3>3, <3>5 DEF Provided, Launching
    <3> QED BY <2>1, <2>2, <3>4, <3>6
  <2>6. CASE Keeps(a) /\ image["head"] # NoImage
    <3>1. image' = image /\ loc'[a].workerOk = ImagesMatch(image["head"], image["worker"])
      BY <2>6 DEF Keeps, ShellTypeOK
    <3>2. ASSUME ImagesMatch(image["head"], image["worker"]) PROVE SameImage
      <4>1. image["worker"] # NoImage /\ image["worker"] \in Images /\ image["head"] \in Images
        BY <3>2 DEF ImagesMatch
      <4> QED BY <3>2, <4>1, KeysMatch DEF Digests, SameImage
    <3>3. Digests' /\ (loc'[a].workerOk => SameImage')
      BY <3>1, <3>2 DEF Digests, SameImage
    <3>4. Provided(a)'
      BY <2>1, <2>6, <3>1, <3>3 DEF Provided, Launching
    <3> QED BY <2>1, <2>2, <3>3, <3>4
  <2> QED BY <1>2, <2>4, <2>5, <2>6
<1> QED
  BY <1>1, <1>2 DEF ImageHead

\* The stage on the worker ends with one image on both nodes, or SKIP_SHIP=1.
LEMMA WorkerProvided ==
  ASSUME TypeOK, NEW a \in Shells, Starter(a), Digests, Provided(a), ImageWorker(a)
  PROVE  Starter(a)' /\ Digests' /\ Provided(a)' /\ Launched(a)'
<1> USE DEF TypeOK, Nodes
<1>1. Starter(a)' /\ pc'[a] = "rmHead" /\ inv' = inv /\ pc[a] = "imageWorker"
  BY OthersStay DEF ImageWorker, Goes, At
<1>2. image["head"] # NoImage /\ image["head"] \in Images
  BY <1>1 DEF Provided
<1>3. CASE image' = image /\ (inv[a].knob.skipShip \/ loc[a].workerOk)
  <2>1. ~inv[a].knob.skipShip => SameImage
    BY <1>1, <1>3 DEF Provided
  <2> QED BY <1>1, <1>2, <1>3, <2>1 DEF Digests, Provided, Launched, Launching, SameImage
<1>4. ASSUME NEW i \in Images, i.digest => i.from = "registry", Content(i) = Content(image["head"]),
             image' = [image EXCEPT !["worker"] = i]
      PROVE  Digests' /\ Provided(a)' /\ Launched(a)'
  <2>1. image'["head"] = image["head"] /\ image'["worker"] = i /\ i # NoImage
    BY <1>4 DEF Images, NoImage
  <2>2. Digests' /\ SameImage'
    BY <1>4, <2>1 DEF Digests, SameImage
  <2> QED BY <1>1, <1>2, <2>1, <2>2 DEF Provided, Launched, Launching
<1>5. CASE WorkerPulls(a)
  <2>1. Pulled \in Images /\ Pulled.from = "registry"
    BY ImageTyped DEF Pulled
  <2>2. Content(image["head"]) = Content(Pulled)
    BY <1>2, <1>5, <2>1, KeysMatch DEF WorkerPulls, Digests
  <2> QED BY <1>1, <1>4, <1>5, <2>1, <2>2 DEF WorkerPulls
<1>6. CASE Ships
  <2>1. PICK d \in {FALSE, image["head"].digest} :
          image' = [image EXCEPT !["worker"] = [image["head"] EXCEPT !.digest = d]]
    BY <1>6 DEF Ships
  <2> DEFINE i == [image["head"] EXCEPT !.digest = d]
  <2>2. d \in BOOLEAN
    BY <1>2 DEF Images
  <2>3. i \in Images /\ i.from = image["head"].from /\ i.stamp = image["head"].stamp /\ i.digest = d
    BY <1>2, <2>2, ImageTyped DEF Images
  <2>4. i.digest => i.from = "registry"
    BY <2>2, <2>3 DEF Digests
  <2>5. image' = [image EXCEPT !["worker"] = i]
    BY <2>1
  <2> HIDE DEF i
  <2> QED BY <1>1, <1>4, <2>3, <2>4, <2>5 DEF Content
<1> QED BY <1>3, <1>5, <1>6 DEF ImageWorker

\* launch_cluster and the wait.
LEMMA LaunchStep ==
  ASSUME TypeOK, NEW a \in Shells, Starter(a), Digests, Provided(a), Launched(a),
         RmHead(a) \/ RmWorker(a) \/ RunWorker(a) \/ RunHead(a) \/ WorkerSeen(a) \/ WorkerMissed(a)
  PROVE  Starter(a)' /\ Digests' /\ Provided(a)' /\ Launched(a)'
<1> USE DEF TypeOK, Nodes
<1>1. ASSUME NEW st \in Launching, Goes(a, st), pc[a] \in Launching, image' = image
      PROVE  Starter(a)' /\ Digests' /\ Provided(a)' /\ pc'[a] = st /\ inv' = inv
  <2>1. Starter(a)' /\ pc'[a] = st /\ inv' = inv
    BY <1>1, OthersStay DEF Goes
  <2> QED BY <1>1, <2>1 DEF Digests, Provided, SameImage, Launching
<1>2. CASE RmHead(a) \/ RmWorker(a)
  <2>1. PICK st \in {"rmWorker", "runWorker"} : Goes(a, st) /\ image' = image /\ pc[a] \in Launching
    BY <1>2 DEF RmHead, RmWorker, At, Launching
  <2>2. Starter(a)' /\ Digests' /\ Provided(a)' /\ pc'[a] = st
    BY <1>1, <2>1 DEF Launching
  <2> QED BY <2>2 DEF Launched
<1>3. ASSUME NEW n \in Nodes, NEW st, pc[a] \in Launching, Run(a, n, st) PROVE
      \/ Ends(a) /\ image' = image
      \/ /\ Goes(a, st) /\ (image[n] # NoImage => image' = image)
         /\ image'[n] # NoImage /\ (\A m \in Nodes \ {n} : image'[m] = image[m] /\ cont'[m] = cont[m])
         /\ Digests' /\ cont'[n].run = inv[a].run /\ cont'[n].image = Content(image'[n])
  <2>1. CASE Dies(a)
    BY <2>1 DEF Dies
  <2>2. CASE DockerRun(a, n) /\ Goes(a, st)
    <3>1. Pulled # NoImage /\ Pulled.from = "registry"
      BY DEF Pulled, NoImage
    <3> DEFINE i == IF image[n] = NoImage THEN Pulled ELSE image[n]
               c == [run |-> inv[a].run, image |-> Content(i), st |-> "boot"]
    <3>2. i # NoImage /\ (i.digest => i.from = "registry") /\ (image[n] # NoImage => i = image[n])
      BY <3>1 DEF Digests
    <3>3. image' = [image EXCEPT ![n] = i] /\ cont' = [cont EXCEPT ![n] = c]
      BY <2>2 DEF DockerRun
    <3>4. c.run = inv[a].run /\ c.image = Content(i)
      OBVIOUS
    <3> HIDE DEF i, c
    <3>5. image'[n] = i /\ cont'[n] = c /\ \A m \in Nodes \ {n} : image'[m] = image[m] /\ cont'[m] = cont[m]
      BY <3>3
    <3>6. image[n] # NoImage => image' = image
      BY <3>2, <3>3
    <3>7. Digests'
      BY <3>2, <3>5 DEF Digests
    <3> QED BY <2>2, <3>2, <3>4, <3>5, <3>6, <3>7
  <2> QED BY <1>3, <2>1, <2>2 DEF Run
<1>4. CASE RunWorker(a)
  <2>1. pc[a] \in Launching /\ Run(a, "worker", "runHead")
    BY <1>4 DEF RunWorker, At, Launching
  <2>2. CASE Ends(a) /\ image' = image
    BY <2>2, EndsEarly
  <2>3. CASE ~(Ends(a) /\ image' = image)
    <3>1. /\ Goes(a, "runHead") /\ (image["worker"] # NoImage => image' = image)
          /\ image'["head"] = image["head"] /\ Digests'
          /\ cont'["worker"].run = inv[a].run /\ cont'["worker"].image = Content(image'["worker"])
      BY <1>3, <2>1, <2>3
    <3>2. Starter(a)' /\ pc'[a] = "runHead" /\ inv' = inv
      BY <3>1, OthersStay DEF Goes
    <3>3. Provided(a)'
      BY <2>1, <3>1, <3>2 DEF Provided, SameImage, Launching
    <3>4. Launched(a)'
      BY <3>1, <3>2 DEF Launched, Own
    <3> QED BY <3>1, <3>2, <3>3, <3>4
  <2> QED BY <2>2, <2>3
<1>5. CASE RunHead(a)
  <2>1. pc[a] = "runHead" /\ Run(a, "head", "wait")
    BY <1>5 DEF RunHead, At
  <2>2. CASE Ends(a) /\ image' = image
    BY <2>2, EndsEarly
  <2>3. CASE ~(Ends(a) /\ image' = image)
    <3>1. /\ Goes(a, "wait") /\ image' = image /\ cont'["worker"] = cont["worker"]
          /\ cont'["head"].run = inv[a].run /\ cont'["head"].image = Content(image'["head"])
      BY <1>3, <2>1, <2>3 DEF Launching, Provided
    <3>2. Starter(a)' /\ Digests' /\ Provided(a)' /\ pc'[a] = "wait" /\ inv' = inv
      BY <1>1, <2>1, <3>1 DEF Launching
    <3>3. Launched(a)'
      BY <2>1, <3>1, <3>2 DEF Launched, Own
    <3> QED BY <3>2, <3>3
  <2> QED BY <2>2, <2>3
<1>6. CASE WorkerSeen(a) \/ WorkerMissed(a)
  <2>1. CASE Ends(a) /\ image' = image
    BY <2>1, EndsEarly
  <2>2. CASE ~Ends(a)
    <3>1. pc[a] = "wait" /\ Goes(a, "wait") /\ image' = image /\ cont' = cont
      BY <1>6, <2>2 DEF WorkerSeen, WorkerMissed, Waits, At
    <3>2. Starter(a)' /\ Digests' /\ Provided(a)' /\ pc'[a] = "wait" /\ inv' = inv
      BY <1>1, <3>1 DEF Launching
    <3>3. Launched(a)'
      BY <3>1, <3>2 DEF Launched, Own
    <3> QED BY <3>2, <3>3
  <2> QED BY <1>6, <2>1, <2>2 DEF WorkerSeen, WorkerMissed
<1> QED BY <1>2, <1>4, <1>5, <1>6

\* A step of the terminal that starts.
LEMMA OwnStep ==
  ASSUME TypeOK, NEW a \in Shells, Starter(a), Digests, Provided(a), Launched(a),
         Invoke(a) \/ Step(a) \/ CommandFails(a) \/ Interrupt(a)
  PROVE  Starter(a)' /\ Digests' /\ Provided(a)' /\ Launched(a)'
<1>1. CASE Invoke(a)
  <2>1. PICK c, k :
          /\ inv' = [inv EXCEPT ![a] = [run |-> runs + 1, cmd |-> c, knob |-> k]]
          /\ pc' = [pc EXCEPT ![a] = IF c = "start" THEN "preflight" ELSE "stopHead"]
    BY <1>1 DEF Invoke
  <2> DEFINE st == IF c = "start" THEN "preflight" ELSE "stopHead"
             v == [run |-> runs + 1, cmd |-> c, knob |-> k]
  <2>2. st \in {"preflight", "stopHead"} /\ pc' = [pc EXCEPT ![a] = st] /\ inv' = [inv EXCEPT ![a] = v]
    BY <2>1
  <2> HIDE DEF st, v
  <2> QED BY <1>1, <2>2, Early DEF Invoke
<1>2. CASE StopHead(a)
  BY <1>2, Early DEF StopHead, Goes
<1>3. CASE StopWorker(a)
  BY <1>3, Early, EndsEarly DEF StopWorker, Goes
<1>4. CASE Preflight(a)
  BY <1>4, Early, EndsEarly DEF Preflight, Goes, Dies
<1>5. CASE Up(a) \/ HeadExited(a) \/ TimedOut(a) \/ CommandFails(a) \/ Interrupt(a)
  BY <1>5, EndsEarly DEF Up, HeadExited, TimedOut, CommandFails, Interrupt, Dies
<1>6. CASE ImageHead(a)
  BY <1>6, HeadProvided
<1>7. CASE ImageWorker(a)
  BY <1>7, WorkerProvided
<1>8. CASE RmHead(a) \/ RmWorker(a) \/ RunWorker(a) \/ RunHead(a) \/ WorkerSeen(a) \/ WorkerMissed(a)
  BY <1>8, LaunchStep
<1> QED BY <1>1, <1>2, <1>3, <1>4, <1>5, <1>6, <1>7, <1>8 DEF Step

----------------------------------------------------------------------------

LEMMA Initially ==
  ASSUME NEW a \in Shells, Init
  PROVE  IInv(a)
<1>1. TypeOK
  BY InitType
<1>2. Numbered /\ Starter(a) /\ Digests /\ Provided(a) /\ Launched(a)
  BY DEF Init, Numbered, Starter, NoInv, Digests, NoImage, Provided, Launched, Launching
<1> QED BY <1>1, <1>2 DEF IInv

LEMMA Stays ==
  ASSUME NEW a \in Shells, OnlyStops(a), IInv(a), [Next]_vars
  PROVE  IInv(a)'
<1> USE DEF IInv
<1>1. TypeOK' /\ Numbered'
  BY TypeStep, NumberedStep
<1>2. ASSUME NEW s \in Shells, Invoke(s) \/ Step(s) \/ CommandFails(s) \/ Interrupt(s)
      PROVE  Starter(a)' /\ Digests' /\ Provided(a)' /\ Launched(a)'
  <2>1. CASE s = a
    BY <1>2, <2>1, OwnStep
  <2>2. CASE s # a
    BY <1>2, <2>2, OtherTerminal, AsideKeeps
  <2> QED BY <2>1, <2>2
<1>3. CASE \/ \E n \in Nodes : Boot(n) \/ RankExits(n)
           \/ Rendezvous \/ GitPull \/ Publish \/ UNCHANGED vars
  BY <1>1, <1>3, World, AsideKeeps
<1> QED BY <1>1, <1>2, <1>3 DEF Next

\* What comes up is of one launch and runs one image, if that was asked for.
LEMMA UpIsSound ==
  ASSUME NEW a \in Shells, IInv(a), NEW s \in Shells, Up(s)
  PROVE  /\ cont["head"].run = inv[s].run
         /\ cont["worker"].run \in {0, inv[s].run}
         /\ ~inv[s].knob.skipShip /\ cont["worker"] # NoCont
              => cont["worker"].image = cont["head"].image
<1>1. pc[s] = "wait" /\ cont["head"].st = "serving"
  BY DEF Up, Waits, At
<1>2. s = a
  BY <1>1 DEF IInv, Starter
<1>3. Own(a, "head") /\ Own(a, "worker") /\ cont["head"] # NoCont
  BY <1>1, <1>2 DEF IInv, Launched, NoCont
<1>4. ~inv[s].knob.skipShip => SameImage
  BY <1>1, <1>2 DEF IInv, Provided, Launching
<1>5. NoCont.run = 0
  BY DEF NoCont
<1> QED BY <1>2, <1>3, <1>4, <1>5 DEF Own, SameImage

\* Every variable keeps its type, whoever starts and however often.
THEOREM TypeCorrect == Spec => []TypeOK
<1>1. Init => TypeOK /\ Numbered
  BY InitType DEF Init, Numbered
<1>2. TypeOK /\ Numbered /\ [Next]_vars => (TypeOK /\ Numbered)'
  BY TypeStep, NumberedStep
<1> QED BY <1>1, <1>2, PTL DEF Spec

\* With one terminal that starts and any number that stop, /health is never
\* answered by, nor computed with, a rank of an earlier launch: after any
\* interrupted starts, failed `docker rm -f` and exits of a rank.
THEOREM WhatIsUpWasLaunched ==
  ASSUME NEW a \in Shells, OnlyStops(a)
  PROVE  Spec => UpIsThisLaunch
<1>1. Init => IInv(a)
  BY Initially
<1>2. IInv(a) /\ [Next]_vars => IInv(a)'
  BY Stays
<1>3. IInv(a) /\ [Next]_vars =>
        [\A s \in Shells : Up(s) => /\ cont["head"].run = inv[s].run
                                    /\ cont["worker"].run \in {0, inv[s].run}]_vars
  BY UpIsSound
<1> QED BY <1>1, <1>2, <1>3, PTL DEF Spec, UpIsThisLaunch

\* Then too both ranks of what came up run one image, unless SKIP_SHIP=1:
\* however the registry and the checkout move, and whatever was pulled,
\* built or shipped before.
THEOREM RanksShareImage ==
  ASSUME NEW a \in Shells, OnlyStops(a)
  PROVE  Spec => UpRanksShareImage
<1>1. Init => IInv(a)
  BY Initially
<1>2. IInv(a) /\ [Next]_vars => IInv(a)'
  BY Stays
<1>3. IInv(a) /\ [Next]_vars =>
        [\A s \in Shells :
           Up(s) /\ ~inv[s].knob.skipShip /\ cont["worker"] # NoCont
             => cont["worker"].image = cont["head"].image]_vars
  BY UpIsSound
<1> QED BY <1>1, <1>2, <1>3, PTL DEF Spec, UpRanksShareImage

----------------------------------------------------------------------------
(* The weights that start.sh launches (WeightStore).  For any number of    *)
(* shards, starts, and crashes: with one commit per repository, what is    *)
(* launched has all its shards on both nodes.                              *)
(*                                                                         *)
(* The argument.  With one commit the count of shards says that the        *)
(* snapshot is complete (CountIsComplete), so nothing is synced before it  *)
(* is.  A marker is written only when everything on the head has been      *)
(* copied, so it promises all shards on the worker (Marked); no step takes *)
(* a file away from either node.                                           *)

\* The files of snapshot r are where the step of the start needs them.
HeadReady(r) ==
  stage \in {"sync", "rsync", "resolve", "up"} => Shards \subseteq head[repo][r]

WorkerReady(r) == stage \in {"resolve", "up"} => Shards \subseteq worker[repo][r]

\* A marker promises all shards.
Marked(r) == \A p \in Store!Repos : marker[p] # None => Shards \subseteq worker[p][r]

\* A snapshot with a file is one that `ls -1t` lists.
Listed(r) == \A p \in Store!Repos : head[p][r] # {} => newest[p] # None

StoreInv(r) ==
  /\ Store!TypeOK /\ Listed(r)
  /\ HeadReady(r) /\ WorkerReady(r) /\ Marked(r)
  /\ stage = "up" => ref[repo] = r

\* WeightStore counts as this module does.
LEMMA StoreCounts == \A S : Store!Cardinality(S) = Cardinality(S) /\ (Store!IsFiniteSet(S) <=> IsFiniteSet(S))
BY DEF Store!Cardinality, Cardinality, Store!IsFiniteSet, IsFiniteSet

\* With one commit, as many shards as a commit has are all of them.
LEMMA CountIsComplete ==
  ASSUME NEW r, Revs = {r}, NEW p, Store!Complete(p)
  PROVE  Shards \subseteq head[p][r]
<1> DEFINE T == {x \in Revs \X Shards : x[2] \in head[p][x[1]]}
<1>1. IsFiniteSet(Revs) /\ Cardinality(Revs) = 1
  BY FS_Singleton
<1>2. /\ IsFiniteSet(Revs \X Shards)
      /\ Cardinality(Revs \X Shards) = Cardinality(Revs) * Cardinality(Shards)
  <2>1. IsFiniteSet(Shards)
    BY StoreCounts, WeightStoreAssumption DEF Store!StoreConstants
  <2> QED BY <1>1, <2>1, FS_Product
<1>3. Cardinality(Shards) \in Nat
  <2>1. IsFiniteSet(Shards)
    BY StoreCounts, WeightStoreAssumption DEF Store!StoreConstants
  <2> QED BY <2>1, FS_CardinalityType
<1>4. Cardinality(Revs \X Shards) = Cardinality(Shards)
  BY <1>1, <1>2, <1>3
<1>5. T \in SUBSET (Revs \X Shards)
  OBVIOUS
<1>6. /\ IsFiniteSet(T) /\ Cardinality(T) <= Cardinality(Revs \X Shards)
      /\ Cardinality(Revs \X Shards) = Cardinality(T) => Revs \X Shards = T
  BY <1>2, <1>5, FS_Subset
<1>7. Cardinality(T) \in Nat
  BY <1>6, FS_CardinalityType
<1>8. Cardinality(T) >= Cardinality(Shards)
  BY StoreCounts DEF Store!Complete, Store!Count
<1>9. Revs \X Shards = T
  BY <1>3, <1>4, <1>6, <1>7, <1>8
<1>10. ASSUME NEW s \in Shards PROVE s \in head[p][r]
  <2>1. <<r, s>> \in T
    BY <1>9
  <2> QED BY <2>1
<1> QED BY <1>10

LEMMA StoreInitially ==
  ASSUME NEW r, Revs = {r}, Store!Init
  PROVE  StoreInv(r)
BY WeightStoreAssumption DEF Store!StoreConstants, Store!Init, StoreInv, Store!TypeOK, Listed, HeadReady, WorkerReady, Marked, Store!Choices, Store!Repos

\* Adopting leaves a repository complete and its refs/main naming r.
LEMMA Adopted ==
  ASSUME NEW r, Revs = {r}, StoreInv(r), NEW p \in Store!Repos, Store!Adopts(p),
         UNCHANGED <<knob, Store!copy, rev, starts>>
  PROVE  StoreInv(r)'
<1> USE DEF StoreInv
<1>1. Shards \subseteq head[p][r]
  BY CountIsComplete DEF Store!Adopts
<1>2. /\ stage' = "sync" /\ repo' = p /\ head' = head /\ newest' = newest
      /\ worker' = worker /\ marker' = marker /\ knob' = knob /\ rev' = rev /\ starts' = starts
      /\ Store!RefMain(p) # None /\ ref' = [ref EXCEPT ![p] = Store!RefMain(p)]
  BY DEF Store!Adopts, Store!WriteRef, Store!copy
<1>3. Store!RefMain(p) \in Revs /\ head[p][Store!RefMain(p)] # {}
  BY <1>2 DEF Store!RefMain, Store!TypeOK
<1>4. Store!TypeOK'
  <2>1. ref' \in [Store!Repos -> Revs \cup {None}]
    BY <1>2, <1>3 DEF Store!TypeOK
  <2>2. \A q \in Store!Repos : ref'[q] # None => head[q][ref'[q]] # {}
    <3>1. \A q \in Store!Repos : ref'[q] = IF q = p THEN Store!RefMain(p) ELSE ref[q]
      BY <1>2 DEF Store!TypeOK
    <3>2. \A q \in Store!Repos : ref[q] # None => head[q][ref[q]] # {}
      BY DEF Store!TypeOK
    <3> QED BY <1>3, <3>1, <3>2
  <2>3. UNCHANGED <<knob, worker, newest, marker, rev, starts, head>> /\ stage' = "sync" /\ repo' = p
    BY <1>2
  <2> QED BY <2>1, <2>2, <2>3 DEF Store!TypeOK
<1> QED BY <1>1, <1>2, <1>4 DEF Listed, HeadReady, WorkerReady, Marked

\* No step breaks the invariant.
LEMMA StoreStays ==
  ASSUME NEW r, Revs = {r}, Skips = {FALSE}, StoreInv(r), [Store!Next]_(Store!vars)
  PROVE  StoreInv(r)'
<1> USE DEF StoreInv
<1> r # None /\ Config \notin Shards
  BY WeightStoreAssumption DEF Store!StoreConstants
<1>1. CASE Store!Begin
  <2>1. ~knob'.skip /\ knob' \in Store!Choices
    BY <1>1 DEF Store!Begin, Store!Choices
  <2>2. stage' \in {"fetch", "check"}
    BY <1>1, <2>1 DEF Store!Begin
  <2>3. /\ repo' = Primary /\ starts < MaxStarts /\ starts' = starts + 1 /\ rev' = rev
        /\ head' = head /\ newest' = newest /\ ref' = ref /\ worker' = worker /\ marker' = marker
    BY <1>1 DEF Store!Begin, Store!cache, Store!copy
  <2>4. starts' \in 0..MaxStarts
    BY <2>3, WeightStoreAssumption DEF Store!StoreConstants, Store!TypeOK
  <2>5. Store!TypeOK'
    BY <2>1, <2>2, <2>3, <2>4 DEF Store!TypeOK, Store!Repos
  <2> QED BY <2>2, <2>3, <2>5 DEF Listed, HeadReady, WorkerReady, Marked
<1>2. CASE Store!Check
  <2>1. CASE \E p \in Store!Repos : Store!Adopts(p)
    BY <1>2, <2>1, Adopted DEF Store!Check
  <2>2. CASE Store!AdoptsNone /\ stage' = "fetch" /\ UNCHANGED <<repo, Store!cache>>
    BY <1>2, <2>2 DEF Store!Check, Store!cache, Store!copy, Store!TypeOK, Listed, HeadReady, WorkerReady, Marked
  <2> QED BY <1>2, <2>1, <2>2 DEF Store!Check
<1>3. ASSUME NEW p \in Store!Repos, NEW f \in Store!Files, Store!Fetch(p, r, f),
             UNCHANGED <<stage, knob, repo, Store!copy, rev, starts>>,
             stage \in {"fetch", "fallback"},
             ref' = ref \/ (p = Fallback /\ ref' = [ref EXCEPT ![p] = r])
      PROVE  StoreInv(r)'
  <2>1. /\ head' = [head EXCEPT ![p] = [head[p] EXCEPT ![r] = head[p][r] \cup {f}]]
        /\ newest' = [newest EXCEPT ![p] = r]
        /\ worker' = worker /\ marker' = marker /\ stage' = stage /\ knob' = knob /\ repo' = repo
        /\ rev' = rev /\ starts' = starts
    BY <1>3 DEF Store!Fetch, Store!copy
  <2>2. head' \in [Store!Repos -> [Revs -> SUBSET Store!Files]]
    <3>1. head \in [Store!Repos -> [Revs -> SUBSET Store!Files]] /\ head[p] \in [Revs -> SUBSET Store!Files]
      BY DEF Store!TypeOK
    <3>2. head[p][r] \cup {f} \in SUBSET Store!Files
      BY <3>1
    <3>3. [head[p] EXCEPT ![r] = head[p][r] \cup {f}] \in [Revs -> SUBSET Store!Files]
      BY <3>1, <3>2
    <3> QED BY <2>1, <3>1, <3>3
  <2>3. newest' \in [Store!Repos -> Revs \cup {None}] /\ ref' \in [Store!Repos -> Revs \cup {None}]
    BY <1>3, <2>1 DEF Store!TypeOK
  <2>4. \A q \in Store!Repos : head'[q][r] = IF q = p THEN head[q][r] \cup {f} ELSE head[q][r]
    BY <2>1 DEF Store!TypeOK
  <2>5. \A q \in Store!Repos :
          /\ \A x \in Revs : worker'[q][x] \subseteq head'[q][x]
          /\ newest'[q] # None => head'[q][newest'[q]] # {}
          /\ ref'[q] # None => head'[q][ref'[q]] # {}
    <3>1. /\ worker \in [Store!Repos -> [Revs -> SUBSET Store!Files]] /\ newest \in [Store!Repos -> Revs \cup {None}]
          /\ ref \in [Store!Repos -> Revs \cup {None}]
      BY DEF Store!TypeOK
    <3>2. \A q \in Store!Repos : head[q][r] \subseteq head'[q][r] /\ head'[p][r] # {}
      BY <2>4
    <3>3. \A q \in Store!Repos : \A x \in Revs : worker'[q][x] \subseteq head'[q][x]
      BY <2>1, <3>2 DEF Store!TypeOK
    <3>4. \A q \in Store!Repos : newest[q] # None => head'[q][r] # {}
      BY <3>1, <3>2 DEF Store!TypeOK
    <3>5. \A q \in Store!Repos : newest'[q] = IF q = p THEN r ELSE newest[q]
      BY <2>1, <3>1
    <3>6. \A q \in Store!Repos : newest'[q] # None => head'[q][newest'[q]] # {}
      BY <2>3, <3>2, <3>4, <3>5
    <3>7. \A q \in Store!Repos : ref'[q] # None => head'[q][r] # {}
      <4>1. \A q \in Store!Repos : ref[q] = r \/ ref[q] = None
        BY <3>1
      <4>2. \A q \in Store!Repos : ref[q] # None => head[q][ref[q]] # {}
        BY DEF Store!TypeOK
      <4>3. \A q \in Store!Repos : ref[q] # None => head'[q][r] # {}
        BY <3>2, <4>1, <4>2
      <4>4. \A q \in Store!Repos : ref'[q] # ref[q] => q = p
        BY <1>3, <3>1
      <4> QED BY <3>2, <4>3, <4>4
    <3>8. \A q \in Store!Repos : ref'[q] # None => head'[q][ref'[q]] # {}
      <4>1. \A q \in Store!Repos : ref'[q] \in Revs \cup {None}
        BY <2>3, Zenon
      <4>2. \A q \in Store!Repos : ref'[q] = r \/ ref'[q] = None
        BY <4>1
      <4> QED BY <3>7, <4>2, Zenon
    <3> QED BY <3>3, <3>6, <3>8
  <2>6. Store!TypeOK'
    <3>1. stage' = stage /\ knob' = knob /\ repo' = repo /\ rev' = rev /\ starts' = starts
      BY <2>1
    <3>2. worker' \in [Store!Repos -> [Revs -> SUBSET Store!Files]] /\ marker' \in [Store!Repos -> Revs \cup {None}]
      BY <2>1 DEF Store!TypeOK
    <3> QED BY <3>1, <3>2, <2>2, <2>3, <2>5 DEF Store!TypeOK
  <2>7. Listed(r)'
    BY <2>1, <2>4 DEF Store!TypeOK, Listed
  <2> QED BY <1>3, <2>1, <2>6, <2>7 DEF HeadReady, WorkerReady, Marked
<1>4. CASE Store!FetchPrimary
  <2>1. knob.pin = r
    BY DEF Store!TypeOK, Store!Choices
  <2> QED BY <1>3, <1>4, <2>1 DEF Store!FetchPrimary, Store!Repos
<1>5. CASE Store!FetchPrimaryEnds
  <2>1. CASE \E p \in Store!Repos : Store!Adopts(p)
    BY <1>5, <2>1, Adopted DEF Store!FetchPrimaryEnds
  <2>2. CASE Store!AdoptsNone /\ stage' \in {"fallback", "idle"} /\ UNCHANGED <<repo, Store!cache>>
    BY <1>5, <2>2 DEF Store!FetchPrimaryEnds, Store!cache, Store!copy, Store!TypeOK, Listed, HeadReady, WorkerReady, Marked
  <2> QED BY <1>5, <2>1, <2>2 DEF Store!FetchPrimaryEnds
<1>6. CASE Store!FetchFallback
  <2>1. FallbackMain = r
    BY WeightStoreAssumption DEF Store!StoreConstants
  <2> QED BY <1>3, <1>6, <2>1 DEF Store!FetchFallback, Store!Repos
<1>7. CASE Store!FetchFallbackEnds
  BY <1>7, Adopted DEF Store!FetchFallbackEnds
<1>8. CASE Store!Sync
  <2>1. /\ head[repo][r] # {} /\ repo \in Store!Repos
        /\ rev' = Store!RefMain(repo) /\ stage = "sync"
        /\ knob' = knob /\ repo' = repo /\ head' = head /\ newest' = newest /\ ref' = ref
        /\ worker' = worker /\ marker' = marker /\ starts' = starts
    BY <1>8 DEF Store!Sync, Store!cache, Store!copy, Store!TypeOK
  <2>2. Store!RefMain(repo) # None /\ Store!RefMain(repo) \in Revs
    BY <2>1 DEF Store!RefMain, Listed, Store!TypeOK
  <2>3. \/ stage' = "rsync"
        \/ stage' = "resolve" /\ marker[repo] # None
    BY <1>8, <2>2 DEF Store!Sync
  <2>4. Store!TypeOK'
    BY <2>1, <2>2, <2>3 DEF Store!TypeOK
  <2> QED BY <2>1, <2>3, <2>4 DEF Listed, HeadReady, WorkerReady, Marked
<1>9. CASE Store!RsyncFile
  <2>1. PICK f \in head[repo][r] \ worker[repo][r] :
             worker' = [worker EXCEPT ![repo] = [worker[repo] EXCEPT ![r] = worker[repo][r] \cup {f}]]
    BY <1>9 DEF Store!RsyncFile
  <2>2. /\ stage = "rsync" /\ stage' = stage /\ knob' = knob /\ repo' = repo /\ head' = head
        /\ newest' = newest /\ ref' = ref /\ marker' = marker /\ rev' = rev /\ starts' = starts
    BY <1>9 DEF Store!RsyncFile, Store!cache
  <2>3. f \in Store!Files /\ repo \in Store!Repos
    BY <2>1 DEF Store!TypeOK
  <2>4. worker' \in [Store!Repos -> [Revs -> SUBSET Store!Files]]
    <3>1. worker \in [Store!Repos -> [Revs -> SUBSET Store!Files]] /\ worker[repo] \in [Revs -> SUBSET Store!Files]
      BY <2>3 DEF Store!TypeOK
    <3>2. worker[repo][r] \cup {f} \in SUBSET Store!Files
      BY <2>3, <3>1
    <3>3. [worker[repo] EXCEPT ![r] = worker[repo][r] \cup {f}] \in [Revs -> SUBSET Store!Files]
      BY <3>1, <3>2
    <3> QED BY <2>1, <3>1, <3>3
  <2>5. \A q \in Store!Repos : worker[q][r] \subseteq worker'[q][r] /\ worker'[q][r] \subseteq head[q][r]
    BY <2>1, <2>3 DEF Store!TypeOK
  <2>6. Store!TypeOK'
    BY <2>2, <2>4, <2>5 DEF Store!TypeOK
  <2> QED BY <2>2, <2>5, <2>6 DEF Listed, HeadReady, WorkerReady, Marked
<1>10. CASE Store!WriteMarker
  <2>1. /\ stage = "rsync" /\ stage' = "resolve" /\ marker' = [marker EXCEPT ![repo] = rev]
        /\ knob' = knob /\ repo' = repo /\ head' = head /\ newest' = newest /\ ref' = ref
        /\ worker' = worker /\ rev' = rev /\ starts' = starts
        /\ head[repo][r] \subseteq worker[repo][r]
    BY <1>10 DEF Store!WriteMarker, Store!Rsynced, Store!cache
  <2>2. Shards \subseteq worker[repo][r]
    BY <2>1 DEF HeadReady
  <2>3. marker' \in [Store!Repos -> Revs \cup {None}]
    BY <2>1 DEF Store!TypeOK
  <2>4. Store!TypeOK'
    <3>1. /\ stage' \in {"resolve"} /\ knob' \in Store!Choices /\ repo' \in Store!Repos
          /\ starts' \in 0..MaxStarts /\ rev' \in Revs \cup {None}
      BY <2>1 DEF Store!TypeOK
    <3>0. /\ head \in [Store!Repos -> [Revs -> SUBSET Store!Files]]
          /\ worker \in [Store!Repos -> [Revs -> SUBSET Store!Files]]
          /\ newest \in [Store!Repos -> Revs \cup {None}] /\ ref \in [Store!Repos -> Revs \cup {None}]
          /\ marker \in [Store!Repos -> Revs \cup {None}]
      BY DEF Store!TypeOK
    <3>2. /\ {head', worker'} \subseteq [Store!Repos -> [Revs -> SUBSET Store!Files]]
          /\ {newest', ref', marker'} \subseteq [Store!Repos -> Revs \cup {None}]
      BY <2>1, <2>3, <3>0
    <3> QED BY <2>1, <3>1, <3>2 DEF Store!TypeOK
  <2> QED BY <2>1, <2>2, <2>4 DEF Listed, HeadReady, WorkerReady, Marked, Store!TypeOK
<1>11. CASE Store!Resolve
  <2>1. /\ stage = "resolve" /\ stage' \in {"up", "idle"} /\ Store!RefMain(repo) # None
        /\ ref' = [ref EXCEPT ![repo] = Store!RefMain(repo)]
        /\ knob' = knob /\ repo' = repo /\ head' = head /\ newest' = newest
        /\ worker' = worker /\ marker' = marker /\ rev' = rev /\ starts' = starts
    BY <1>11 DEF Store!Resolve, Store!WriteRef, Store!copy
  <2>2. Store!RefMain(repo) = r /\ head[repo][r] # {} /\ repo \in Store!Repos
    BY <2>1 DEF Store!RefMain, Store!TypeOK
  <2>3. ref' \in [Store!Repos -> Revs \cup {None}] /\ ref'[repo] = r
    BY <2>1, <2>2 DEF Store!TypeOK
  <2>4. Store!TypeOK'
    <3>1. /\ knob' \in Store!Choices /\ repo' \in Store!Repos
          /\ starts' \in 0..MaxStarts /\ rev' \in Revs \cup {None}
      BY <2>1 DEF Store!TypeOK
    <3>0. /\ head \in [Store!Repos -> [Revs -> SUBSET Store!Files]]
          /\ worker \in [Store!Repos -> [Revs -> SUBSET Store!Files]]
          /\ newest \in [Store!Repos -> Revs \cup {None}] /\ ref \in [Store!Repos -> Revs \cup {None}]
          /\ marker \in [Store!Repos -> Revs \cup {None}]
      BY DEF Store!TypeOK
    <3>2. /\ {head', worker'} \subseteq [Store!Repos -> [Revs -> SUBSET Store!Files]]
          /\ {newest', ref', marker'} \subseteq [Store!Repos -> Revs \cup {None}]
      BY <2>1, <2>3, <3>0
    <3>3. \A p \in Store!Repos : ref'[p] # None => head'[p][ref'[p]] # {}
      <4>1. \A p \in Store!Repos : ref'[p] = IF p = repo THEN r ELSE ref[p]
        BY <2>1, <2>2 DEF Store!TypeOK
      <4>2. \A p \in Store!Repos : ref[p] # None => head[p][ref[p]] # {}
        BY DEF Store!TypeOK
      <4> QED BY <2>1, <2>2, <4>1, <4>2
    <3> QED BY <2>1, <3>1, <3>2, <3>3 DEF Store!TypeOK
  <2> QED BY <2>1, <2>3, <2>4 DEF Listed, HeadReady, WorkerReady, Marked
<1>12. CASE Store!End
  BY <1>12 DEF Store!End, Store!cache, Store!copy, Store!TypeOK, Listed, HeadReady, WorkerReady, Marked
<1>13. CASE UNCHANGED Store!vars
  BY <1>13 DEF Store!vars, Store!cache, Store!copy, Store!TypeOK, Listed, HeadReady, WorkerReady, Marked
<1> QED
  BY <1>1, <1>2, <1>4, <1>5, <1>6, <1>7, <1>8, <1>9, <1>10, <1>11, <1>12, <1>13 DEF Store!Next

\* With one commit per repository and downloads that are not skipped, a
\* start that comes up finds every shard of what it loads on both nodes,
\* after any history of interrupted downloads and syncs.
THEOREM LaunchedWeightsAreWhole ==
  ASSUME NEW r, Revs = {r}, Skips = {FALSE}
  PROVE  WeightsSpec => []LaunchHasAllShards
<1>1. Store!Init => StoreInv(r)
  BY StoreInitially
<1>2. StoreInv(r) /\ [Store!Next /\ UNCHANGED vars]_<<vars, weights>> => StoreInv(r)'
  <2>1. [Store!Next /\ UNCHANGED vars]_<<vars, weights>> => [Store!Next]_(Store!vars)
    BY DEF weights, Store!vars, Store!cache, Store!copy
  <2> QED BY <2>1, StoreStays
<1>3. StoreInv(r) => LaunchHasAllShards
  BY DEF StoreInv, LaunchHasAllShards, Store!LaunchHasAllShards, HeadReady, WorkerReady
<1> QED BY <1>1, <1>2, <1>3, PTL DEF WeightsSpec

----------------------------------------------------------------------------
(* The overlays that each rank installs before it serves (OverlayBoot).    *)
(* For every image, environment and number of deaths: a rank that serves   *)
(* has all it asked for, and only a truncated file makes a boot refuse.    *)
(*                                                                         *)
(* The argument.  A file that no death truncated is whole: each fragment   *)
(* that one write lays is there or is not (Sound), since what is still to  *)
(* be written completes what it belongs to (Fits).  On such files every    *)
(* installer either leaves its text alone or lays what is missing, and an  *)
(* installer behind the current one has what it needs (Installed), helpers *)
(* included; the installers that share a helper rely on the order of the   *)
(* start script for it.  One lemma per installer says so of its decision   *)
(* (Apt), and one per step that the decision is carried out.               *)

\* What the overlays need is there, or in a file that a death truncated.
Met(p, s) == text[s] \in {"new", "up"} \/ (p \in MarkerOnly /\ FileOf(s) \in torn)

\* A file that was never truncated is as its writers left it.
Sound == \A f \in File \ torn : parses[f] /\ Intact(f, text)

\* What is still to be written completes what it belongs to.
Fits(f, new) == \A w \in Fragments[f] :
  w.own \cap new # {} => \A s \in w.full : s \in new \/ text[s] # "old"

\* What the current installer needs is there or about to be written.
Pending == /\ \A f \in staged \ torn : Fits(f, todo)
           /\ staged # {} => \A s \in Needs[AllScripts[at]] :
                Met(AllScripts[at], s) \/ (s \in todo /\ \E f \in staged : s \in SitesOf(f))

\* Behind the current installer everything is in place.
Installed == \A i \in 1..(at - 1) : \A s \in Needs[AllScripts[i]] : Met(AllScripts[i], s)

\* The busy-wait is never other than what the environment asks for.
SpinIsWanted == Wanted = "new" \/ (text["spin"] # "new" /\ "spin" \notin todo)

AllForms == {"old", "new", "up", "keep", "compact", "unpadded", "gone"}

BootTypes ==
  /\ text \in [Site -> AllForms] /\ parses \in [File -> BOOLEAN]
  /\ env \in [role : Roles, indexer : BOOLEAN, adaptive : BOOLEAN, retention : BOOLEAN,
              fine : BOOLEAN, sparse : BOOLEAN, spin : STRING]
  /\ at \in 1..21 /\ todo \subseteq Site /\ staged \subseteq File /\ torn \subseteq File
  /\ deaths \in Nat
  /\ phase \in {"boot", "refused", "down", "serving"}
  /\ staged # {} => at <= 20 /\ phase = "boot"

\* The inductive invariant of a boot.
BootInv ==
  /\ BootTypes /\ Sound /\ Pending /\ Installed /\ SpinIsWanted
  /\ phase = "refused" => torn # {}
  /\ phase = "serving" => at = 21

\* The files, and the sites of each.
LEMMA FilesAre == File = {"kpool", "detokenizer", "scheduler", "cudagraph", "kv_utils", "coordinator", "stats", "manager", "loggers", "sampling", "request", "block_pool", "xgrammar", "structured", "api_server", "server_utils", "block_table", "broadcast", "indexer", "model", "mtp"}
BY DEF File, Layout

\* The sites of each, as Layout lists them.
LEMMA SitesAre ==
  /\ SitesOf("kpool") = {"topk"}
  /\ SitesOf("detokenizer") = {"sr_import", "sr_factory", "sr_init", "sr_stop"}
  /\ SitesOf("scheduler") = {"os", "df_helper", "al_helper", "ak_helper", "al_split", "df_running", "df_waiting", "alloc_exit", "admit", "sched_k", "ak_observe", "ak_update"}
  /\ SitesOf("cudagraph") = {"cg_helper", "cg_lens"}
  /\ SitesOf("kv_utils") = {"dg_edits", "dg_group", "dg_guard"}
  /\ SitesOf("coordinator") = {"co_os", "inner", "draft", "rt_helper", "hy_eagle", "rt_init", "rt_base", "fg_veto", "fg_diag", "hy_log", "rt_hybrid", "hy_min"}
  /\ SitesOf("stats") = {"sm_stats"}
  /\ SitesOf("manager") = {"sm_manager"}
  /\ SitesOf("loggers") = {"sm_counter", "sm_record"}
  /\ SitesOf("sampling") = {"ns_field", "ns_helpers", "ns_post"}
  /\ SitesOf("request") = {"ns_resolve", "ns_method"}
  /\ SitesOf("block_pool") = {"ns_log", "ns_full", "ns_partial"}
  /\ SitesOf("xgrammar") = {"xg_accept", "xg_validate", "xg_reset"}
  /\ SitesOf("structured") = {"xg_manager"}
  /\ SitesOf("api_server") = {"cr_mount"}
  /\ SitesOf("server_utils") = {"au_prefix", "au_check"}
  /\ SitesOf("block_table") = {"kp_clamp"}
  /\ SitesOf("broadcast") = {"spin"}
  /\ SitesOf("indexer") = {"iw_import", "iw_size", "iw_guard"}
  /\ SitesOf("model") = {"ab_model"}
  /\ SitesOf("mtp") = {"ab_mtp"}
<1>1. SitesOf("kpool") = {"topk"}
  <2>1. Layout["kpool"] = <<"topk">>
    BY DEF Layout
  <2> QED BY <2>1 DEF SitesOf
<1>2. SitesOf("detokenizer") = {"sr_import", "sr_factory", "sr_init", "sr_stop"}
  <2>1. Layout["detokenizer"] = <<"sr_import", "sr_factory", "sr_init", "sr_stop">>
    BY DEF Layout
  <2> QED BY <2>1 DEF SitesOf
<1>3. SitesOf("scheduler") = {"os", "df_helper", "al_helper", "ak_helper", "al_split", "df_running", "df_waiting", "alloc_exit", "admit", "sched_k", "ak_observe", "ak_update"}
  <2>1. Layout["scheduler"] = <<"os", "df_helper", "al_helper", "ak_helper", "al_split", "df_running", "df_waiting", "alloc_exit", "admit", "sched_k", "ak_observe", "ak_update">>
    BY DEF Layout
  <2> QED BY <2>1 DEF SitesOf
<1>4. SitesOf("cudagraph") = {"cg_helper", "cg_lens"}
  <2>1. Layout["cudagraph"] = <<"cg_helper", "cg_lens">>
    BY DEF Layout
  <2> QED BY <2>1 DEF SitesOf
<1>5. SitesOf("kv_utils") = {"dg_edits", "dg_group", "dg_guard"}
  <2>1. Layout["kv_utils"] = <<"dg_edits", "dg_group", "dg_guard">>
    BY DEF Layout
  <2> QED BY <2>1 DEF SitesOf
<1>6. SitesOf("coordinator") = {"co_os", "inner", "draft", "rt_helper", "hy_eagle", "rt_init", "rt_base", "fg_veto", "fg_diag", "hy_log", "rt_hybrid", "hy_min"}
  <2>1. Layout["coordinator"] = <<"co_os", "inner", "draft", "rt_helper", "hy_eagle", "rt_init", "rt_base", "fg_veto", "fg_diag", "hy_log", "rt_hybrid", "hy_min">>
    BY DEF Layout
  <2> QED BY <2>1 DEF SitesOf
<1>7. SitesOf("stats") = {"sm_stats"}
  <2>1. Layout["stats"] = <<"sm_stats">>
    BY DEF Layout
  <2> QED BY <2>1 DEF SitesOf
<1>8. SitesOf("manager") = {"sm_manager"}
  <2>1. Layout["manager"] = <<"sm_manager">>
    BY DEF Layout
  <2> QED BY <2>1 DEF SitesOf
<1>9. SitesOf("loggers") = {"sm_counter", "sm_record"}
  <2>1. Layout["loggers"] = <<"sm_counter", "sm_record">>
    BY DEF Layout
  <2> QED BY <2>1 DEF SitesOf
<1>10. SitesOf("sampling") = {"ns_field", "ns_helpers", "ns_post"}
  <2>1. Layout["sampling"] = <<"ns_field", "ns_helpers", "ns_post">>
    BY DEF Layout
  <2> QED BY <2>1 DEF SitesOf
<1>11. SitesOf("request") = {"ns_resolve", "ns_method"}
  <2>1. Layout["request"] = <<"ns_resolve", "ns_method">>
    BY DEF Layout
  <2> QED BY <2>1 DEF SitesOf
<1>12. SitesOf("block_pool") = {"ns_log", "ns_full", "ns_partial"}
  <2>1. Layout["block_pool"] = <<"ns_log", "ns_full", "ns_partial">>
    BY DEF Layout
  <2> QED BY <2>1 DEF SitesOf
<1>13. SitesOf("xgrammar") = {"xg_accept", "xg_validate", "xg_reset"}
  <2>1. Layout["xgrammar"] = <<"xg_accept", "xg_validate", "xg_reset">>
    BY DEF Layout
  <2> QED BY <2>1 DEF SitesOf
<1>14. SitesOf("structured") = {"xg_manager"}
  <2>1. Layout["structured"] = <<"xg_manager">>
    BY DEF Layout
  <2> QED BY <2>1 DEF SitesOf
<1>15. SitesOf("api_server") = {"cr_mount"}
  <2>1. Layout["api_server"] = <<"cr_mount">>
    BY DEF Layout
  <2> QED BY <2>1 DEF SitesOf
<1>16. SitesOf("server_utils") = {"au_prefix", "au_check"}
  <2>1. Layout["server_utils"] = <<"au_prefix", "au_check">>
    BY DEF Layout
  <2> QED BY <2>1 DEF SitesOf
<1>17. SitesOf("block_table") = {"kp_clamp"}
  <2>1. Layout["block_table"] = <<"kp_clamp">>
    BY DEF Layout
  <2> QED BY <2>1 DEF SitesOf
<1>18. SitesOf("broadcast") = {"spin"}
  <2>1. Layout["broadcast"] = <<"spin">>
    BY DEF Layout
  <2> QED BY <2>1 DEF SitesOf
<1>19. SitesOf("indexer") = {"iw_import", "iw_size", "iw_guard"}
  <2>1. Layout["indexer"] = <<"iw_import", "iw_size", "iw_guard">>
    BY DEF Layout
  <2> QED BY <2>1 DEF SitesOf
<1>20. SitesOf("model") = {"ab_model"}
  <2>1. Layout["model"] = <<"ab_model">>
    BY DEF Layout
  <2> QED BY <2>1 DEF SitesOf
<1>21. SitesOf("mtp") = {"ab_mtp"}
  <2>1. Layout["mtp"] = <<"ab_mtp">>
    BY DEF Layout
  <2> QED BY <2>1 DEF SitesOf
<1> QED BY <1>1, <1>2, <1>3, <1>4, <1>5, <1>6, <1>7, <1>8, <1>9, <1>10, <1>11, <1>12, <1>13, <1>14, <1>15, <1>16, <1>17, <1>18, <1>19, <1>20, <1>21

\* No two files have a site in common.
LEMMA SitesApart ==
  ASSUME NEW f \in File, NEW g \in File, NEW s \in SitesOf(f) \cap SitesOf(g)
  PROVE  f = g
BY FilesAre, SitesAre

\* FileOf names the file a site is in.
LEMMA FileOfIs ==
  ASSUME NEW f \in File, NEW s \in SitesOf(f)
  PROVE  FileOf(s) = f
BY SitesApart DEF FileOf

\* The fields of Fragments, Verdict and Needs, and the script, one by one.
LEMMA FragmentsAre ==
  /\ Fragments["kpool"] = {}
  /\ Fragments["detokenizer"] = {Whole(SR)}
  /\ Fragments["scheduler"] = {Fragment(DF \cup {"df_helper"}, DF \cup {"os", "df_helper"}),
                                Fragment(AL, AL \cup {"os"}), Fragment(AK, AK \cup {"os"})}
  /\ Fragments["cudagraph"] = {Whole(CG)}
  /\ Fragments["kv_utils"] = {Whole(DG)}
  /\ Fragments["coordinator"] = {Whole({"inner", "draft"}), Fragment(HY, HY \cup {"inner", "draft"}),
                                  Fragment(RT, RT \cup {"inner", "draft"}), Whole(FG)}
  /\ Fragments["stats"] = {}
  /\ Fragments["manager"] = {}
  /\ Fragments["loggers"] = {Whole(SitesOf("loggers"))}
  /\ Fragments["sampling"] = {Whole(SitesOf("sampling"))}
  /\ Fragments["request"] = {Whole(SitesOf("request"))}
  /\ Fragments["block_pool"] = {Whole(SitesOf("block_pool"))}
  /\ Fragments["xgrammar"] = {Whole(SitesOf("xgrammar"))}
  /\ Fragments["structured"] = {}
  /\ Fragments["api_server"] = {}
  /\ Fragments["server_utils"] = {Whole(AU)}
  /\ Fragments["block_table"] = {}
  /\ Fragments["broadcast"] = {}
  /\ Fragments["indexer"] = {Whole(SitesOf("indexer"))}
  /\ Fragments["model"] = {}
  /\ Fragments["mtp"] = {}
BY DEF Fragments

LEMMA VerdictIs ==
  /\ Verdict["video"] = Video
  /\ Verdict["suppress_stops"] = SuppressStops
  /\ Verdict["decode_floor"] = DecodeFloor
  /\ Verdict["align_floor"] = AlignFloor
  /\ Verdict["adaptive_sched"] = AdaptiveScheduler
  /\ Verdict["adaptive_graph"] = AdaptiveGraph
  /\ Verdict["drafter_group"] = DrafterGroup
  /\ Verdict["hybrid"] = HybridPrefixHit
  /\ Verdict["retention"] = Retention
  /\ Verdict["fine_grained"] = FineGrained
  /\ Verdict["sparse_miss"] = SparseMiss
  /\ Verdict["no_store"] = NoStore
  /\ Verdict["xgrammar"] = Xgrammar
  /\ Verdict["cache_reset"] = CacheReset
  /\ Verdict["auth"] = AuthAllRoutes
  /\ Verdict["kpool_tail"] = KpoolTail
  /\ Verdict["spinwait"] = Spinwait
  /\ Verdict["indexer"] = IndexerWorkspace
  /\ Verdict["ablit_model"] = Ablit("ab_model")
  /\ Verdict["ablit_mtp"] = Ablit("ab_mtp")
BY DEF Verdict

LEMMA NeedsAre ==
  /\ Needs["video"] = {"topk"}
  /\ Needs["suppress_stops"] = SR
  /\ Needs["decode_floor"] = {"os", "df_helper"} \cup DF
  /\ Needs["align_floor"] = {"os"} \cup AL
  /\ Needs["adaptive_sched"] = IF env.adaptive THEN {"os"} \cup AK ELSE {}
  /\ Needs["adaptive_graph"] = IF env.adaptive THEN CG ELSE {}
  /\ Needs["drafter_group"] = DG
  /\ Needs["hybrid"] = {"inner", "draft"} \cup HY
  /\ Needs["retention"] = IF env.retention THEN {"inner", "draft"} \cup RT ELSE {}
  /\ Needs["fine_grained"] = IF env.fine THEN FG ELSE {}
  /\ Needs["sparse_miss"] = IF env.sparse THEN {"sm_stats", "sm_manager", "sm_counter", "sm_record"} ELSE {}
  /\ Needs["no_store"] = UNION {SitesOf(f) : f \in NoStoreFiles}
  /\ Needs["xgrammar"] = SitesOf("xgrammar") \cup {"xg_manager"}
  /\ Needs["cache_reset"] = {"cr_mount"}
  /\ Needs["auth"] = IF env.role = "head" THEN AU ELSE {}
  /\ Needs["kpool_tail"] = {"kp_clamp"}
  /\ Needs["spinwait"] = IF Wanted = "new" THEN {"spin"} ELSE {}
  /\ Needs["indexer"] = IF env.indexer THEN SitesOf("indexer") ELSE {}
  /\ Needs["ablit_model"] = {"ab_model"}
  /\ Needs["ablit_mtp"] = {"ab_mtp"}
BY DEF Needs

LEMMA ScriptIs ==
  /\ Len(AllScripts) = 20 /\ DOMAIN AllScripts = 1..20
  /\ AllScripts[1] = "video"
  /\ AllScripts[2] = "suppress_stops"
  /\ AllScripts[3] = "decode_floor"
  /\ AllScripts[4] = "align_floor"
  /\ AllScripts[5] = "adaptive_sched"
  /\ AllScripts[6] = "adaptive_graph"
  /\ AllScripts[7] = "drafter_group"
  /\ AllScripts[8] = "hybrid"
  /\ AllScripts[9] = "retention"
  /\ AllScripts[10] = "fine_grained"
  /\ AllScripts[11] = "sparse_miss"
  /\ AllScripts[12] = "no_store"
  /\ AllScripts[13] = "xgrammar"
  /\ AllScripts[14] = "cache_reset"
  /\ AllScripts[15] = "auth"
  /\ AllScripts[16] = "kpool_tail"
  /\ AllScripts[17] = "spinwait"
  /\ AllScripts[18] = "indexer"
  /\ AllScripts[19] = "ablit_model"
  /\ AllScripts[20] = "ablit_mtp"
BY DEF AllScripts

\* A fragment is within its file.
LEMMA FragmentsIn ==
  ASSUME NEW f \in File, NEW w \in Fragments[f]
  PROVE  w.own \subseteq SitesOf(f) /\ w.full \subseteq SitesOf(f)
BY FilesAre, SitesAre, FragmentsAre DEF Whole, Fragment, SR, DF, AL, AK, CG, DG, HY, RT, FG, AU


----------------------------------------------------------------------------

\* A decision that keeps the invariant, refused only over a truncated file.
Apt(p, v) ==
  /\ v.new \subseteq Site /\ (v.ok \/ v.new = {})
  /\ torn = {} => v.ok
  /\ v.ok => \A s \in Needs[p] : Met(p, s) \/ s \in v.new
  /\ \A f \in File \ torn : Fits(f, v.new)
  /\ "spin" \in v.new => Wanted = "new"

\* The fields of a fragment.
LEMMA FragmentIs ==
  /\ \A A, B : Fragment(A, B).own = A /\ Fragment(A, B).full = B
  /\ \A S : Whole(S).own = S /\ Whole(S).full = S
BY DEF Fragment, Whole

\* Most sites have two forms.
LEMMA FormsAre ==
  ASSUME NEW s \in Site
  PROVE  /\ "gone" \notin Forms(s)
         /\ s \notin SitesOf("xgrammar") \cup {"xg_manager", "dg_group", "dg_guard"} => Forms(s) = {"old", "new"}
BY DEF Forms

\* What the invariant says of a file that was never truncated.
LEMMA Untorn ==
  ASSUME BootInv, NEW f \in File, f \notin torn
  PROVE  /\ parses[f]
         /\ \A s \in SitesOf(f) : text[s] \in Forms(s) /\ text[s] # "gone"
         /\ \A w \in Fragments[f] : (\E s \in w.own : text[s] # "old") => \A s \in w.full : text[s] # "old"
BY FormsAre DEF BootInv, Sound, Intact, Site

\* Sites of other files complete nothing here.
LEMMA FitsElsewhere ==
  ASSUME NEW f \in File, NEW S, S \cap SitesOf(f) = {}
  PROVE  Fits(f, S)
BY FragmentsIn DEF Fits

\* Nothing written, nothing missing.
LEMMA LeaveFits ==
  ASSUME NEW f \in File
  PROVE  Fits(f, Leave.new) /\ Fits(f, Refuse.new)
BY FitsElsewhere DEF Leave, Refuse

\* Sites of one file, laid as its fragments want them.
LEMMA FitsOne ==
  ASSUME NEW g \in File, NEW S, S \subseteq SitesOf(g), g \notin torn => Fits(g, S)
  PROVE  \A f \in File \ torn : Fits(f, S)
BY FitsElsewhere, SitesApart

\* The sites of a file are sites.
LEMMA InSite == \A f \in File : SitesOf(f) \subseteq Site
BY DEF Site

\* A fragment that is written as a whole.
LEMMA WholeFits ==
  ASSUME NEW f \in File, Fragments[f] = {Whole(SitesOf(f))}
  PROVE  \A g \in File \ torn : Fits(g, SitesOf(f))
<1>1. Fits(f, SitesOf(f))
  BY FragmentIs DEF Fits
<1> QED BY <1>1, FitsOne

\* patch_glm_video_placeholders.py: one site, its own marker.
LEMMA VideoApt ==
  ASSUME BootInv PROVE Apt("video", Video)
<1>1. torn = {} => text["topk"] \in {"old", "new"}
  BY FilesAre, SitesAre DEF BootInv, Sound, Intact, Forms
<1>2. \A f \in File \ torn : Fits(f, {"topk"})
  BY FitsOne, FilesAre, SitesAre, FragmentsAre DEF Fits
<1> QED
  BY <1>1, <1>2, LeaveFits, InSite, FilesAre, SitesAre, NeedsAre
  DEF Apt, Video, Installer, New, Old, Leave, Refuse, Patch, Met

\* patch_suppress_stops_in_reasoning.py: any marker stands for all four sites.
LEMMA SuppressStopsApt ==
  ASSUME BootInv PROVE Apt("suppress_stops", SuppressStops)
<1> DEFINE f == "detokenizer"
<1>1. /\ f \in File /\ SitesOf(f) = SR /\ Fragments[f] = {Whole(SR)}
      /\ SR = {"sr_import", "sr_factory", "sr_init", "sr_stop"}
  BY FilesAre, SitesAre, FragmentsAre DEF SR
<1>2. \A s \in SR : s \in Site /\ Forms(s) = {"old", "new"}
  BY <1>1, InSite, FormsAre, SitesAre
<1>3. f \notin torn =>
        /\ \A s \in SR : text[s] \in {"old", "new"}
        /\ (\E s \in SR : text[s] # "old") => \A s \in SR : text[s] # "old"
  BY <1>1, <1>2, Untorn, FragmentIs
<1>4. \A g \in File \ torn : Fits(g, SR)
  BY <1>1, WholeFits
<1> QED
  BY <1>1, <1>2, <1>3, <1>4, LeaveFits, NeedsAre, FileOfIs
  DEF Apt, SuppressStops, Installer, Carries, New, Old, Leave, Refuse, Patch, Met, MarkerOnly

\* The file that three overlays share.
LEMMA SchedulerIs ==
  LET f == "scheduler"
      S == {"os", "df_helper", "al_helper", "ak_helper", "al_split", "df_running", "df_waiting",
            "alloc_exit", "admit", "sched_k", "ak_observe", "ak_update"} IN
  /\ f \in File /\ SitesOf(f) = S /\ S \subseteq Site
  /\ Fragments[f] = {Fragment(DF \cup {"df_helper"}, DF \cup {"os", "df_helper"}),
                     Fragment(AL, AL \cup {"os"}), Fragment(AK, AK \cup {"os"})}
  /\ \A s \in S : Forms(s) = {"old", "new"} /\ FileOf(s) = f
<1>1. /\ "scheduler" \in File
      /\ SitesOf("scheduler") = {"os", "df_helper", "al_helper", "ak_helper", "al_split", "df_running", "df_waiting",
            "alloc_exit", "admit", "sched_k", "ak_observe", "ak_update"}
  BY FilesAre, SitesAre
<1>2. SitesOf("scheduler") \subseteq Site
  BY <1>1, InSite
<1>3. \A s \in SitesOf("scheduler") : Forms(s) = {"old", "new"}
  BY <1>1, <1>2, FormsAre, SitesAre
<1>4. \A s \in SitesOf("scheduler") : FileOf(s) = "scheduler"
  BY <1>1, FileOfIs
<1> QED BY <1>1, <1>2, <1>3, <1>4, FragmentsAre

\* The fragments of the scheduler, in a file that was never truncated.
LEMMA SchedulerWhole ==
  ASSUME BootInv, "scheduler" \notin torn
  PROVE  /\ parses["scheduler"]
         /\ \A s \in SitesOf("scheduler") : text[s] \in {"old", "new"}
         /\ (\E s \in DF \cup {"df_helper"} : text[s] # "old") => \A s \in DF \cup {"os", "df_helper"} : text[s] # "old"
         /\ (\E s \in AL : text[s] # "old") => \A s \in AL \cup {"os"} : text[s] # "old"
         /\ (\E s \in AK : text[s] # "old") => \A s \in AK \cup {"os"} : text[s] # "old"
<1>1. parses["scheduler"] /\ \A s \in SitesOf("scheduler") : text[s] \in {"old", "new"}
  BY SchedulerIs, Untorn
<1>2. \A w \in Fragments["scheduler"] : (\E s \in w.own : text[s] # "old") => \A s \in w.full : text[s] # "old"
  BY SchedulerIs, Untorn
<1> DEFINE d == Fragment(DF \cup {"df_helper"}, DF \cup {"os", "df_helper"})
           a == Fragment(AL, AL \cup {"os"})
           k == Fragment(AK, AK \cup {"os"})
<1>3. {d, a, k} \subseteq Fragments["scheduler"]
  BY SchedulerIs
<1>4. (\E s \in d.own : text[s] # "old") => \A s \in d.full : text[s] # "old"
  BY <1>2, <1>3
<1>5. (\E s \in a.own : text[s] # "old") => \A s \in a.full : text[s] # "old"
  BY <1>2, <1>3
<1>6. (\E s \in k.own : text[s] # "old") => \A s \in k.full : text[s] # "old"
  BY <1>2, <1>3
<1> QED BY <1>1, <1>4, <1>5, <1>6, FragmentIs

\* What the three scheduler overlays write is whole.
LEMMA SchedulerFits ==
  ASSUME NEW S, \/ S = {"os", "df_helper"} \cup DF
                \/ S = AL \cup {"os"}
                \/ S = AK /\ text["os"] = "new"
  PROVE  S \subseteq Site /\ \A f \in File \ torn : Fits(f, S)
<1>1. S \subseteq SitesOf("scheduler")
  BY SchedulerIs DEF DF, AL, AK
<1>2. Fits("scheduler", S)
  <2>1. SUFFICES ASSUME NEW w \in Fragments["scheduler"], w.own \cap S # {}, NEW s \in w.full
                 PROVE  s \in S \/ text[s] # "old"
    BY DEF Fits
  <2>2. CASE w = Fragment(DF \cup {"df_helper"}, DF \cup {"os", "df_helper"})
    BY <2>1, <2>2, FragmentIs DEF DF, AL, AK
  <2>3. CASE w = Fragment(AL, AL \cup {"os"})
    BY <2>1, <2>3, FragmentIs DEF DF, AL, AK
  <2>4. CASE w = Fragment(AK, AK \cup {"os"})
    BY <2>1, <2>4, FragmentIs DEF DF, AL, AK
  <2> QED BY <2>2, <2>3, <2>4, SchedulerIs
<1> QED BY <1>1, <1>2, SchedulerIs, FitsOne

\* patch_scheduler_decode_floor.py: its marker stands for its helpers too.
LEMMA DecodeFloorApt ==
  ASSUME BootInv PROVE Apt("decode_floor", DecodeFloor)
<1>1. DF \cup {"os", "df_helper"} \subseteq SitesOf("scheduler") /\ DF # {}
  BY SchedulerIs DEF DF
<1> QED
  BY <1>1, SchedulerIs, SchedulerWhole, SchedulerFits, LeaveFits, NeedsAre
  DEF Apt, DecodeFloor, Installer, Carries, Old, Present, Leave, Refuse, Patch, Met, MarkerOnly, DF

\* patch_align_floor.py: a marked text is checked site by site.
LEMMA AlignFloorApt ==
  ASSUME BootInv PROVE Apt("align_floor", AlignFloor)
<1>1. AL \cup {"os"} \subseteq SitesOf("scheduler")
  BY SchedulerIs DEF AL
<1> QED
  BY <1>1, SchedulerIs, SchedulerWhole, SchedulerFits, LeaveFits, NeedsAre
  DEF Apt, AlignFloor, Installer, Carries, New, Old, Present, Leave, Refuse, Patch, Met, AL

\* `import os` is there: align_floor ran before.
LEMMA AdaptiveSchedulerApt ==
  ASSUME BootInv, at = 5 PROVE Apt("adaptive_sched", AdaptiveScheduler)
<1>1. AK \cup {"os", "sched_k"} \subseteq SitesOf("scheduler")
  BY SchedulerIs DEF AK
<1>2. torn = {} => text["os"] = "new"
  <2>1. 4 \in 1..(at - 1) /\ AllScripts[4] = "align_floor" /\ "os" \in Needs["align_floor"]
    BY ScriptIs, NeedsAre
  <2>2. Met("align_floor", "os")
    BY <2>1 DEF BootInv, Installed
  <2> QED BY <1>1, <2>2, SchedulerIs, SchedulerWhole DEF Met, MarkerOnly
<1> QED
  BY <1>1, <1>2, SchedulerIs, SchedulerWhole, SchedulerFits, LeaveFits, NeedsAre
  DEF Apt, AdaptiveScheduler, Installer, Carries, New, Old, Present, Leave, Refuse, Patch, Met, AK

\* patch_adaptive_k.py, the graph sizes: both sites or none.
LEMMA AdaptiveGraphApt ==
  ASSUME BootInv PROVE Apt("adaptive_graph", AdaptiveGraph)
<1> DEFINE f == "cudagraph"
<1>1. f \in File /\ SitesOf(f) = CG /\ Fragments[f] = {Whole(CG)} /\ CG = {"cg_helper", "cg_lens"}
  BY FilesAre, SitesAre, FragmentsAre DEF CG
<1>2. \A s \in CG : s \in Site /\ Forms(s) = {"old", "new"}
  BY <1>1, InSite, FormsAre, SitesAre
<1>3. f \notin torn =>
        /\ parses[f]
        /\ \A s \in CG : text[s] \in {"old", "new"}
        /\ (\E s \in CG : text[s] # "old") => \A s \in CG : text[s] # "old"
  BY <1>1, <1>2, Untorn, FragmentIs
<1>4. \A g \in File \ torn : Fits(g, CG)
  BY <1>1, WholeFits
<1> QED
  BY <1>1, <1>2, <1>3, <1>4, LeaveFits, NeedsAre
  DEF Apt, AdaptiveGraph, Installer, Carries, New, Old, Leave, Refuse, Patch, Met

\* patch_glm5_drafter_group.py: an older layout or guard is brought up, whichever
\* is there.
LEMMA DrafterGroupApt ==
  ASSUME BootInv PROVE Apt("drafter_group", DrafterGroup)
<1> DEFINE f == "kv_utils"
<1>1. f \in File /\ SitesOf(f) = DG /\ Fragments[f] = {Whole(DG)} /\ DG = {"dg_edits", "dg_group", "dg_guard"}
  BY FilesAre, SitesAre, FragmentsAre DEF DG
<1>2. DG \subseteq Site /\ \A s \in DG : FileOf(s) = f
  BY <1>1, InSite, FileOfIs
<1>3. /\ Forms("dg_edits") = {"old", "new"} /\ Forms("dg_group") = {"old", "new", "keep", "compact"}
      /\ Forms("dg_guard") = {"old", "new", "unpadded"}
  BY SitesAre DEF Forms
<1>4. f \notin torn =>
        /\ parses[f]
        /\ text["dg_edits"] \in {"old", "new"} /\ text["dg_group"] \in {"old", "new", "keep", "compact"}
        /\ text["dg_guard"] \in {"old", "new", "unpadded"}
        /\ (\E s \in DG : text[s] # "old") => \A s \in DG : text[s] # "old"
  BY <1>1, <1>3, Untorn, FragmentIs
<1> DEFINE guard == IF text["dg_guard"] = "unpadded" THEN {"dg_guard"} ELSE {}
           group == IF text["dg_group"] \in {"keep", "compact"} THEN {"dg_group"} ELSE {}
<1>5. \A g \in File \ torn : Fits(g, DG)
  BY <1>1, WholeFits
<1>6. \A g \in File \ torn : Fits(g, guard \cup group)
  <2>1. f \notin torn => Fits(f, guard \cup group)
    <3>1. f \notin torn /\ guard \cup group # {} => \A s \in DG : text[s] # "old"
      BY <1>1, <1>4
    <3> QED BY <1>1, <3>1, FragmentIs DEF Fits
  <2>2. guard \cup group \subseteq DG
    BY <1>1
  <2> QED BY <1>1, <2>1, <2>2, FitsOne
<1>7. CASE ~New({"dg_edits"})
  <2>1. DrafterGroup = Installer(FALSE, FALSE, Old(DG) /\ parses[f], DG)
    BY <1>7 DEF DrafterGroup
  <2> QED
    BY <1>1, <1>2, <1>4, <1>5, <1>7, <2>1, LeaveFits, NeedsAre
    DEF Apt, Installer, New, Old, Leave, Refuse, Patch, Met, MarkerOnly
<1>8. CASE New({"dg_edits"}) /\ (\/ guard \cup group # {} /\ ~parses[f]
                                 \/ group = {} /\ ~New({"dg_group"}))
  <2>1. DrafterGroup = Refuse
    BY <1>8 DEF DrafterGroup
  <2>2. f \in torn
    BY <1>1, <1>4, <1>8 DEF New
  <2> QED BY <2>1, <2>2, LeaveFits DEF Apt, Refuse
<1>9. CASE New({"dg_edits"}) /\ ~(guard \cup group # {} /\ ~parses[f]) /\ ~(group = {} /\ ~New({"dg_group"}))
  <2>1. DrafterGroup = Patch(guard \cup group)
    BY <1>9 DEF DrafterGroup
  <2>2. \A s \in DG : Met("drafter_group", s) \/ s \in guard \cup group
    <3>1. CASE f \in torn
      BY <1>2, <3>1 DEF Met, MarkerOnly
    <3>2. CASE f \notin torn
      BY <1>1, <1>4, <1>9, <3>2 DEF Met, New
    <3> QED BY <3>1, <3>2
  <2> QED
    BY <1>1, <1>2, <1>6, <2>1, <2>2, NeedsAre DEF Apt, Patch
<1> QED BY <1>7, <1>8, <1>9

----------------------------------------------------------------------------

\* The file of the three cache coordinator overlays.
LEMMA CoordinatorIs ==
  LET f == "coordinator"
      S == {"co_os", "inner", "draft", "rt_helper", "hy_eagle", "rt_init", "rt_base", "fg_veto",
            "fg_diag", "hy_log", "rt_hybrid", "hy_min"} IN
  /\ f \in File /\ SitesOf(f) = S /\ S \subseteq Site
  /\ Fragments[f] = {Whole({"inner", "draft"}), Fragment(HY, HY \cup {"inner", "draft"}),
                     Fragment(RT, RT \cup {"inner", "draft"}), Whole(FG)}
  /\ \A s \in S : Forms(s) = {"old", "new"} /\ FileOf(s) = f
<1>1. /\ "coordinator" \in File
      /\ SitesOf("coordinator") = {"co_os", "inner", "draft", "rt_helper", "hy_eagle", "rt_init", "rt_base", "fg_veto",
            "fg_diag", "hy_log", "rt_hybrid", "hy_min"}
  BY FilesAre, SitesAre
<1>2. SitesOf("coordinator") \subseteq Site
  BY <1>1, InSite
<1>3. \A s \in SitesOf("coordinator") : Forms(s) = {"old", "new"}
  BY <1>1, <1>2, FormsAre, SitesAre
<1>4. \A s \in SitesOf("coordinator") : FileOf(s) = "coordinator"
  BY <1>1, FileOfIs
<1> QED BY <1>1, <1>2, <1>3, <1>4, FragmentsAre

\* Its fragments, in a file that was never truncated.
LEMMA CoordinatorWhole ==
  ASSUME BootInv, "coordinator" \notin torn
  PROVE  /\ parses["coordinator"]
         /\ \A s \in SitesOf("coordinator") : text[s] \in {"old", "new"}
         /\ text["inner"] # "old" <=> text["draft"] # "old"
         /\ (\E s \in HY : text[s] # "old") => \A s \in HY \cup {"inner", "draft"} : text[s] # "old"
         /\ (\E s \in RT : text[s] # "old") => \A s \in RT \cup {"inner", "draft"} : text[s] # "old"
         /\ (\E s \in FG : text[s] # "old") => \A s \in FG : text[s] # "old"
<1>1. parses["coordinator"] /\ \A s \in SitesOf("coordinator") : text[s] \in {"old", "new"}
  BY CoordinatorIs, Untorn
<1>2. \A w \in Fragments["coordinator"] : (\E s \in w.own : text[s] # "old") => \A s \in w.full : text[s] # "old"
  BY CoordinatorIs, Untorn
<1> DEFINE i == Whole({"inner", "draft"})
           h == Fragment(HY, HY \cup {"inner", "draft"})
           r == Fragment(RT, RT \cup {"inner", "draft"})
           g == Whole(FG)
<1>3. {i, h, r, g} \subseteq Fragments["coordinator"]
  BY CoordinatorIs
<1>4. (\E s \in i.own : text[s] # "old") => \A s \in i.full : text[s] # "old"
  BY <1>2, <1>3
<1>5. (\E s \in h.own : text[s] # "old") => \A s \in h.full : text[s] # "old"
  BY <1>2, <1>3
<1>6. (\E s \in r.own : text[s] # "old") => \A s \in r.full : text[s] # "old"
  BY <1>2, <1>3
<1>7. (\E s \in g.own : text[s] # "old") => \A s \in g.full : text[s] # "old"
  BY <1>2, <1>3
<1> QED BY <1>1, <1>4, <1>5, <1>6, <1>7, FragmentIs

\* What the three coordinator overlays write is whole.
LEMMA CoordinatorFits ==
  ASSUME NEW S, \/ S \in {HY, RT, FG} /\ ("coordinator" \notin torn => text["inner"] # "old" /\ text["draft"] # "old")
                \/ S \in {HY \cup {"inner", "draft"}, RT \cup {"inner", "draft"}}
                \/ S = FG \cup {"inner"} /\ "coordinator" \in torn
  PROVE  S \subseteq Site /\ \A f \in File \ torn : Fits(f, S)
<1>1. S \subseteq SitesOf("coordinator")
  BY CoordinatorIs DEF HY, RT, FG
<1>2. "coordinator" \notin torn => Fits("coordinator", S)
  <2>1. SUFFICES ASSUME "coordinator" \notin torn,
                        NEW w \in Fragments["coordinator"], w.own \cap S # {}, NEW s \in w.full
                 PROVE  s \in S \/ text[s] # "old"
    BY DEF Fits
  <2>2. CASE w = Whole({"inner", "draft"})
    BY <2>1, <2>2, FragmentIs DEF HY, RT, FG
  <2>3. CASE w = Fragment(HY, HY \cup {"inner", "draft"})
    BY <2>1, <2>3, FragmentIs DEF HY, RT, FG
  <2>4. CASE w = Fragment(RT, RT \cup {"inner", "draft"})
    BY <2>1, <2>4, FragmentIs DEF HY, RT, FG
  <2>5. CASE w = Whole(FG)
    BY <2>1, <2>5, FragmentIs DEF HY, RT, FG
  <2> QED BY <2>2, <2>3, <2>4, <2>5, CoordinatorIs
<1> QED BY <1>1, <1>2, CoordinatorIs, FitsOne

\* patch_hybrid_prefix_hit.py: writes the shared helper when it is not there.
LEMMA HybridPrefixHitApt ==
  ASSUME BootInv PROVE Apt("hybrid", HybridPrefixHit)
<1>1. HY \cup {"inner", "draft"} \subseteq SitesOf("coordinator") /\ HY # {}
  BY CoordinatorIs DEF HY
<1> DEFINE S == HY \cup Shared({"inner", "draft"})
<1>2. S \subseteq Site /\ \A f \in File \ torn : Fits(f, S)
  <2>1. S = IF text["inner"] = "old" THEN HY \cup {"inner", "draft"} ELSE HY
    BY DEF Shared, Old
  <2> QED BY <2>1, CoordinatorWhole, CoordinatorFits
<1>3. "coordinator" \notin torn => \A s \in {"inner", "draft"} : s \in S \/ text[s] = "new"
  BY <1>1, CoordinatorWhole DEF Shared, Old
<1>4. CASE Carries(HY)
  <2>1. HybridPrefixHit = Leave
    BY <1>4 DEF HybridPrefixHit, Installer
  <2>2. \A s \in HY \cup {"inner", "draft"} : Met("hybrid", s)
    BY <1>1, <1>4, CoordinatorIs, CoordinatorWhole DEF Carries, Met, MarkerOnly
  <2> QED BY <2>1, <2>2, LeaveFits, NeedsAre DEF Apt, Leave
<1>5. CASE ~Carries(HY)
  <2>1. HybridPrefixHit = IF Present("inner") /\ Old(HY) THEN Patch(S) ELSE Refuse
    BY <1>5 DEF HybridPrefixHit, Installer
  <2>2. "coordinator" \notin torn => Present("inner") /\ Old(HY)
    BY <1>1, <1>5, CoordinatorIs, CoordinatorWhole DEF Carries, Old, Present
  <2>3. \A s \in HY \cup {"inner", "draft"} : Met("hybrid", s) \/ s \in S
    BY <1>1, <1>3, CoordinatorIs DEF Met, MarkerOnly
  <2>4. "spin" \notin S
    BY <1>1, CoordinatorIs DEF Shared
  <2>5. Needs["hybrid"] = HY \cup {"inner", "draft"}
    BY NeedsAre
  <2> QED BY <1>2, <2>1, <2>2, <2>3, <2>4, <2>5, LeaveFits DEF Apt, Patch, Refuse
<1> QED BY <1>4, <1>5

\* patch_apc_per_group_retention.py: the same, when the environment asks for it.
LEMMA RetentionApt ==
  ASSUME BootInv PROVE Apt("retention", Retention)
<1>1. RT \cup {"inner", "draft"} \subseteq SitesOf("coordinator") /\ RT # {}
  BY CoordinatorIs DEF RT
<1> DEFINE S == RT \cup Shared({"inner", "draft"})
<1>2. S \subseteq Site /\ \A f \in File \ torn : Fits(f, S)
  <2>1. S = IF text["inner"] = "old" THEN RT \cup {"inner", "draft"} ELSE RT
    BY DEF Shared, Old
  <2> QED BY <2>1, CoordinatorWhole, CoordinatorFits
<1>3. "coordinator" \notin torn => \A s \in {"inner", "draft"} : s \in S \/ text[s] = "new"
  BY <1>1, CoordinatorWhole DEF Shared, Old
<1>4. CASE ~env.retention
  BY <1>4, LeaveFits, NeedsAre DEF Apt, Retention, Leave
<1>5. CASE env.retention /\ Carries(RT)
  <2>1. Retention = Leave
    BY <1>5 DEF Retention, Installer
  <2>2. \A s \in RT \cup {"inner", "draft"} : Met("retention", s)
    BY <1>1, <1>5, CoordinatorIs, CoordinatorWhole DEF Carries, Met, MarkerOnly
  <2> QED BY <1>5, <2>1, <2>2, LeaveFits, NeedsAre DEF Apt, Leave
<1>6. CASE env.retention /\ ~Carries(RT)
  <2>1. Retention = IF Present("inner") /\ Old(RT) THEN Patch(S) ELSE Refuse
    BY <1>6 DEF Retention, Installer
  <2>2. "coordinator" \notin torn => Present("inner") /\ Old(RT)
    BY <1>1, <1>6, CoordinatorIs, CoordinatorWhole DEF Carries, Old, Present
  <2>3. \A s \in RT \cup {"inner", "draft"} : Met("retention", s) \/ s \in S
    BY <1>1, <1>3, CoordinatorIs DEF Met, MarkerOnly
  <2>4. "spin" \notin S
    BY <1>1, CoordinatorIs DEF Shared
  <2>5. Needs["retention"] = RT \cup {"inner", "draft"}
    BY <1>6, NeedsAre
  <2> QED BY <1>2, <2>1, <2>2, <2>3, <2>4, <2>5, LeaveFits DEF Apt, Patch, Refuse
<1> QED BY <1>4, <1>5, <1>6

\* The shared helper is whole: the hybrid overlay ran before.
LEMMA FineGrainedApt ==
  ASSUME BootInv, at = 10 PROVE Apt("fine_grained", FineGrained)
<1>1. FG \cup {"inner", "draft"} \subseteq SitesOf("coordinator") /\ FG # {}
  BY CoordinatorIs DEF FG
<1>2. "coordinator" \notin torn => text["inner"] = "new" /\ text["draft"] = "new"
  <2>1. 8 \in 1..(at - 1) /\ AllScripts[8] = "hybrid" /\ {"inner", "draft"} \subseteq Needs["hybrid"]
    BY ScriptIs, NeedsAre
  <2>2. Met("hybrid", "inner") /\ Met("hybrid", "draft")
    BY <2>1 DEF BootInv, Installed
  <2> QED BY <1>1, <2>2, CoordinatorIs, CoordinatorWhole DEF Met
<1> DEFINE S == FG \cup Shared({"inner"})
<1>3. S \subseteq Site /\ \A f \in File \ torn : Fits(f, S)
  <2>1. S = IF text["inner"] = "old" THEN FG \cup {"inner"} ELSE FG
    BY DEF Shared, Old
  <2> QED BY <1>2, <2>1, CoordinatorFits
<1>4. CASE ~env.fine
  BY <1>4, LeaveFits, NeedsAre DEF Apt, FineGrained, Leave
<1>5. CASE env.fine /\ Carries(FG)
  <2>1. FineGrained = IF New(FG) /\ parses["coordinator"] THEN Leave ELSE Refuse
    BY <1>5 DEF FineGrained, Installer
  <2>2. "coordinator" \notin torn => New(FG) /\ parses["coordinator"]
    BY <1>1, <1>5, CoordinatorWhole DEF Carries, New
  <2> QED BY <1>5, <2>1, <2>2, LeaveFits, NeedsAre, CoordinatorIs DEF Apt, Leave, Refuse, New, Met
<1>6. CASE env.fine /\ ~Carries(FG)
  <2>1. FineGrained = IF Present("inner") /\ Old(FG) /\ parses["coordinator"] THEN Patch(S) ELSE Refuse
    BY <1>6 DEF FineGrained, Installer
  <2>2. "coordinator" \notin torn => Present("inner") /\ Old(FG) /\ parses["coordinator"]
    BY <1>1, <1>6, CoordinatorWhole DEF Carries, Old, Present
  <2>4. "spin" \notin S
    BY <1>1, CoordinatorIs DEF Shared
  <2>5. Needs["fine_grained"] = FG
    BY <1>6, NeedsAre
  <2> QED BY <1>3, <2>1, <2>2, <2>4, <2>5, LeaveFits, CoordinatorIs DEF Apt, Patch, Refuse
<1> QED BY <1>4, <1>5, <1>6

----------------------------------------------------------------------------

\* A file with nothing but one overlay's sites, which have two forms.
Simple(f) ==
  /\ f \in File /\ SitesOf(f) \cap {"spin"} = {}
  /\ \A s \in SitesOf(f) : Forms(s) = {"old", "new"}
  /\ \/ Fragments[f] = {Whole(SitesOf(f))}
     \/ Fragments[f] = {} /\ \A s, t \in SitesOf(f) : s = t

\* Twelve of the files are of that kind.
LEMMA SimpleFiles ==
  \A f \in {"stats", "manager", "loggers", "sampling", "request", "block_pool", "server_utils",
            "block_table", "indexer", "api_server", "model", "mtp"} : Simple(f)
<1>1. \A f \in {"stats", "manager", "loggers", "sampling", "request", "block_pool", "server_utils",
                "block_table", "indexer", "api_server", "model", "mtp"} :
        /\ f \in File /\ SitesOf(f) \cap {"spin"} = {}
        /\ \A s \in SitesOf(f) : s \notin SitesOf("xgrammar") \cup {"xg_manager", "dg_group", "dg_guard"}
  BY FilesAre, SitesAre
<1>2. \A f \in {"loggers", "sampling", "request", "block_pool", "server_utils", "indexer"} :
        Fragments[f] = {Whole(SitesOf(f))}
  BY FragmentsAre DEF AU
<1>3. \A f \in {"stats", "manager", "block_table", "api_server", "model", "mtp"} :
        Fragments[f] = {} /\ \A s, t \in SitesOf(f) : s = t
  BY FragmentsAre, SitesAre
<1>4. \A f \in {"stats", "manager", "loggers", "sampling", "request", "block_pool", "server_utils",
                "block_table", "indexer", "api_server", "model", "mtp"} :
        \A s \in SitesOf(f) : Forms(s) = {"old", "new"}
  BY <1>1, InSite, FormsAre
<1> QED BY <1>1, <1>2, <1>3, <1>4 DEF Simple

\* Such a file that was never truncated is pristine or patched.
LEMMA SimpleWhole ==
  ASSUME BootInv, NEW f, Simple(f), f \notin torn
  PROVE  parses[f] /\ (Old(SitesOf(f)) \/ New(SitesOf(f)))
<1>1. f \in File /\ \A s \in SitesOf(f) : Forms(s) = {"old", "new"}
  BY DEF Simple
<1>2. parses[f] /\ \A s \in SitesOf(f) : text[s] \in {"old", "new"}
  BY <1>1, Untorn
<1>3. (\E s \in SitesOf(f) : text[s] # "old") => \A s \in SitesOf(f) : text[s] # "old"
  <2>1. CASE Fragments[f] = {Whole(SitesOf(f))}
    BY <1>1, <2>1, Untorn, FragmentIs
  <2>2. CASE Fragments[f] = {} /\ \A s, t \in SitesOf(f) : s = t
    BY <2>2
  <2> QED BY <2>1, <2>2 DEF Simple
<1> QED BY <1>2, <1>3 DEF Old, New

\* Writing all sites of such a file completes its fragments.
LEMMA SimpleFits ==
  ASSUME NEW f, Simple(f)
  PROVE  /\ SitesOf(f) \subseteq Site /\ "spin" \notin SitesOf(f)
         /\ \A g \in File \ torn : Fits(g, SitesOf(f))
<1>1. CASE Fragments[f] = {Whole(SitesOf(f))}
  BY <1>1, WholeFits, InSite DEF Simple
<1>2. CASE Fragments[f] = {}
  <2>1. Fits(f, SitesOf(f))
    BY <1>2 DEF Fits
  <2> QED BY <2>1, FitsOne, InSite DEF Simple
<1> QED BY <1>1, <1>2 DEF Simple

\* The common form of an installer of one such file: a patched text is left,
\* a pristine one is written, and nothing else passes.
LEMMA SimpleVerdict ==
  ASSUME BootInv, NEW f, Simple(f), SitesOf(f) # {}, NEW marked, NEW whole, NEW anchors,
         marked /\ whole => New(SitesOf(f)),
         f \notin torn => /\ marked <=> New(SitesOf(f))
                          /\ New(SitesOf(f)) => whole
                          /\ Old(SitesOf(f)) => anchors
  PROVE  LET v == Installer(marked, whole, anchors, SitesOf(f)) IN
         /\ v.ok \/ v.new = {}
         /\ f \notin torn => v.ok
         /\ v.ok => \A s \in SitesOf(f) : text[s] = "new" \/ s \in v.new
         /\ v.new \subseteq Site /\ "spin" \notin v.new
         /\ \A g \in File \ torn : Fits(g, v.new)
<1>1. CASE marked /\ whole
  BY <1>1, LeaveFits DEF Installer, Leave, New
<1>2. CASE marked /\ ~whole
  BY <1>2, LeaveFits DEF Installer, Refuse
<1>3. CASE ~marked /\ anchors
  BY <1>3, SimpleFits DEF Installer, Patch
<1>4. CASE ~marked /\ ~anchors
  BY <1>4, LeaveFits, SimpleWhole DEF Installer, Refuse
<1> QED BY <1>1, <1>2, <1>3, <1>4

\* Several files: all are judged before any is written.
LEMMA TogetherIs ==
  ASSUME NEW V,
         \A v \in V : /\ v.new \subseteq Site /\ "spin" \notin v.new
                      /\ \A g \in File \ torn : Fits(g, v.new)
  PROVE  LET t == Together(V) IN
         /\ t.new \subseteq Site /\ "spin" \notin t.new
         /\ \A g \in File \ torn : Fits(g, t.new)
         /\ (\A v \in V : v.ok) => t.ok
         /\ t.ok \/ t.new = {}
         /\ t.ok => \A v \in V : v.ok /\ v.new \subseteq t.new
<1>1. CASE \A v \in V : v.ok
  <2>1. Together(V) = Patch(UNION {v.new : v \in V})
    BY <1>1 DEF Together
  <2> DEFINE S == UNION {v.new : v \in V}
  <2>2. S \subseteq Site /\ "spin" \notin S /\ \A v \in V : v.new \subseteq S
    OBVIOUS
  <2>3. \A g \in File \ torn : Fits(g, S)
    BY DEF Fits
  <2> QED BY <1>1, <2>1, <2>2, <2>3 DEF Patch
<1>2. CASE ~\A v \in V : v.ok
  <2>1. Together(V) = Refuse
    BY <1>2 DEF Together
  <2> QED BY <1>2, <2>1, LeaveFits DEF Refuse
<1> QED BY <1>1, <1>2

\* One file of a transactional overlay (preflight): skipped, written as a whole,
\* or refused.
LEMMA PreflightFileIs ==
  ASSUME BootInv, NEW f, Simple(f), SitesOf(f) # {}
  PROVE  LET v == PreflightFile(f) IN
         /\ f \notin torn => v.ok
         /\ v.ok \/ v.new = {}
         /\ v.ok => \A s \in SitesOf(f) : text[s] = "new" \/ s \in v.new
         /\ v.new \subseteq Site /\ "spin" \notin v.new
         /\ \A g \in File \ torn : Fits(g, v.new)
<1>1. f \notin torn => /\ parses[f]
                       /\ Carries(SitesOf(f)) <=> New(SitesOf(f))
  BY SimpleWhole DEF Carries, New, Old
<1> QED
  BY <1>1, SimpleVerdict DEF PreflightFile

\* patch_prefix_cache_sparse_miss_metric.py: three files, and anchors of a fourth.
LEMMA SparseMissApt ==
  ASSUME BootInv PROVE Apt("sparse_miss", SparseMiss)
<1> DEFINE P == {"stats", "manager", "loggers"}
           V == {SparsePreflight(f) : f \in P}
<1>1. \A f \in P : Simple(f) /\ SitesOf(f) # {}
  BY SimpleFiles, SitesAre
<1>2. \A f \in P :
        LET v == SparsePreflight(f) IN
         /\ f \notin torn => v.ok
         /\ v.ok => \A s \in SitesOf(f) : text[s] = "new" \/ s \in v.new
         /\ v.new \subseteq Site /\ "spin" \notin v.new
         /\ \A g \in File \ torn : Fits(g, v.new)
  BY <1>1, PreflightFileIs DEF SparsePreflight
<1>3. LET t == Together(V) IN
         /\ t.new \subseteq Site /\ "spin" \notin t.new
         /\ \A g \in File \ torn : Fits(g, t.new)
         /\ (\A v \in V : v.ok) => t.ok
         /\ t.ok \/ t.new = {}
         /\ t.ok => \A v \in V : v.ok /\ v.new \subseteq t.new
  BY <1>2, TogetherIs
<1>4. Together(V).ok => \A f \in P : \A s \in SitesOf(f) : text[s] = "new" \/ s \in Together(V).new
  BY <1>2, <1>3
<1>5. UNION {SitesOf(f) : f \in P} = {"sm_stats", "sm_manager", "sm_counter", "sm_record"}
  BY SitesAre
<1>6. torn = {} => Together(V).ok
  BY <1>2, <1>3
<1>7. Position("scheduler", "alloc_exit") < Position("scheduler", "admit")
  <2>1. Layout["scheduler"] = <<"os", "df_helper", "al_helper", "ak_helper", "al_split", "df_running", "df_waiting",
                                "alloc_exit", "admit", "sched_k", "ak_observe", "ak_update">>
    BY DEF Layout
  <2>2. Position("scheduler", "alloc_exit") = 8
    BY <2>1 DEF Position
  <2>3. Position("scheduler", "admit") = 9
    BY <2>1 DEF Position
  <2> QED BY <2>2, <2>3
<1>8. torn = {} => parses["scheduler"] /\ Present("alloc_exit") /\ Present("admit")
  BY SchedulerIs, SchedulerWhole DEF Present
<1>9. CASE ~env.sparse
  BY <1>9, LeaveFits, NeedsAre DEF Apt, SparseMiss, Leave
<1>10. CASE env.sparse /\ parses["scheduler"] /\ Present("alloc_exit") /\ Present("admit")
  <2>1. SparseMiss = Together(V)
    BY <1>7, <1>10 DEF SparseMiss
  <2>2. Needs["sparse_miss"] = UNION {SitesOf(f) : f \in P}
    BY <1>5, <1>10, NeedsAre
  <2> QED BY <1>3, <1>4, <1>6, <2>1, <2>2 DEF Apt, Met
<1>11. CASE env.sparse /\ ~(parses["scheduler"] /\ Present("alloc_exit") /\ Present("admit"))
  <2>1. SparseMiss = Refuse
    BY <1>11 DEF SparseMiss
  <2> QED BY <1>8, <1>11, <2>1, LeaveFits DEF Apt, Refuse
<1> QED BY <1>9, <1>10, <1>11

\* patch_apc_no_store.py: three files, of which some may be written already.
LEMMA NoStoreApt ==
  ASSUME BootInv PROVE Apt("no_store", NoStore)
<1> DEFINE V == {PreflightFile(f) : f \in NoStoreFiles}
<1>1. \A f \in NoStoreFiles : Simple(f) /\ SitesOf(f) # {}
  BY SimpleFiles, SitesAre DEF NoStoreFiles
<1>2. \A f \in NoStoreFiles :
        LET v == PreflightFile(f) IN
         /\ f \notin torn => v.ok
         /\ v.ok => \A s \in SitesOf(f) : text[s] = "new" \/ s \in v.new
         /\ v.new \subseteq Site /\ "spin" \notin v.new
         /\ \A g \in File \ torn : Fits(g, v.new)
  BY <1>1, PreflightFileIs
<1>3. LET t == Together(V) IN
         /\ t.new \subseteq Site /\ "spin" \notin t.new
         /\ \A g \in File \ torn : Fits(g, t.new)
         /\ (\A v \in V : v.ok) => t.ok
         /\ t.ok \/ t.new = {}
         /\ t.ok => \A v \in V : v.ok /\ v.new \subseteq t.new
  BY <1>2, TogetherIs
<1>4. Together(V).ok => \A f \in NoStoreFiles : \A s \in SitesOf(f) : text[s] = "new" \/ s \in Together(V).new
  BY <1>2, <1>3
<1>5. torn = {} => Together(V).ok
  BY <1>2, <1>3
<1>6. Needs["no_store"] = UNION {SitesOf(f) : f \in NoStoreFiles}
  BY NeedsAre
<1> QED BY <1>3, <1>4, <1>5, <1>6 DEF Apt, Met, NoStore

\* patch_xgrammar_termination.py: ours, or upstream's own fix.
LEMMA XgrammarApt ==
  ASSUME BootInv PROVE Apt("xgrammar", Xgrammar)
<1> DEFINE S == SitesOf("xgrammar")
           V == {Backend, Manager}
<1>1. /\ "xgrammar" \in File /\ "structured" \in File
      /\ S = {"xg_accept", "xg_validate", "xg_reset"} /\ SitesOf("structured") = {"xg_manager"}
      /\ Fragments["xgrammar"] = {Whole(S)} /\ Fragments["structured"] = {}
  BY FilesAre, SitesAre, FragmentsAre
<1>2. \A s \in S \cup {"xg_manager"} : Forms(s) = {"old", "new", "up"}
  BY <1>1 DEF Forms
<1>3. "xgrammar" \notin torn =>
        /\ \A s \in S : text[s] \in {"old", "new", "up"}
        /\ (\E s \in S : text[s] # "old") => \A s \in S : text[s] # "old"
  BY <1>1, <1>2, Untorn, FragmentIs
<1>4. "structured" \notin torn => text["xg_manager"] \in {"old", "new", "up"}
  BY <1>1, <1>2, Untorn
<1>5. /\ "xgrammar" \notin torn => Backend.ok
      /\ Backend.ok => \A s \in S : text[s] \in {"new", "up"} \/ s \in Backend.new
      /\ Backend.new \in {{}, S}
  BY <1>1, <1>3 DEF Backend, Installer, New, Old, Leave, Refuse, Patch
<1>6. /\ "structured" \notin torn => Manager.ok
      /\ Manager.ok => text["xg_manager"] \in {"new", "up"} \/ "xg_manager" \in Manager.new
      /\ Manager.new \in {{}, {"xg_manager"}}
  BY <1>4 DEF Manager, Installer, Old, Leave, Refuse, Patch
<1>7. \A g \in File \ torn : Fits(g, S) /\ Fits(g, {"xg_manager"}) /\ Fits(g, {})
  <2>1. Fits("structured", {"xg_manager"})
    BY <1>1 DEF Fits
  <2>2. \A g \in File \ torn : Fits(g, {"xg_manager"})
    BY <1>1, <2>1, FitsOne
  <2> QED BY <1>1, <2>2, WholeFits, FitsElsewhere
<1>8. S \subseteq Site /\ "xg_manager" \in Site /\ "spin" \notin S
  BY <1>1, InSite
<1>9. \A v \in V : /\ v.new \subseteq Site /\ "spin" \notin v.new
                   /\ \A g \in File \ torn : Fits(g, v.new)
  BY <1>5, <1>6, <1>7, <1>8
<1>10. LET t == Together(V) IN
         /\ t.new \subseteq Site /\ "spin" \notin t.new
         /\ \A g \in File \ torn : Fits(g, t.new)
         /\ (\A v \in V : v.ok) => t.ok
         /\ t.ok \/ t.new = {}
         /\ t.ok => \A v \in V : v.ok /\ v.new \subseteq t.new
  BY <1>9, TogetherIs
<1>11. torn = {} => parses["xgrammar"] /\ parses["structured"] /\ Together(V).ok
  BY <1>1, <1>5, <1>6, <1>10, Untorn
<1>12. Needs["xgrammar"] = S \cup {"xg_manager"}
  BY NeedsAre
<1>13. Together(V).ok => \A s \in S \cup {"xg_manager"} : text[s] \in {"new", "up"} \/ s \in Together(V).new
  BY <1>5, <1>6, <1>10
<1>14. CASE parses["xgrammar"] /\ parses["structured"]
  <2>1. Xgrammar = Together(V)
    BY <1>14 DEF Xgrammar
  <2> QED BY <1>10, <1>11, <1>12, <1>13, <2>1 DEF Apt, Met
<1>15. CASE ~(parses["xgrammar"] /\ parses["structured"])
  <2>1. Xgrammar = Refuse
    BY <1>15 DEF Xgrammar
  <2> QED BY <1>11, <1>15, <2>1, LeaveFits DEF Apt, Refuse
<1> QED BY <1>14, <1>15

\* patch_cache_reset.py: one site.
LEMMA CacheResetApt ==
  ASSUME BootInv PROVE Apt("cache_reset", CacheReset)
<1>1. Simple("api_server") /\ SitesOf("api_server") = {"cr_mount"}
  BY SimpleFiles, SitesAre
<1>2. "api_server" \notin torn => parses["api_server"] /\ (Old({"cr_mount"}) \/ New({"cr_mount"}))
  BY <1>1, SimpleWhole
<1>3. "cr_mount" \in Site /\ \A g \in File \ torn : Fits(g, {"cr_mount"})
  BY <1>1, SimpleFits
<1> QED
  BY <1>2, <1>3, LeaveFits, NeedsAre, SimpleFiles
  DEF Apt, CacheReset, Installer, New, Leave, Refuse, Patch, Met, Simple

\* patch_auth_all_routes.py: on the head, two sites.
LEMMA AuthAllRoutesApt ==
  ASSUME BootInv PROVE Apt("auth", AuthAllRoutes)
<1>1. Simple("server_utils") /\ SitesOf("server_utils") = AU /\ AU # {}
  BY SimpleFiles, SitesAre DEF AU
<1>2. "server_utils" \notin torn => /\ parses["server_utils"]
                                    /\ Carries(AU) => New(AU)
                                    /\ ~Carries(AU) => Old(AU)
  BY <1>1, SimpleWhole DEF Carries, New, Old
<1>3. CASE env.role # "head"
  BY <1>3, LeaveFits, NeedsAre DEF Apt, AuthAllRoutes, Leave
<1>4. CASE env.role = "head"
  <2>1. AuthAllRoutes = Installer(Carries(AU), New(AU), Old(AU) /\ parses["server_utils"], AU)
    BY <1>4 DEF AuthAllRoutes
  <2>2. AU \subseteq Site /\ "spin" \notin AU /\ \A g \in File \ torn : Fits(g, AU)
    BY <1>1, SimpleFits
  <2> QED
    BY <1>2, <1>4, <2>1, <2>2, LeaveFits, NeedsAre, SimpleFiles
    DEF Apt, Installer, New, Leave, Refuse, Patch, Met, Simple
<1> QED BY <1>3, <1>4

\* patch_kpool_tail_slotmap.py: one file, by preflight.
LEMMA KpoolTailApt ==
  ASSUME BootInv PROVE Apt("kpool_tail", KpoolTail)
<1>1. Simple("block_table") /\ SitesOf("block_table") = {"kp_clamp"}
  BY SimpleFiles, SitesAre
<1> QED BY <1>1, PreflightFileIs, NeedsAre DEF Apt, KpoolTail, Met

\* patch_indexer_workspace.py, when the image has it: one file, by preflight.
LEMMA IndexerWorkspaceApt ==
  ASSUME BootInv PROVE Apt("indexer", IndexerWorkspace)
<1>1. Simple("indexer") /\ SitesOf("indexer") # {}
  BY SimpleFiles, SitesAre
<1>2. CASE ~env.indexer
  BY <1>2, LeaveFits, NeedsAre DEF Apt, IndexerWorkspace, Leave
<1>3. CASE env.indexer
  BY <1>1, <1>3, PreflightFileIs, NeedsAre DEF Apt, IndexerWorkspace, Met
<1> QED BY <1>2, <1>3

\* patch_spinwait.py: the line is what the environment asks for, or the stock one.
LEMMA SpinwaitApt ==
  ASSUME BootInv PROVE Apt("spinwait", Spinwait)
<1>1. /\ "broadcast" \in File /\ SitesOf("broadcast") = {"spin"} /\ Fragments["broadcast"] = {}
      /\ "spin" \in Site
  BY FilesAre, SitesAre, FragmentsAre, InSite
<1>2. Forms("spin") = {"old", "new"}
  BY SitesAre DEF Forms
<1>3. torn = {} => parses["broadcast"] /\ text["spin"] \in {"old", "new"}
  BY <1>1, <1>2, Untorn
<1>4. \A g \in File \ torn : Fits(g, {"spin"})
  BY <1>1, FitsOne DEF Fits
<1>5. Wanted \in {"old", "new"} /\ (Wanted = "old" => text["spin"] # "new")
  BY DEF Wanted, BootInv, SpinIsWanted
<1> QED
  BY <1>1, <1>3, <1>4, <1>5, LeaveFits, NeedsAre
  DEF Apt, Spinwait, Old, Leave, Refuse, Patch, Met

\* patch_ablit.py: one site in each of two files.
LEMMA AblitApt ==
  ASSUME BootInv, NEW f \in {"model", "mtp"}, NEW s, SitesOf(f) = {s},
         NEW p, Needs[p] = {s}
  PROVE  Apt(p, Ablit(s))
<1>1. Simple(f)
  BY SimpleFiles
<1>2. f \notin torn => Old({s}) \/ New({s})
  BY <1>1, SimpleWhole
<1>3. s \in Site /\ s # "spin" /\ \A g \in File \ torn : Fits(g, {s})
  BY <1>1, SimpleFits
<1> QED
  BY <1>2, <1>3, LeaveFits
  DEF Apt, Ablit, Installer, New, Leave, Refuse, Patch, Met

\* Whatever installer the boot is at, its decision keeps the invariant.
LEMMA EveryVerdictIsApt ==
  ASSUME BootInv, at \in 1..20
  PROVE  Apt(AllScripts[at], Verdict[AllScripts[at]])
<1>1. Apt("ablit_model", Ablit("ab_model")) /\ Apt("ablit_mtp", Ablit("ab_mtp"))
  BY SitesAre, NeedsAre, AblitApt
<1> QED
  BY <1>1, ScriptIs, VerdictIs, VideoApt, SuppressStopsApt, DecodeFloorApt, AlignFloorApt, AdaptiveSchedulerApt,
     AdaptiveGraphApt, DrafterGroupApt, HybridPrefixHitApt, RetentionApt, FineGrainedApt, SparseMissApt,
     NoStoreApt, XgrammarApt, CacheResetApt, AuthAllRoutesApt, KpoolTailApt, SpinwaitApt,
     IndexerWorkspaceApt

----------------------------------------------------------------------------

\* A new container is as its image.
LEMMA BootStarts ==
  ASSUME BootInit PROVE BootInv
<1> PICK img \in ImageTexts, gates \in Gates, role \in Roles :
      /\ env = [role |-> role, indexer |-> img.indexer, adaptive |-> gates.adaptive,
                retention |-> gates.retention, fine |-> gates.fine, sparse |-> gates.sparse, spin |-> gates.spin]
      /\ text = img.sites
  BY DEF BootInit
<1>1. /\ parses = [f \in File |-> TRUE] /\ at = 1 /\ todo = {} /\ staged = {}
      /\ phase = "boot" /\ torn = {} /\ deaths = 0
  BY DEF BootInit
<1>2. BootTypes
  <2>1. \A s \in Site : img.sites[s] \in AllForms
    <3>1. \A f \in File : \A s \in SitesOf(f) : img.sites[s] \in Forms(s)
      BY OverlayBootAssumption DEF Intact
    <3>2. \A s : Forms(s) \subseteq AllForms
      BY DEF Forms, AllForms
    <3> QED BY <3>1, <3>2 DEF Site
  <2>2. img.sites \in [Site -> AllForms]
    BY <2>1, OverlayBootAssumption
  <2> QED BY <1>1, <2>2, OverlayBootAssumption DEF BootTypes
<1>3. Sound
  BY <1>1, OverlayBootAssumption DEF Sound
<1>4. SpinIsWanted
  BY <1>1, OverlayBootAssumption DEF SpinIsWanted
<1> QED BY <1>1, <1>2, <1>3, <1>4 DEF BootInv, Pending, Installed

\* What is met stays met when only more is laid.
LEMMA MetStays ==
  ASSUME NEW p, NEW s, Met(p, s), torn' = torn, text'[s] \in {text[s], "new"}
  PROVE  Met(p, s)'
BY DEF Met

\* An installer decides.
LEMMA JudgeKeeps ==
  ASSUME BootInv, Judge PROVE BootInv'
<1> DEFINE v == Verdict[AllScripts[at]]
<1>1. /\ phase = "boot" /\ staged = {} /\ at \in 1..20
      /\ phase' = IF v.ok THEN "boot" ELSE "refused"
      /\ todo' = v.new /\ staged' = FilesFor(v.new)
      /\ at' = IF v.ok /\ v.new = {} THEN at + 1 ELSE at
      /\ env' = env /\ text' = text /\ parses' = parses /\ torn' = torn /\ deaths' = deaths
  BY ScriptIs DEF Judge, BootInv, BootTypes
<1>2. Apt(AllScripts[at], v)
  BY <1>1, EveryVerdictIsApt
<1>3. v.new # {} => v.ok
  BY <1>2 DEF Apt
<1>4. BootTypes'
  BY <1>1, <1>2, <1>3 DEF BootInv, BootTypes, Apt, FilesFor
<1>5. Sound'
  BY <1>1 DEF BootInv, Sound
<1>6. Needs' = Needs /\ Wanted' = Wanted
  BY <1>1 DEF Needs, Wanted
<1>7. \A p, s : Met(p, s)' <=> Met(p, s)
  BY <1>1 DEF Met
<1>8. Pending'
  <2>1. \A f \in staged' \ torn' : Fits(f, todo)'
    BY <1>1, <1>2 DEF Fits, Apt, FilesFor
  <2>2. ASSUME staged' # {}
        PROVE  /\ at' = at
               /\ \A s \in Needs[AllScripts[at]] :
                    Met(AllScripts[at], s) \/ (s \in todo' /\ \E f \in staged' : s \in SitesOf(f))
    <3>1. v.new # {}
      BY <1>1, <2>2 DEF FilesFor
    <3>2. \A s \in v.new : \E f \in staged' : s \in SitesOf(f)
      BY <1>1, <1>2 DEF Apt, FilesFor, Site
    <3> QED BY <1>1, <1>2, <1>3, <3>1, <3>2 DEF Apt
  <2> QED BY <1>6, <1>7, <2>1, <2>2 DEF Pending
<1>9. Installed'
  <2>1. CASE at' = at
    BY <1>6, <1>7, <2>1 DEF BootInv, Installed
  <2>2. CASE at' = at + 1 /\ v.ok /\ v.new = {}
    <3>1. \A s \in Needs[AllScripts[at]] : Met(AllScripts[at], s)
      BY <1>2, <2>2 DEF Apt
    <3>2. \A i \in 1..at : i \in 1..(at - 1) \/ i = at
      BY <1>1
    <3>3. \A i \in 1..(at - 1) : \A s \in Needs[AllScripts[i]] : Met(AllScripts[i], s)
      BY DEF BootInv, Installed
    <3>4. at' - 1 = at
      BY <1>1, <2>2
    <3> QED BY <1>6, <1>7, <3>1, <3>2, <3>3, <3>4 DEF Installed
  <2> QED BY <1>1, <2>1, <2>2
<1>10. SpinIsWanted'
  BY <1>1, <1>2, <1>6 DEF BootInv, SpinIsWanted, Apt
<1> QED BY <1>1, <1>2, <1>4, <1>5, <1>8, <1>9, <1>10 DEF BootInv, Apt

\* An installer needs sites of the files.
LEMMA NeedsInSite ==
  ASSUME NEW i \in 1..20
  PROVE  Needs[AllScripts[i]] \subseteq Site
<1>1. \A f \in File : SitesOf(f) \subseteq Site
  BY InSite
<1>2. UNION {SR, DF, AL, AK, CG, DG, HY, RT, FG, AU} \subseteq Site
  BY <1>1, FilesAre, SitesAre DEF SR, DF, AL, AK, CG, DG, HY, RT, FG, AU
<1>3. {"topk", "os", "df_helper", "inner", "draft", "sm_stats", "sm_manager", "sm_counter", "sm_record",
       "xg_manager", "cr_mount", "kp_clamp", "spin", "ab_model", "ab_mtp"} \subseteq Site
  BY <1>1, FilesAre, SitesAre
<1>4. \A f \in NoStoreFiles \cup {"xgrammar", "indexer"} : SitesOf(f) \subseteq Site
  BY <1>1, FilesAre DEF NoStoreFiles
<1> QED BY <1>2, <1>3, <1>4, ScriptIs, NeedsAre

\* The next target gets its text.
LEMMA WriteKeeps ==
  ASSUME BootInv, Write PROVE BootInv'
<1> PICK f \in staged : /\ text' = Text(f) /\ staged' = staged \ {f}
                        /\ at' = IF staged = {f} THEN at + 1 ELSE at
  BY DEF Write
<1>1. /\ env' = env /\ parses' = parses /\ todo' = todo /\ phase' = phase /\ torn' = torn /\ deaths' = deaths
      /\ phase = "boot" /\ f \in File /\ at \in 1..20
  BY DEF Write, BootInv, BootTypes
<1>2. /\ \A s \in Site : text'[s] = IF s \in todo /\ s \in SitesOf(f) THEN "new" ELSE text[s]
      /\ DOMAIN text' = Site
  BY DEF Text
<1>3. \A g \in File \ {f} : \A s \in SitesOf(g) : text'[s] = text[s]
  BY <1>1, <1>2, SitesApart, InSite
<1>4. BootTypes'
  <2>1. text' \in [Site -> AllForms]
    <3>1. \A s \in Site : text'[s] \in AllForms
      BY <1>2 DEF BootInv, BootTypes, AllForms
    <3>2. text' = [s \in Site |-> text'[s]]
      BY DEF Text
    <3> QED BY <3>1, <3>2
  <2> QED BY <1>1, <2>1 DEF BootInv, BootTypes
<1>5. Sound'
  <2>1. SUFFICES ASSUME NEW g \in File, g \notin torn
                 PROVE  parses[g] /\ Intact(g, text')
    BY <1>1 DEF Sound
  <2>2. parses[g] /\ Intact(g, text)
    BY <2>1 DEF BootInv, Sound
  <2>3. CASE g # f
    <3>1. \A s \in SitesOf(g) : text'[s] = text[s]
      BY <1>3, <2>1, <2>3
    <3> QED BY <2>2, <3>1, FragmentsIn DEF Intact
  <2>4. CASE g = f
    <3>1. \A s \in SitesOf(f) : text'[s] \in Forms(s)
      BY <1>1, <1>2, <2>2, <2>4, InSite DEF Intact, Forms
    <3>2. ASSUME NEW w \in Fragments[f], NEW a \in w.own, text'[a] # "old", NEW b \in w.full
          PROVE  text'[b] # "old"
      <4>1. a \in SitesOf(f) /\ b \in SitesOf(f) /\ a \in Site /\ b \in Site
        BY <1>1, <3>2, FragmentsIn, InSite
      <4>2. CASE a \in todo
        <5>1. b \in todo \/ text[b] # "old"
          BY <1>1, <2>1, <2>4, <3>2, <4>2 DEF BootInv, Pending, Fits
        <5> QED BY <1>2, <4>1, <5>1
      <4>3. CASE a \notin todo
        <5>1. text[b] # "old"
          BY <1>2, <2>2, <2>4, <3>2, <4>1, <4>3 DEF Intact
        <5> QED BY <1>2, <4>1, <5>1
      <4> QED BY <4>2, <4>3
    <3> QED BY <2>2, <2>4, <3>1, <3>2 DEF Intact
  <2> QED BY <2>3, <2>4
<1>6. Needs' = Needs /\ Wanted' = Wanted
  BY <1>1 DEF Needs, Wanted
<1>7. \A p : \A s \in Site : /\ Met(p, s) => Met(p, s)'
                             /\ s \in todo /\ s \in SitesOf(f) => Met(p, s)'
  BY <1>1, <1>2 DEF Met
<1>8. \A i \in 1..20 : Needs[AllScripts[i]] \subseteq Site
  BY NeedsInSite
<1>10. Pending'
  <2>1. \A g \in staged' \ torn' : Fits(g, todo)'
    <3>1. SUFFICES ASSUME NEW g \in staged, g # f, g \notin torn PROVE Fits(g, todo)'
      BY <1>1
    <3>2. Fits(g, todo) /\ g \in File
      BY <3>1 DEF BootInv, BootTypes, Pending
    <3>3. \A w \in Fragments[g] : \A s \in w.full : text'[s] = text[s]
      BY <1>3, <3>1, <3>2, FragmentsIn
    <3> QED BY <1>1, <3>2, <3>3 DEF Fits
  <2>2. ASSUME staged' # {}, NEW p, p = AllScripts[at], NEW s \in Needs[p]
        PROVE  Met(p, s)' \/ (s \in todo /\ \E g \in staged' : s \in SitesOf(g))
    <3>1. s \in Site
      BY <1>1, <1>8, <2>2
    <3>2. Met(p, s) \/ (s \in todo /\ \E g \in staged : s \in SitesOf(g))
      BY <2>2 DEF BootInv, Pending
    <3> QED BY <1>7, <3>1, <3>2
  <2>3. staged' # {} => at' = at
    OBVIOUS
  <2> QED BY <1>1, <1>6, <2>1, <2>2, <2>3 DEF Pending
<1>11. Installed'
  <2>1. ASSUME NEW i \in 1..(at - 1), NEW s \in Needs[AllScripts[i]] PROVE Met(AllScripts[i], s)'
    <3>1. s \in Site /\ Met(AllScripts[i], s)
      BY <1>1, <1>8, <2>1 DEF BootInv, Installed
    <3> QED BY <1>7, <3>1
  <2>2. ASSUME staged = {f}, NEW p, p = AllScripts[at], NEW s \in Needs[p] PROVE Met(p, s)'
    <3>1. s \in Site
      BY <1>1, <1>8, <2>2
    <3>2. Met(p, s) \/ (s \in todo /\ s \in SitesOf(f))
      BY <2>2 DEF BootInv, Pending
    <3> QED BY <1>7, <3>1, <3>2
  <2>3. \A i \in 1..(at' - 1) : i \in 1..(at - 1) \/ (i = at /\ staged = {f})
    BY <1>1
  <2> QED BY <1>6, <2>1, <2>2, <2>3 DEF Installed
<1>12. SpinIsWanted'
  <2>1. text'["spin"] # "new" \/ text["spin"] = "new" \/ "spin" \in todo
    BY <1>2, SitesAre, InSite, FilesAre
  <2> QED BY <1>1, <1>6, <2>1 DEF BootInv, SpinIsWanted
<1> QED BY <1>1, <1>4, <1>5, <1>10, <1>11, <1>12 DEF BootInv

\* exec vllm serve.
LEMMA ServeKeeps ==
  ASSUME BootInv, Serve PROVE BootInv'
<1>1. /\ phase = "boot" /\ staged = {} /\ at = 21 /\ phase' = "serving"
      /\ env' = env /\ text' = text /\ parses' = parses /\ at' = at /\ todo' = todo
      /\ staged' = staged /\ torn' = torn /\ deaths' = deaths
  BY ScriptIs DEF Serve, BootInv, BootTypes
<1>2. Needs' = Needs /\ Wanted' = Wanted
  BY <1>1 DEF Needs, Wanted
<1>3. Installed'
  <2>1. \A p, s : Met(p, s)' <=> Met(p, s)
    BY <1>1 DEF Met
  <2> QED BY <1>1, <1>2, <2>1 DEF BootInv, Installed
<1> QED
  BY <1>1, <1>2, <1>3 DEF BootInv, BootTypes, Sound, Pending, SpinIsWanted

\* A boot that begins again has installed nothing.
LEMMA BootAgain ==
  ASSUME BootInv, phase' \in {"boot", "down"}, at' = 1, todo' = {}, staged' = {},
         env' = env, deaths' \in Nat,
         \/ text' = text /\ parses' = parses /\ torn' = torn
         \/ \E f \in File :
              /\ torn' = torn \cup {f}
              /\ text' \in [Site -> AllForms] /\ parses' \in [File -> BOOLEAN]
              /\ \A g \in File \ {f} : parses'[g] = parses[g] /\ \A s \in SitesOf(g) : text'[s] = text[s]
              /\ text'["spin"] = "new" => text["spin"] = "new" \/ "spin" \in todo
  PROVE  BootInv'
<1>1. Wanted' = Wanted
  BY DEF Wanted
<1>2. torn \subseteq torn' /\ \A g \in File \ torn' :
        parses'[g] = parses[g] /\ \A s \in SitesOf(g) : text'[s] = text[s]
  OBVIOUS
<1>3. Sound'
  <2>1. SUFFICES ASSUME NEW g \in File, g \notin torn'
                 PROVE  parses'[g] /\ Intact(g, text')
    BY DEF Sound
  <2>2. parses[g] /\ Intact(g, text)
    BY <1>2, <2>1 DEF BootInv, Sound
  <2> QED BY <1>2, <2>1, <2>2, FragmentsIn DEF Intact
<1>4. BootTypes'
  BY DEF BootInv, BootTypes
<1>5. SpinIsWanted'
  BY <1>1 DEF BootInv, SpinIsWanted
<1> QED BY <1>3, <1>4, <1>5 DEF BootInv, Pending, Installed

\* A death between two writes leaves the files as they are.
LEMMA DieKeeps ==
  ASSUME BootInv, Die PROVE BootInv'
<1>1. deaths' \in Nat
  BY DEF Die, BootInv, BootTypes
<1> QED BY <1>1, BootAgain DEF Die

\* The same container, started again.
LEMMA RestartKeeps ==
  ASSUME BootInv, Restart PROVE BootInv'
<1>1. deaths' \in Nat
  BY DEF Restart, BootInv, BootTypes
<1> QED BY <1>1, BootAgain DEF Restart

\* A death while a file is written in place tears that file only.
LEMMA TearKeeps ==
  ASSUME BootInv, Tear PROVE BootInv'
<1> PICK f \in staged :
      /\ \E kept \in 0..(Len(Layout[f]) - 1), valid \in BOOLEAN :
           /\ text' = [s \in Site |-> IF s \in SitesOf(f) /\ Position(f, s) > kept THEN "gone" ELSE Text(f)[s]]
           /\ parses' = [parses EXCEPT ![f] = valid]
      /\ torn' = torn \cup {f}
  BY DEF Tear
<1> PICK kept \in 0..(Len(Layout[f]) - 1), valid \in BOOLEAN :
      /\ text' = [s \in Site |-> IF s \in SitesOf(f) /\ Position(f, s) > kept THEN "gone" ELSE Text(f)[s]]
      /\ parses' = [parses EXCEPT ![f] = valid]
  OBVIOUS
<1>1. f \in File /\ deaths' \in Nat
  BY DEF Tear, BootInv, BootTypes
<1>2. \A s \in Site : /\ text'[s] \in {text[s], "new", "gone"}
                      /\ text'[s] = "new" => text[s] = "new" \/ s \in todo
                      /\ s \notin SitesOf(f) => text'[s] = text[s]
  BY DEF Text
<1>3. text' \in [Site -> AllForms]
  <2>1. \A s \in Site : text'[s] \in AllForms
    BY <1>2 DEF BootInv, BootTypes, AllForms
  <2>2. text' = [s \in Site |-> text'[s]]
    OBVIOUS
  <2> QED BY <2>1, <2>2
<1>4. parses' \in [File -> BOOLEAN] /\ \A g \in File \ {f} : parses'[g] = parses[g]
  BY DEF BootInv, BootTypes
<1>5. \A g \in File \ {f} : \A s \in SitesOf(g) : text'[s] = text[s]
  BY <1>1, <1>2, SitesApart, InSite
<1>6. text'["spin"] = "new" => text["spin"] = "new" \/ "spin" \in todo
  BY <1>2, FilesAre, SitesAre, InSite
<1> QED BY <1>1, <1>3, <1>4, <1>5, <1>6, BootAgain DEF Tear

\* Every step of a boot keeps the invariant.
LEMMA BootStays ==
  ASSUME BootInv, [BootNext]_bootVars PROVE BootInv'
<1>1. CASE UNCHANGED bootVars
  <2>1. /\ env' = env /\ text' = text /\ parses' = parses /\ at' = at /\ todo' = todo
        /\ staged' = staged /\ phase' = phase /\ torn' = torn /\ deaths' = deaths
    BY <1>1 DEF bootVars
  <2>2. Needs' = Needs /\ Wanted' = Wanted
    BY <2>1 DEF Needs, Wanted
  <2>3. \A p, s : Met(p, s)' <=> Met(p, s)
    BY <2>1 DEF Met
  <2>4. Pending' /\ Installed'
    BY <2>1, <2>2, <2>3 DEF BootInv, Pending, Installed, Fits
  <2> QED BY <2>1, <2>2, <2>4 DEF BootInv, BootTypes, Sound, SpinIsWanted
<1> QED
  BY <1>1, JudgeKeeps, WriteKeeps, ServeKeeps, DieKeeps, TearKeeps, RestartKeeps DEF BootNext

\* A rank that serves has every overlay it asked for, whole and with the
\* helpers its code calls, for every image, environment and history of deaths.
THEOREM EveryOverlayIsServed == BootSpec => []ServedMeansPatched
<1>1. BootInit => BootInv
  BY BootStarts
<1>2. BootInv /\ [BootNext]_bootVars => BootInv'
  BY BootStays
<1>3. BootInv => ServedMeansPatched
  <2>1. SUFFICES ASSUME BootInv, phase = "serving", NEW i \in DOMAIN AllScripts, NEW s \in Needs[AllScripts[i]]
                 PROVE  Met(AllScripts[i], s)
    BY DEF ServedMeansPatched, Met
  <2>2. i \in 1..(at - 1)
    BY <2>1, ScriptIs DEF BootInv
  <2> QED BY <2>1, <2>2 DEF BootInv, Installed
<1> QED BY <1>1, <1>2, <1>3, PTL DEF BootSpec

\* A boot that is refused found a file that a death truncated.
THEOREM RefusalsAreOfTornFiles == BootSpec => []OnlyTornFilesRefuse
<1>1. BootInit => BootInv
  BY BootStarts
<1>2. BootInv /\ [BootNext]_bootVars => BootInv'
  BY BootStays
<1>3. BootInv => OnlyTornFilesRefuse
  BY DEF BootInv, OnlyTornFilesRefuse
<1> QED BY <1>1, <1>2, <1>3, PTL DEF BootSpec
=============================================================================

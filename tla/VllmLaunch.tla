----------------------------- MODULE VllmLaunch -----------------------------
(***************************************************************************)
(* start.sh of the vLLM lane as it brings two containers up: the image on  *)
(* the head and on the worker (ensure_image), the launch (launch_cluster), *)
(* the wait for /health (wait_for_health) and stop.  A shell is a terminal *)
(* in which an operator runs `./start.sh start`, `restart` or `stop`; the  *)
(* worker is reached over ssh.  The weights are in WeightStore.            *)
(***************************************************************************)
EXTENDS Naturals

CONSTANTS
  Shells,      \* terminals
  Cmds,        \* Cmds[s]: the commands given in shell s
  Tags,        \* forms of IMAGE: "ghcr" names a registry tag, "local" does not
  Knobs,       \* environments of an invocation
  MaxRecipe,   \* bound on the recipe stamps
  MaxRuns,     \* bound on the invocations
  MaxFaults,   \* bound on commands and containers that fail, and on Ctrl-C
  MaxHiccups,  \* bound on failed inspections of the worker during one wait
  ReadyPolls   \* READY_TIMEOUT / 10

Env == [build : BOOLEAN, skipBuild : BOOLEAN, pull : BOOLEAN,
        skipPull : BOOLEAN, skipShip : BOOLEAN]
AllCmds == {"start", "restart", "stop"}

ASSUME VllmLaunchAssumption ==
  /\ Cmds \in [Shells -> SUBSET AllCmds]
  /\ Tags \subseteq {"ghcr", "local"} /\ Knobs \subseteq Env
  /\ MaxRecipe \in Nat /\ MaxRuns \in Nat /\ MaxFaults \in Nat
  /\ MaxHiccups \in Nat /\ ReadyPolls \in Nat \ {0}

VARIABLES
  tag,      \* the form of IMAGE
  recipe,   \* overlay_recipe_hash of the checkout
  registry, \* the stamp of the image the registry serves under IMAGE
  image,    \* image[n]: what IMAGE names on node n
  cont,     \* cont[n]: the container of rank n
  pc,       \* pc[s]: the stage of the invocation in shell s
  inv,      \* inv[s]: its number, command and environment
  loc,      \* loc[s]: the locals of ensure_image
  poll,     \* poll[s]: the locals of wait_for_health, and the failed inspections
  runs,     \* invocations so far
  faults

origin == <<tag, recipe, registry>>
shell == <<pc, inv, loc, poll>>
vars == <<origin, image, cont, shell, runs, faults>>

Nodes == {"head", "worker"}
Stamps == 0 .. MaxRecipe

\* digest: the image has a RepoDigest; docker save | docker load may lose it.
Images == [stamp : Stamps, from : {"registry", "build"}, digest : BOOLEAN]
NoImage == [stamp |-> 0, from |-> "none", digest |-> FALSE]

Pulled == [stamp |-> registry, from |-> "registry", digest |-> TRUE]
Built == [stamp |-> recipe, from |-> "build", digest |-> FALSE]

Content(i) == <<i.from, i.stamp>>

\* _IMAGE_KEY_FMT: the RepoDigest, or else the layers.
Key(i) == IF i.digest THEN <<"digest", i.stamp>> ELSE <<"layers", Content(i)>>

\* images_match: an absent image has an empty key, which matches nothing.
ImagesMatch(i, j) == i # NoImage /\ j # NoImage /\ Key(i) = Key(j)

Containers == [run : 1 .. MaxRuns, image : {Content(i) : i \in Images},
               st : {"boot", "loading", "serving", "exited"}]
NoCont == [run |-> 0, image |-> Content(NoImage), st |-> "none"]

Running(n) == cont[n].st \in {"boot", "loading", "serving"}

Stages == {"idle", "stopHead", "stopWorker", "preflight", "imageHead", "imageWorker",
           "rmHead", "rmWorker", "runWorker", "runHead", "wait"}
NoInv == [run |-> 0, cmd |-> "stop",
          knob |-> [build |-> FALSE, skipBuild |-> FALSE, pull |-> FALSE,
                    skipPull |-> FALSE, skipShip |-> FALSE]]
NoLoc == [wanted |-> 0, built |-> FALSE, workerOk |-> FALSE]
NoPoll == [n |-> 0, strikes |-> 0, hiccups |-> 0]

Invocations == [run : 0 .. MaxRuns, cmd : AllCmds, knob : Env]
Locals == [wanted : Stamps, built : BOOLEAN, workerOk : BOOLEAN]
Polls == [n : 0 .. ReadyPolls, strikes : 0 .. 2, hiccups : 0 .. MaxHiccups]

ShellTypeOK ==
  /\ pc \in [Shells -> Stages] /\ inv \in [Shells -> Invocations]
  /\ loc \in [Shells -> Locals] /\ poll \in [Shells -> Polls]

TypeOK ==
  /\ tag \in Tags /\ recipe \in Stamps /\ registry \in Stamps
  /\ image \in [Nodes -> Images \cup {NoImage}]
  /\ cont \in [Nodes -> Containers \cup {NoCont}]
  /\ ShellTypeOK
  /\ runs \in 0 .. MaxRuns /\ faults \in 0 .. MaxFaults

Fault == faults < MaxFaults /\ faults' = faults + 1

----------------------------------------------------------------------------
(* An invocation                                                           *)

Init ==
  /\ tag \in Tags /\ recipe = 0 /\ registry = 0
  /\ image = [n \in Nodes |-> NoImage] /\ cont = [n \in Nodes |-> NoCont]
  /\ pc = [s \in Shells |-> "idle"]
  /\ inv = [s \in Shells |-> NoInv]
  /\ loc = [s \in Shells |-> NoLoc] /\ poll = [s \in Shells |-> NoPoll]
  /\ runs = 0 /\ faults = 0

At(s, stage) == pc[s] = stage

Goes(s, stage) == pc' = [pc EXCEPT ![s] = stage] /\ UNCHANGED inv

\* The process ends; its environment and its locals go with it.
Ends(s) ==
  /\ pc' = [pc EXCEPT ![s] = "idle"]
  /\ inv' = [inv EXCEPT ![s] = NoInv] /\ loc' = [loc EXCEPT ![s] = NoLoc]
  /\ poll' = [poll EXCEPT ![s] = NoPoll]

\* die, or a command that fails under set -e.
Dies(s) == Ends(s) /\ UNCHANGED <<image, cont>>

Invoke(s) ==
  /\ At(s, "idle") /\ runs < MaxRuns
  /\ \E c \in Cmds[s], k \in Knobs \cup {NoInv.knob} :
       /\ c = "stop" => k = NoInv.knob
       /\ inv' = [inv EXCEPT ![s] = [run |-> runs + 1, cmd |-> c, knob |-> k]]
       /\ pc' = [pc EXCEPT ![s] = IF c = "start" THEN "preflight" ELSE "stopHead"]
  /\ runs' = runs + 1
  /\ UNCHANGED <<origin, image, cont, loc, poll, faults>>

\* stop: docker rm -f, whose failure reads "no container was running".
StopHead(s) ==
  /\ At(s, "stopHead") /\ Goes(s, "stopWorker")
  /\ \/ cont' = [cont EXCEPT !["head"] = NoCont] /\ UNCHANGED faults
     \/ Fault /\ UNCHANGED cont
  /\ UNCHANGED <<origin, image, loc, poll, runs>>

StopWorker(s) ==
  /\ At(s, "stopWorker")
  /\ IF inv[s].cmd = "restart"
       THEN Goes(s, "preflight") /\ UNCHANGED <<loc, poll>>
       ELSE Ends(s)
  /\ \/ cont' = [cont EXCEPT !["worker"] = NoCont] /\ UNCHANGED faults
     \/ Fault /\ UNCHANGED cont
  /\ UNCHANGED <<origin, image, runs>>

\* check_port_free: rank 0 listens on MASTER_PORT from the time it loads.
PortHeld == cont["head"].st \in {"loading", "serving"}

Preflight(s) ==
  /\ At(s, "preflight")
  /\ IF PortHeld
       THEN Dies(s)
       ELSE Goes(s, "imageHead") /\ UNCHANGED <<image, cont, loc, poll>>
  /\ UNCHANGED <<origin, runs, faults>>

----------------------------------------------------------------------------
(* ensure_image                                                            *)

\* PULL=1 overrides SKIP_PULL=1.
SkipPull(s) == inv[s].knob.skipPull /\ ~inv[s].knob.pull

MayPull(s) == tag = "ghcr" /\ ~SkipPull(s)

\* An image that is not the checkout's recipe is rebuilt, unless SKIP_BUILD=1.
BuildWanted(s) ==
  \/ inv[s].knob.build
  \/ ~inv[s].knob.skipBuild /\ (image["head"] = NoImage \/ image["head"].stamp # recipe)

\* Mutant: an image built on the head is believed to be on the worker.
BuildsForBoth(s) ==
  /\ image' = [image EXCEPT !["head"] = Built]
  /\ loc' = [loc EXCEPT ![s] = [wanted |-> recipe, built |-> BuildWanted(s),
                                workerOk |-> ImagesMatch(image["head"], image["worker"])]]

Builds(s) ==
  /\ image' = [image EXCEPT !["head"] = Built]
  /\ loc' = [loc EXCEPT ![s] = [wanted |-> recipe, built |-> BuildWanted(s),
                                workerOk |-> FALSE]]

Pulls(s) ==
  /\ image' = [image EXCEPT !["head"] = Pulled]
  /\ loc' = [loc EXCEPT ![s] = [wanted |-> recipe, built |-> FALSE,
                                workerOk |-> ImagesMatch(image["worker"], Pulled)]]

Keeps(s) ==
  /\ loc' = [loc EXCEPT ![s] = [wanted |-> recipe, built |-> FALSE,
                                workerOk |-> ImagesMatch(image["head"], image["worker"])]]
  /\ UNCHANGED image

\* SKIP_PULL=1 on a registry tag that is not there.
NothingToRun(s) == image["head"] = NoImage /\ tag = "ghcr" /\ SkipPull(s)

ImageHead(s) ==
  /\ At(s, "imageHead")
  /\ IF ~BuildWanted(s) /\ NothingToRun(s)
       THEN Dies(s)
       ELSE /\ CASE BuildWanted(s) -> Builds(s)
                 [] ~BuildWanted(s) /\ MayPull(s) -> Pulls(s)
                 [] ~BuildWanted(s) /\ ~MayPull(s) /\ image["head"] = NoImage -> Builds(s)
                 [] OTHER -> Keeps(s)
            /\ Goes(s, "imageWorker") /\ UNCHANGED <<cont, poll>>
  /\ UNCHANGED <<origin, runs, faults>>

\* docker pull on the worker, if that makes the keys equal.
WorkerPulls(s) ==
  /\ MayPull(s) /\ ~loc[s].built /\ ImagesMatch(image["head"], Pulled)
  /\ image' = [image EXCEPT !["worker"] = Pulled]

\* docker save | ssh docker load, after a pull that was not tried, failed or
\* left another image.  A key that still differs is accepted.
Ships ==
  \E d \in {FALSE, image["head"].digest} :
    image' = [image EXCEPT !["worker"] = [image["head"] EXCEPT !.digest = d]]

ImageWorker(s) ==
  /\ At(s, "imageWorker")
  /\ IF inv[s].knob.skipShip \/ loc[s].workerOk
       THEN UNCHANGED image
       ELSE WorkerPulls(s) \/ Ships
  /\ Goes(s, "rmHead") /\ UNCHANGED <<origin, cont, loc, poll, runs, faults>>

----------------------------------------------------------------------------
(* launch_cluster                                                          *)

RmHead(s) ==
  /\ At(s, "rmHead") /\ Goes(s, "rmWorker")
  /\ \/ cont' = [cont EXCEPT !["head"] = NoCont] /\ UNCHANGED faults
     \/ Fault /\ UNCHANGED cont
  /\ UNCHANGED <<origin, image, loc, poll, runs>>

RmWorker(s) ==
  /\ At(s, "rmWorker") /\ Goes(s, "runWorker")
  /\ \/ cont' = [cont EXCEPT !["worker"] = NoCont] /\ UNCHANGED faults
     \/ Fault /\ UNCHANGED cont
  /\ UNCHANGED <<origin, image, loc, poll, runs>>

\* docker run -d --name: the name must be free.  An image that is not on the
\* node is pulled by docker itself.
DockerRun(s, n) ==
  LET i == IF image[n] = NoImage THEN Pulled ELSE image[n] IN
  /\ image' = [image EXCEPT ![n] = i]
  /\ cont' = [cont EXCEPT ![n] = [run |-> inv[s].run, image |-> Content(i), st |-> "boot"]]

CanRun(n) == cont[n] = NoCont /\ (image[n] # NoImage \/ tag = "ghcr")

\* Mutant: a container of that name will do.
RunOrAdopt(s, n, next) ==
  IF CanRun(n)
    THEN DockerRun(s, n) /\ Goes(s, next) /\ UNCHANGED <<loc, poll>>
    ELSE IF cont[n] # NoCont
           THEN Goes(s, next) /\ UNCHANGED <<image, cont, loc, poll>>
           ELSE Dies(s)

Run(s, n, next) ==
  IF CanRun(n)
    THEN DockerRun(s, n) /\ Goes(s, next) /\ UNCHANGED <<loc, poll>>
    ELSE Dies(s)

RunWorker(s) ==
  At(s, "runWorker") /\ Run(s, "worker", "runHead") /\ UNCHANGED <<origin, runs, faults>>

RunHead(s) ==
  At(s, "runHead") /\ Run(s, "head", "wait") /\ UNCHANGED <<origin, runs, faults>>

----------------------------------------------------------------------------
(* wait_for_health                                                         *)

Waits(s) == At(s, "wait") /\ poll[s].n < ReadyPolls

Strikes == 3

\* /health answers: warm-up, banner, done.
Up(s) ==
  /\ Waits(s) /\ cont["head"].st = "serving" /\ Ends(s)
  /\ UNCHANGED <<origin, image, cont, runs, faults>>

HeadExited(s) ==
  /\ Waits(s) /\ ~Running("head") /\ Dies(s)
  /\ UNCHANGED <<origin, runs, faults>>

\* sleep 10
Sleeps(s, strikes, hiccups) ==
  poll' = [poll EXCEPT ![s] = [n |-> @.n + 1, strikes |-> strikes, hiccups |-> hiccups]]

WorkerSeen(s) ==
  /\ Waits(s) /\ cont["head"].st \in {"boot", "loading"} /\ Running("worker")
  /\ Sleeps(s, 0, poll[s].hiccups) /\ Goes(s, "wait")
  /\ UNCHANGED <<origin, image, cont, loc, runs, faults>>

\* The worker does not run, or ssh or docker failed to say so.
WorkerMissed(s) ==
  /\ Waits(s) /\ cont["head"].st \in {"boot", "loading"}
  /\ \E h \in {0, 1} :
       /\ h = 0 => ~Running("worker")
       /\ poll[s].hiccups + h <= MaxHiccups
       /\ IF poll[s].strikes + 1 >= Strikes
            THEN Ends(s) /\ UNCHANGED <<image, cont>>
            ELSE /\ Sleeps(s, poll[s].strikes + 1, poll[s].hiccups + h)
                 /\ Goes(s, "wait") /\ UNCHANGED <<image, cont, loc>>
  /\ UNCHANGED <<origin, runs, faults>>

TimedOut(s) ==
  /\ At(s, "wait") /\ poll[s].n >= ReadyPolls /\ Dies(s)
  /\ UNCHANGED <<origin, runs, faults>>

----------------------------------------------------------------------------
(* What may go wrong, and the world                                        *)

\* A command fails under set -e: docker build, docker pull, scp, ssh, hf, rsync.
CommandFails(s) ==
  /\ pc[s] \in {"preflight", "imageHead", "imageWorker", "runWorker", "runHead"}
  /\ Fault /\ Dies(s) /\ UNCHANGED <<origin, runs>>

\* Ctrl-C: containers keep running.
Interrupt(s) ==
  /\ ~At(s, "idle") /\ Fault /\ Ends(s)
  /\ UNCHANGED <<origin, image, cont, runs>>

Becomes(n, st) == cont' = [cont EXCEPT ![n] = [@ EXCEPT !.st = st]]

\* The inner script patches vLLM and execs it; or a patch or config.json is
\* missing and it exits.
Boot(n) ==
  /\ cont[n].st = "boot"
  /\ \/ Becomes(n, "loading") /\ UNCHANGED faults
     \/ Becomes(n, "exited") /\ Fault
  /\ UNCHANGED <<origin, image, shell, runs>>

\* Rank 1 finds rank 0 at HEAD_IP:MASTER_PORT, whoever started it.
Rendezvous ==
  /\ \A n \in Nodes : cont[n].st = "loading"
  /\ cont' = [n \in Nodes |-> [cont[n] EXCEPT !.st = "serving"]]
  /\ UNCHANGED <<origin, image, shell, runs, faults>>

RankExits(n) ==
  /\ cont[n].st \in {"loading", "serving"} /\ Fault /\ Becomes(n, "exited")
  /\ UNCHANGED <<origin, image, shell, runs>>

\* git pull changes the Dockerfile or the overlay.
GitPull ==
  /\ recipe < MaxRecipe /\ recipe' = recipe + 1
  /\ UNCHANGED <<tag, registry, image, cont, shell, runs, faults>>

\* The registry tag moves.
Publish ==
  /\ registry < MaxRecipe /\ registry' = registry + 1
  /\ UNCHANGED <<tag, recipe, image, cont, shell, runs, faults>>

Step(s) ==
  \/ StopHead(s) \/ StopWorker(s) \/ Preflight(s)
  \/ ImageHead(s) \/ ImageWorker(s)
  \/ RmHead(s) \/ RmWorker(s) \/ RunWorker(s) \/ RunHead(s)
  \/ Up(s) \/ HeadExited(s) \/ WorkerSeen(s) \/ WorkerMissed(s) \/ TimedOut(s)

Next ==
  \/ \E s \in Shells : Invoke(s) \/ Step(s) \/ CommandFails(s) \/ Interrupt(s)
  \/ \E n \in Nodes : Boot(n) \/ RankExits(n)
  \/ Rendezvous \/ GitPull \/ Publish

Spec == Init /\ [][Next]_vars

----------------------------------------------------------------------------
(* Properties                                                              *)

\* on_ready speaks of the containers this start launched: after interrupted
\* starts, failed docker rm -f and a stop from another terminal, /health is
\* never answered by, nor computed with, a rank of an earlier launch.
UpIsThisLaunch ==
  [][\A s \in Shells : Up(s) =>
       /\ cont["head"].run = inv[s].run
       /\ cont["worker"].run \in {0, inv[s].run}]_vars

\* ensure_image: unless SKIP_SHIP=1, the two ranks of a server that came up
\* run one image, however the keys of pulled, built and shipped images compare.
UpRanksShareImage ==
  [][\A s \in Shells :
       Up(s) /\ ~inv[s].knob.skipShip /\ cont["worker"] # NoCont
         => cont["worker"].image = cont["head"].image]_vars
============================================================================

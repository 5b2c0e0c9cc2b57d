------------------------------ MODULE Bringup ------------------------------
(***************************************************************************)
(* Bring-up and shutdown of the two-rank SGLang service: start-glm53.sh,   *)
(* stop-glm53.sh, the startup memory guard that runs beside each rank      *)
(* (oom-guard-node.sh) and the scripts that arm and disarm it through a    *)
(* PID file.  The start script runs on the head node and drives the worker *)
(* through ssh, so every remote command can fail while the local ones go   *)
(* on; guards and containers outlive the script that started them.         *)
(*                                                                         *)
(* One command of a script is one step.  A container is named by the run   *)
(* of the start script that created it, because every `up` recreates it    *)
(* and a guard stops the exact container id it read.                       *)
(***************************************************************************)
EXTENDS Integers, FiniteSets

CONSTANTS
  Starters,     \* runs of start-glm53.sh
  Earlier,      \* a deployment of an earlier run (a container id too)
  None,         \* no container, no PID file
  Pids,         \* process ids a node may hand out
  WaitRounds,   \* readiness polls before START_WAIT_TIMEOUT
  Overlap,      \* may a start begin while another one is still running?
  OomGuards,    \* values of OOM_GUARD the profiles use
  Smokes,       \* values of START_SMOKE
  MaxFaults,    \* bound on crashes, lost links, docker errors, reused PIDs
  MaxInterrupts,\* bound on signals sent to a start script
  Stops         \* is stop-glm53.sh run?

Head == "head"
Worker == "worker"
Ranks == {Head, Worker}

Preparing == {"preflight", "checkHead", "checkWorker"}
Raising == {"upWorker", "guardWorker", "verifyWorker", "upHead", "guardHead",
            "waitHead", "waitWorker", "probe", "disarmHead", "disarmWorker",
            "smoke"}
Cleaning == {"cleanHead", "cleanWorker", "cleanGuardHead", "cleanGuardWorker"}
Ended == {"serving", "failed", "interrupted"}
Active == Preparing \cup Raising \cup Cleaning

StopPcs == {"idle", "stopHead", "guardHead", "sshTest", "stopWorker",
            "guardWorker", "reported", "stopFailed"}

GuardStates == {"guard", "unhealthy", "tripped"}
Invalid == "invalid"

ASSUME BringupAssumption ==
  /\ IsFiniteSet(Starters) /\ IsFiniteSet(Pids)
  /\ Earlier \notin Starters /\ None \notin Starters \cup {Earlier}
  /\ None \notin Pids /\ Invalid \notin Pids \cup {None}
  /\ WaitRounds \in Nat /\ MaxFaults \in Nat /\ MaxInterrupts \in Nat
  /\ Overlap \in BOOLEAN /\ Stops \in BOOLEAN
  /\ OomGuards \subseteq BOOLEAN /\ OomGuards # {}
  /\ Smokes \subseteq BOOLEAN /\ Smokes # {}

VARIABLES
  pc,         \* of each start: where the script stands
  elapsed,    \* of each start: readiness polls spent
  botched,    \* history: a command of the cleanup failed
  env,        \* [oomGuard, smoke]: OOM_GUARD and START_SMOKE
  stop,       \* stop-glm53.sh: [pc, result, alone]; alone is history: no
              \* start has been active since the stop began
  cont,       \* of each rank: the running container, or None
  api,        \* the head's API and tokenizer answer
  link,       \* ssh to the worker works
  proc,       \* of each rank and PID: free, other, or the state of a guard
  pidFile,    \* .glm53-guard-<role>.pid
  stops,      \* of each rank: ids of `docker stop` commands in flight
  faults, interrupts

scripts == <<pc, elapsed, botched, stop>>
guards == <<proc, pidFile, stops>>
bounds == <<faults, interrupts>>
vars == <<scripts, env, cont, api, link, guards, bounds>>

Ids == Starters \cup {Earlier}
Guards(r) == {p \in Pids : proc[r][p] \in GuardStates}
Quiet == \A s \in Starters : pc[s] \notin Active

Init ==
  /\ pc = [s \in Starters |-> "idle"]
  /\ elapsed = [s \in Starters |-> 0]
  /\ botched = [s \in Starters |-> FALSE]
  /\ env \in [oomGuard : OomGuards, smoke : Smokes]
  /\ stop = [pc |-> "idle", result |-> 0, alone |-> FALSE]
  /\ cont \in [Ranks -> {None, Earlier}]
  /\ api = FALSE
  /\ link = TRUE
  /\ pidFile \in [Ranks -> Pids \cup {None, Invalid}]
  /\ proc \in [Ranks -> [Pids -> {"free", "other"}]]
  /\ \A r \in Ranks, p \in Pids : proc[r][p] = "other" => pidFile[r] = p
  /\ stops = [r \in Ranks |-> {}]
  /\ faults = 0 /\ interrupts = 0

----------------------------------------------------------------------------
(* Building blocks: what one command of a script does.                     *)

Goto(s, p) == pc' = [pc EXCEPT ![s] = p]

\* Mutant: STARTED=1 is set before the two "already running" checks.
FailStartedEarly(s) ==
  Goto(s, IF pc[s] \in Raising \cup {"checkHead", "checkWorker"}
            THEN "cleanHead" ELSE "failed")

\* A command failed under `set -e`, or glm53_die: the EXIT trap cleans up
\* when STARTED=1.
Fail(s) == Goto(s, IF pc[s] \in Raising THEN "cleanHead" ELSE "failed")

\* The container of rank r becomes c; the API dies with the head it ran in.
Replace(r, c) ==
  /\ cont' = [cont EXCEPT ![r] = c]
  /\ api' = (api /\ (r = Worker \/ c = cont[r]))

NoContainerChange == UNCHANGED <<cont, api>>

\* Mutant: the PID file is removed without a look at the process.
StopGuardOnlyFile(r, ok) ==
  /\ ok
  /\ pidFile' = [pidFile EXCEPT ![r] = None]
  /\ UNCHANGED <<proc, stops>>

\* glm53_stop_guard_pid_file: kills the guard the file names and removes the
\* file; refuses when the PID belongs to another program.  The bash process
\* dies, a `docker stop` it had started does not.
StopGuard(r, ok) ==
  LET p == pidFile[r] IN
  /\ ok = ~(p \in Pids /\ proc[r][p] = "other")
  /\ IF ok
       THEN /\ pidFile' = [pidFile EXCEPT ![r] = None]
            /\ proc' = IF p \in Guards(r)
                         THEN [proc EXCEPT ![r][p] = "free"] ELSE proc
       ELSE UNCHANGED <<proc, pidFile>>
  /\ UNCHANGED stops

\* Mutant: start-guard-node.sh without the stop of the previous guard.
StartGuardNoStop(r, ok) ==
  \/ ~env.oomGuard /\ ok /\ UNCHANGED guards
  \/ /\ env.oomGuard /\ ok
     /\ \E p \in Pids :
          /\ proc[r][p] = "free"
          /\ proc' = [proc EXCEPT ![r][p] = "guard"]
          /\ pidFile' = [pidFile EXCEPT ![r] = p]
     /\ UNCHANGED stops

\* start-guard-node.sh: stop the guard the file names, then start a new one.
StartGuard(r, ok) ==
  \/ ~env.oomGuard /\ ok /\ UNCHANGED guards
  \/ /\ env.oomGuard
     /\ ok = ~(pidFile[r] \in Pids /\ proc[r][pidFile[r]] = "other")
     /\ IF ok
          THEN LET rest == [q \in Pids |->
                     IF q = pidFile[r] /\ q \in Guards(r) THEN "free"
                       ELSE proc[r][q]]
               IN \E p \in Pids :
                    /\ rest[p] = "free"
                    /\ proc' = [proc EXCEPT ![r] = [rest EXCEPT ![p] = "guard"]]
                    /\ pidFile' = [pidFile EXCEPT ![r] = p]
          ELSE UNCHANGED <<proc, pidFile>>
     /\ UNCHANGED stops

\* docker or compose fails although nothing else is wrong.
DockerError == faults < MaxFaults /\ faults' = faults + 1

----------------------------------------------------------------------------
(* start-glm53.sh                                                          *)

StartUnchanged == UNCHANGED <<botched, env, link, interrupts>>

Begin(s) ==
  /\ pc[s] = "idle" /\ (Overlap \/ Quiet)
  /\ Goto(s, "preflight")
  /\ stop' = [stop EXCEPT !.alone = FALSE]
  /\ StartUnchanged /\ NoContainerChange /\ UNCHANGED <<elapsed, guards, faults>>

\* validate-env, ssh, sync of the worker, doctor, checkpoint check.
Preflight(s) ==
  /\ pc[s] = "preflight"
  /\ (link /\ Goto(s, "checkHead")) \/ Fail(s)
  /\ StartUnchanged /\ NoContainerChange
  /\ UNCHANGED <<elapsed, stop, guards, faults>>

CheckHead(s) ==
  /\ pc[s] = "checkHead"
  /\ IF cont[Head] # None THEN Fail(s) ELSE Goto(s, "checkWorker")
  /\ StartUnchanged /\ NoContainerChange
  /\ UNCHANGED <<elapsed, stop, guards, faults>>

\* `[ -n "$(ssh ...)" ]`: a failed ssh prints nothing and passes the check.
CheckWorker(s) ==
  /\ pc[s] = "checkWorker"
  /\ IF link /\ cont[Worker] # None THEN Fail(s) ELSE Goto(s, "upWorker")
  /\ StartUnchanged /\ NoContainerChange
  /\ UNCHANGED <<elapsed, stop, guards, faults>>

\* up -d --force-recreate of rank r; the script may hear of a failure
\* although the container was created.
Up(s, r, reachable, next) ==
  /\ \/ reachable /\ Replace(r, s) /\ Goto(s, next) /\ UNCHANGED faults
     \/ reachable /\ Replace(r, s) /\ Fail(s) /\ DockerError
     \/ reachable /\ NoContainerChange /\ Fail(s) /\ DockerError
     \/ ~reachable /\ NoContainerChange /\ Fail(s) /\ UNCHANGED faults
  /\ StartUnchanged /\ UNCHANGED <<elapsed, stop, guards>>

UpWorker(s) == pc[s] = "upWorker" /\ Up(s, Worker, link, "guardWorker")
UpHead(s) == pc[s] = "upHead" /\ Up(s, Head, TRUE, "guardHead")

Arm(s, r, reachable, next) ==
  /\ IF reachable
       THEN \E ok \in BOOLEAN :
              StartGuard(r, ok) /\ IF ok THEN Goto(s, next) ELSE Fail(s)
       ELSE UNCHANGED guards /\ Fail(s)
  /\ StartUnchanged /\ NoContainerChange /\ UNCHANGED <<elapsed, stop, faults>>

GuardWorker(s) == pc[s] = "guardWorker" /\ Arm(s, Worker, link, "verifyWorker")
GuardHead(s) == pc[s] = "guardHead" /\ Arm(s, Head, TRUE, "waitHead")

VerifyWorker(s) ==
  /\ pc[s] = "verifyWorker"
  /\ IF link /\ cont[Worker] # None THEN Goto(s, "upHead") ELSE Fail(s)
  /\ StartUnchanged /\ NoContainerChange
  /\ UNCHANGED <<elapsed, stop, guards, faults>>

\* Mutant: the wait loop has no deadline.
TimedOutNever(s) == FALSE
TimedOut(s) == elapsed[s] >= WaitRounds

WaitHead(s) ==
  /\ pc[s] = "waitHead"
  /\ IF TimedOut(s) \/ cont[Head] = None THEN Fail(s) ELSE Goto(s, "waitWorker")
  /\ StartUnchanged /\ NoContainerChange
  /\ UNCHANGED <<elapsed, stop, guards, faults>>

WaitWorker(s) ==
  /\ pc[s] = "waitWorker"
  /\ IF link /\ cont[Worker] # None THEN Goto(s, "probe") ELSE Fail(s)
  /\ StartUnchanged /\ NoContainerChange
  /\ UNCHANGED <<elapsed, stop, guards, faults>>

\* api_reports_ready; a probe can time out although the API is up.
Probe(s) ==
  /\ pc[s] = "probe"
  /\ \/ api /\ Goto(s, "disarmHead") /\ UNCHANGED elapsed
     \/ /\ Goto(s, "waitHead")
        /\ elapsed' = [elapsed EXCEPT ![s] =
                         IF elapsed[s] < WaitRounds THEN elapsed[s] + 1 ELSE WaitRounds]
  /\ StartUnchanged /\ NoContainerChange /\ UNCHANGED <<stop, guards, faults>>

Disarm(s, r, reachable, next) ==
  /\ IF reachable
       THEN \E ok \in BOOLEAN :
              StopGuard(r, ok) /\ IF ok THEN Goto(s, next) ELSE Fail(s)
       ELSE UNCHANGED guards /\ Fail(s)
  /\ StartUnchanged /\ NoContainerChange /\ UNCHANGED <<elapsed, stop, faults>>

DisarmHead(s) == pc[s] = "disarmHead" /\ Disarm(s, Head, TRUE, "disarmWorker")
DisarmWorker(s) == pc[s] = "disarmWorker" /\ Disarm(s, Worker, link, "smoke")

\* smoke-glm53.sh unless START_SMOKE=0, then READY=1 and the announcement.
Smoke(s) ==
  /\ pc[s] = "smoke"
  /\ \/ (~env.smoke \/ api) /\ Goto(s, "serving")
     \/ env.smoke /\ Fail(s)
  /\ StartUnchanged /\ NoContainerChange
  /\ UNCHANGED <<elapsed, stop, guards, faults>>

----------------------------------------------------------------------------
(* cleanup_failed_start: every command runs, whatever the earlier ones did *)

CleanUnchanged == UNCHANGED <<elapsed, stop, env, link, interrupts>>
Botch(s, failed) == botched' = [botched EXCEPT ![s] = @ \/ failed]

CleanRank(s, r, reachable, next) ==
  /\ \/ reachable /\ Replace(r, None) /\ Botch(s, FALSE) /\ UNCHANGED faults
     \/ reachable /\ NoContainerChange /\ Botch(s, TRUE) /\ DockerError
     \/ ~reachable /\ NoContainerChange /\ Botch(s, TRUE) /\ UNCHANGED faults
  /\ Goto(s, next) /\ CleanUnchanged /\ UNCHANGED guards

CleanHead(s) == pc[s] = "cleanHead" /\ CleanRank(s, Head, TRUE, "cleanWorker")

CleanWorker(s) ==
  pc[s] = "cleanWorker" /\ CleanRank(s, Worker, link, "cleanGuardHead")

CleanGuard(s, r, reachable, next) ==
  /\ IF reachable
       THEN \E ok \in BOOLEAN : StopGuard(r, ok) /\ Botch(s, ~ok)
       ELSE UNCHANGED guards /\ Botch(s, TRUE)
  /\ Goto(s, next) /\ CleanUnchanged /\ NoContainerChange /\ UNCHANGED faults

CleanGuardHead(s) ==
  pc[s] = "cleanGuardHead" /\ CleanGuard(s, Head, TRUE, "cleanGuardWorker")
CleanGuardWorker(s) ==
  pc[s] = "cleanGuardWorker" /\ CleanGuard(s, Worker, link, "failed")

\* SIGINT, SIGTERM or SIGHUP.  bash runs the EXIT trap with $? of the last
\* completed command, which is 0 while a command is in the foreground: the
\* trap sees status 0 and does nothing.  During cleanup the trap is reset.
Interrupt(s) ==
  /\ pc[s] \in Active
  /\ interrupts < MaxInterrupts /\ interrupts' = interrupts + 1
  /\ Goto(s, "interrupted")
  /\ UNCHANGED <<elapsed, botched, env, stop, cont, api, link, guards, faults>>

StartStep(s) ==
  \/ Preflight(s) \/ CheckHead(s) \/ CheckWorker(s)
  \/ UpWorker(s) \/ GuardWorker(s) \/ VerifyWorker(s) \/ UpHead(s) \/ GuardHead(s)
  \/ WaitHead(s) \/ WaitWorker(s) \/ Probe(s)
  \/ DisarmHead(s) \/ DisarmWorker(s) \/ Smoke(s)
  \/ CleanHead(s) \/ CleanWorker(s) \/ CleanGuardHead(s) \/ CleanGuardWorker(s)

----------------------------------------------------------------------------
(* stop-glm53.sh (stop and --down leave the same running containers)       *)

StopUnchanged == UNCHANGED <<pc, elapsed, botched, env, link, interrupts>>
StopGoto(p, failed) ==
  stop' = [stop EXCEPT !.pc = p, !.result = IF failed THEN 1 ELSE @]

StopBegin ==
  /\ Stops /\ stop.pc = "idle"
  /\ stop' = [pc |-> "stopHead", result |-> 0, alone |-> Quiet]
  /\ StopUnchanged /\ NoContainerChange /\ UNCHANGED <<guards, faults>>

StopRank(r, reachable, next) ==
  /\ \/ reachable /\ Replace(r, None) /\ StopGoto(next, FALSE) /\ UNCHANGED faults
     \/ reachable /\ NoContainerChange /\ StopGoto(next, TRUE) /\ DockerError
     \/ ~reachable /\ NoContainerChange /\ StopGoto(next, TRUE) /\ UNCHANGED faults
  /\ StopUnchanged /\ UNCHANGED guards

StopHead == stop.pc = "stopHead" /\ StopRank(Head, TRUE, "guardHead")
StopWorker == stop.pc = "stopWorker" /\ StopRank(Worker, link, "guardWorker")

StopGuardHead ==
  /\ stop.pc = "guardHead"
  /\ \E ok \in BOOLEAN : StopGuard(Head, ok)
  /\ StopGoto("sshTest", FALSE)
  /\ StopUnchanged /\ NoContainerChange /\ UNCHANGED faults

\* Mutant: an unreachable worker is only warned about.
SshTestOnlyWarns ==
  /\ stop.pc = "sshTest"
  /\ IF link THEN StopGoto("stopWorker", FALSE) ELSE StopGoto("reported", FALSE)
  /\ StopUnchanged /\ NoContainerChange /\ UNCHANGED <<guards, faults>>

SshTest ==
  /\ stop.pc = "sshTest"
  /\ IF link THEN StopGoto("stopWorker", FALSE) ELSE StopGoto("stopFailed", TRUE)
  /\ StopUnchanged /\ NoContainerChange /\ UNCHANGED <<guards, faults>>

StopGuardWorker ==
  /\ stop.pc = "guardWorker"
  /\ IF link THEN \E ok \in BOOLEAN : StopGuard(Worker, ok) ELSE UNCHANGED guards
  /\ StopGoto(IF stop.result = 0 THEN "reported" ELSE "stopFailed", FALSE)
  /\ StopUnchanged /\ NoContainerChange /\ UNCHANGED faults

StopStep ==
  StopHead \/ StopGuardHead \/ SshTest \/ StopWorker \/ StopGuardWorker

----------------------------------------------------------------------------
(* oom-guard-node.sh: one loop of the guard with PID p on rank r           *)

GuardUnchanged == UNCHANGED <<scripts, env, cont, api, link, pidFile, bounds>>
Becomes(r, p, g) == proc' = [proc EXCEPT ![r][p] = g]

GuardHealthy(r, p) ==
  /\ proc[r][p] = "guard" /\ api
  /\ Becomes(r, p, "free") /\ UNCHANGED stops /\ GuardUnchanged

\* The probe fails: the API is down, or it does not answer in time.
GuardUnhealthy(r, p) ==
  /\ proc[r][p] = "guard"
  /\ Becomes(r, p, "unhealthy") /\ UNCHANGED stops /\ GuardUnchanged

\* MemAvailable is below the threshold: docker stop of the id just read.
GuardTrip(r, p) ==
  /\ proc[r][p] = "unhealthy" /\ cont[r] # None
  /\ Becomes(r, p, "tripped")
  /\ stops' = [stops EXCEPT ![r] = @ \cup {cont[r]}]
  /\ GuardUnchanged

GuardSleep(r, p) ==
  /\ proc[r][p] = "unhealthy"
  /\ Becomes(r, p, "guard") /\ UNCHANGED stops /\ GuardUnchanged

\* Mutant: the guard never gives up.
GuardTimeoutNever(r, p) == FALSE /\ UNCHANGED vars

GuardTimeout(r, p) ==
  /\ proc[r][p] = "unhealthy"
  /\ Becomes(r, p, "free") /\ UNCHANGED stops /\ GuardUnchanged

\* The docker stop returns; the guard that waits for it exits 2.
DockerStopDone(r) ==
  \E c \in stops[r] :
    /\ IF cont[r] = c THEN Replace(r, None) ELSE NoContainerChange
    /\ stops' = [stops EXCEPT ![r] = @ \ {c}]
    /\ proc' = [proc EXCEPT ![r] = [p \in Pids |->
                  IF proc[r][p] = "tripped" THEN "free" ELSE proc[r][p]]]
    /\ UNCHANGED <<scripts, env, link, pidFile, bounds>>

----------------------------------------------------------------------------
(* The environment: model load, crashes, the ssh link, reused PIDs         *)

Load ==
  /\ ~api /\ \A r \in Ranks : cont[r] # None
  /\ api' = TRUE
  /\ UNCHANGED <<scripts, env, cont, link, guards, bounds>>

Crash(r) ==
  /\ cont[r] # None /\ DockerError
  /\ Replace(r, None)
  /\ UNCHANGED <<scripts, env, link, guards, interrupts>>

LinkDown ==
  /\ link /\ DockerError /\ link' = FALSE
  /\ UNCHANGED <<scripts, env, cont, api, guards, interrupts>>

LinkUp ==
  /\ ~link /\ link' = TRUE
  /\ UNCHANGED <<scripts, env, cont, api, guards, bounds>>

\* Another program gets the PID a guard had; a node never runs out of PIDs.
ReusePid(r, p) ==
  /\ proc[r][p] = "free" /\ DockerError
  /\ \E q \in Pids \ {p} : proc[r][q] = "free"
  /\ Becomes(r, p, "other")
  /\ UNCHANGED <<scripts, env, cont, api, link, pidFile, stops, interrupts>>

GuardStep(r, p) ==
  \/ GuardHealthy(r, p) \/ GuardUnhealthy(r, p) \/ GuardTrip(r, p)
  \/ GuardSleep(r, p) \/ GuardTimeout(r, p)

Next ==
  \/ \E s \in Starters : Begin(s) \/ StartStep(s) \/ Interrupt(s)
  \/ StopBegin \/ StopStep
  \/ \E r \in Ranks, p \in Pids : GuardStep(r, p) \/ ReusePid(r, p)
  \/ \E r \in Ranks : DockerStopDone(r) \/ Crash(r)
  \/ Load \/ LinkDown \/ LinkUp

Spec == Init /\ [][Next]_vars

\* The scripts and the guards are running processes; a guard that keeps
\* looping reaches its deadline because the clock advances with every loop.
Fairness ==
  /\ \A s \in Starters : WF_vars(StartStep(s))
  /\ \A r \in Ranks, p \in Pids :
       WF_vars(GuardStep(r, p)) /\ SF_vars(GuardTimeout(r, p))
  /\ \A r \in Ranks : WF_vars(DockerStopDone(r))

LiveSpec == Spec /\ Fairness

----------------------------------------------------------------------------
(* Properties                                                              *)

\* Every variable has its type.
TypeOK ==
  /\ pc \in [Starters -> {"idle"} \cup Active \cup Ended]
  /\ elapsed \in [Starters -> 0..WaitRounds]
  /\ botched \in [Starters -> BOOLEAN]
  /\ env \in [oomGuard : BOOLEAN, smoke : BOOLEAN]
  /\ stop \in [pc : StopPcs, result : 0..1, alone : BOOLEAN]
  /\ cont \in [Ranks -> Ids \cup {None}]
  /\ api \in BOOLEAN /\ link \in BOOLEAN
  /\ proc \in [Ranks -> [Pids -> {"free", "other"} \cup GuardStates]]
  /\ pidFile \in [Ranks -> Pids \cup {None, Invalid}]
  /\ stops \in [Ranks -> SUBSET Ids]
  /\ faults \in 0..MaxFaults /\ interrupts \in 0..MaxInterrupts

\* A bring-up that failed after it touched the cluster, and whose cleanup
\* commands all worked, leaves neither a container it created nor a guard
\* (cleanup_failed_start, "stopping both ranks").
FailedStartLeavesNothing ==
  [][\A s \in Starters :
       pc[s] = "cleanGuardWorker" /\ pc'[s] = "failed" /\ ~botched'[s]
         => \A r \in Ranks : cont'[r] # s /\ Guards(r)' = {}]_vars

\* When a start announces the service no startup guard is alive on either
\* node, not even one left by an earlier start that was interrupted or that
\* could not reach the worker ("Disarming startup-only memory guards before
\* accepting traffic").
ServingIsDisarmed ==
  [][\A s \in Starters :
       pc[s] # "serving" /\ pc'[s] = "serving" => \A r \in Ranks : Guards(r)' = {}]_vars

\* No step of a start script stops or replaces a container of a deployment
\* that serves on both ranks: a second start is turned away by the two
\* "already running" checks and must clean up nothing.
ServingSurvivesOtherStarts ==
  [][\A s \in Starters :
       /\ pc[s] = "serving" /\ pc' # pc
       /\ \A r \in Ranks : cont[r] = s
       => cont' = cont]_vars

\* stop-glm53.sh prints "Both ranks stopped" only when no container runs,
\* unless a start was active since the stop began.
StopReportIsTrue ==
  [][stop.pc # "reported" /\ stop'.pc = "reported" /\ stop'.alone
       => \A r \in Ranks : cont'[r] = None]_vars

\* Every start script ends: the wait for readiness has a deadline.
StartTerminates ==
  \A s \in Starters : pc[s] \in Active ~> pc[s] \in Ended

\* No guard outlives its deadline, whoever forgot to disarm it.
GuardsTerminate ==
  \A r \in Ranks, p \in Pids :
    proc[r][p] \in GuardStates ~> proc[r][p] \notin GuardStates

\* As start-glm53.sh says of its EXIT trap: a bring-up that ends before
\* readiness stops both ranks.  A signal defeats it.
InterruptedStartIsCleaned ==
  \A s \in Starters : pc[s] = "interrupted" => \A r \in Ranks : cont[r] # s
=============================================================================

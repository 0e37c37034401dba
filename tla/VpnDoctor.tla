------------------------------ MODULE VpnDoctor ------------------------------
(***************************************************************************)
(* The doctor of src/scripts/vpn_doctor.py: repair, run by the cron job of *)
(* src/scripts/vpn_supervisor.sh and by an operator under one lock, and    *)
(* the cached preflight of src/scripts/vpn_ssh.sh.                         *)
(*                                                                         *)
(* A repair is a sequence of looks at containers, worker, runner and       *)
(* tunnel, and of changes to them.  Between any two of its steps a         *)
(* container may fail, somebody may give the worker a task, and the doctor *)
(* itself may be killed.                                                   *)
(***************************************************************************)
EXTENDS Integers

CONSTANTS
    HasProxy,       \* does the container bo-vpn-tcp-proxy exist?
    MaxFaults,      \* how many things go wrong by themselves
    MaxTasks,       \* how many tasks users give the worker
    MaxRuns         \* how often an operator runs repair

ASSUME DoctorAssumption ==
    /\ HasProxy \in BOOLEAN
    /\ MaxFaults \in Nat
    /\ MaxTasks \in Nat /\ MaxRuns \in Nat

Doctors == {"supervisor", "operator"}
Sidecars == {"runner"} \cup (IF HasProxy THEN {"proxy"} ELSE {})
Containers == {"univpn", "worker"} \cup Sidecars

\* Whose task the worker may execute; that of a doctor is a canary.
Askers == Doctors \cup {"user"}

VARIABLES
    up,             \* containers that run
    joined,         \* sidecars that share the present namespace of univpn
    hung,           \* does the runner not answer?
    tunnel,         \* are cnem_vnic and its route there?
    stuck,          \* does UniVPN take no login until its container is new?
    task,           \* whose task the worker executes, if it does
    known,          \* what the worker knows of the last task of each
    pc,             \* where each doctor is
    canaryIp,       \* was it given one?
    busySeen,       \* worker_status of the repair that holds the lock
    cache,          \* verdict in the preflight cache
    verdict,        \* verdict a preflight has come to and not yet written
    faults, tasks, runs,    \* how many there have been
    young,          \* ghost: the user's task came after the last look at the worker
    blind,          \* ghost: the last look got no answer
    calm,           \* ghost: nothing went wrong by itself since the repair began
    settled,        \* ghost: ... since a repair found everything healthy
    tried,          \* ghost: the doctor whose canary was the last to touch the path
    overtaken       \* ghost: the preflight was under way when the cache was removed

world == <<up, joined, hung, tunnel, stuck>>
handed == <<task, known, tasks, young>>
work == <<task, known, tasks, young, tried>>
repair == <<pc, canaryIp, runs, busySeen, blind>>
preflight == <<cache, verdict, overtaken>>
ghosts == <<faults, calm, settled>>
vars == <<world, work, repair, preflight, ghosts>>

RepairSteps == {"univpn", "worker", "stale", "look", "sidecars", "health", "runner",
                "recreate", "rewait", "vpn", "login", "poll", "verify", "reset",
                "resetSidecars", "resetWait", "loginAgain", "pollAgain", "final", "unlink"}
Steps == {"idle", "lock"} \cup RepairSteps
Verdicts == {"none", "ok", "bad"}

Connected(s) == s \in up /\ s \in joined
RunnerHealthy == "worker" \in up /\ Connected("runner") /\ ~ hung
VpnHealthy == "univpn" \in up /\ tunnel
Healthy == /\ up = Containers /\ joined = Sidecars
           /\ RunnerHealthy /\ VpnHealthy
LockFree == \A d \in Doctors : pc[d] \notin RepairSteps

Init == /\ up = Containers /\ joined = Sidecars
        /\ hung = FALSE /\ tunnel = TRUE /\ stuck = FALSE
        /\ task = "none" /\ known = [a \in Askers |-> "none"] /\ tried = "none"
        /\ pc = [d \in Doctors |-> "idle"]
        /\ canaryIp = [d \in Doctors |-> TRUE]
        /\ busySeen = FALSE
        /\ cache = "none" /\ verdict = "none"
        /\ faults = 0 /\ tasks = 0 /\ runs = 0
        /\ young = FALSE /\ blind = FALSE /\ calm = TRUE /\ settled = FALSE /\ overtaken = FALSE

Goto(d, step) == pc' = [pc EXCEPT ![d] = step]

-----------------------------------------------------------------------------
(* Starting a doctor.                                                        *)

(* vpn_supervisor.sh: the read-only status, then repair with the canary.     *)
SupervisorRuns ==
    /\ pc["supervisor"] = "idle"
    /\ ~ Healthy
    /\ Goto("supervisor", "lock")
    /\ UNCHANGED <<world, work, canaryIp, runs, busySeen, blind, preflight, ghosts>>

OperatorRuns ==
    /\ pc["operator"] = "idle"
    /\ runs < MaxRuns
    /\ runs' = runs + 1
    /\ Goto("operator", "lock")
    /\ \E given \in BOOLEAN : canaryIp' = [canaryIp EXCEPT !["operator"] = given]
    /\ UNCHANGED <<world, work, busySeen, blind, preflight, ghosts>>

(* Variant for mutation: the lock of another doctor does not hold one up.    *)
TakeLockAnyway(d) ==
    /\ pc[d] = "lock"
    /\ Goto(d, "univpn")
    /\ busySeen' = FALSE /\ blind' = FALSE
    /\ calm' = TRUE
    /\ UNCHANGED <<world, work, canaryIp, runs, preflight, faults, settled>>

TakeLock(d) ==
    /\ pc[d] = "lock"
    /\ LockFree
    /\ Goto(d, "univpn")
    /\ busySeen' = FALSE /\ blind' = FALSE
    /\ calm' = TRUE
    /\ UNCHANGED <<world, work, canaryIp, runs, preflight, faults, settled>>

(* Exit 75: the lock was not free for two minutes.                           *)
GiveUp(d) ==
    /\ pc[d] = "lock"
    /\ ~ LockFree
    /\ Goto(d, "idle")
    /\ UNCHANGED <<world, work, canaryIp, runs, busySeen, blind, preflight, ghosts>>

(* DoctorError: the repair ends and the preflight cache stays.               *)
Fail(d) == Goto(d, "idle")

-----------------------------------------------------------------------------
(* repair.                                                                   *)

(* A repair changes the path: what a canary did to it counts no more.        *)
Touch == tried' = "none"

(* univpn in a namespace of its own, which no sidecar shares.                *)
NewUnivpn == /\ up' = up \cup {"univpn"}
             /\ joined' = {}
             /\ tunnel' = FALSE /\ stuck' = FALSE

StartUnivpn(d) ==
    /\ pc[d] = "univpn"
    /\ Goto(d, "worker")
    /\ IF "univpn" \in up THEN UNCHANGED <<up, joined, tunnel, stuck, tried>>
                          ELSE NewUnivpn /\ Touch
    /\ UNCHANGED <<hung, handed, canaryIp, runs, busySeen, blind, preflight, ghosts>>

StartWorker(d) ==
    /\ pc[d] = "worker"
    /\ Goto(d, "stale")
    /\ IF "worker" \in up THEN UNCHANGED <<up, tried>>
                          ELSE up' = up \cup {"worker"} /\ Touch
    /\ UNCHANGED <<joined, hung, tunnel, stuck, handed, canaryIp, runs, busySeen, blind, preflight, ghosts>>

(* The namespace of a container that is down reads as None.                  *)
Stale(s) == IF "univpn" \in up THEN ~ Connected(s) ELSE s \in up

FindStale(d) ==
    /\ pc[d] = "stale"
    /\ Goto(d, IF "runner" \notin up \/ \E s \in Sidecars : Stale(s) THEN "look" ELSE "health")
    /\ UNCHANGED <<world, work, canaryIp, runs, busySeen, blind, preflight, ghosts>>

(* Variant for mutation: the worker is not asked before sidecars are renewed.*)
LookNot(d) ==
    /\ pc[d] = "look"
    /\ Goto(d, "sidecars")
    /\ UNCHANGED <<world, work, canaryIp, runs, busySeen, blind, preflight, ghosts>>

(* A worker that answers that it is busy is spared; one that does not answer *)
(* is not.                                                                   *)
Look(d) ==
    /\ pc[d] = "look"
    /\ IF "worker" \in up
       THEN /\ IF task # "none" THEN Fail(d) ELSE Goto(d, "sidecars")
            /\ young' = FALSE /\ blind' = FALSE
       ELSE /\ Goto(d, "sidecars")
            /\ blind' = TRUE
            /\ UNCHANGED young
    /\ UNCHANGED <<world, task, known, tasks, tried, canaryIp, runs, busySeen, preflight, ghosts>>

(* Containers that share the network of univpn can only be made while it     *)
(* runs.                                                                     *)
Recreate(d, services, then) ==
    IF "univpn" \in up
    THEN /\ Goto(d, then)
         /\ up' = up \cup services
         /\ joined' = joined \cup services
         /\ hung' = FALSE
         /\ Touch
    ELSE Fail(d) /\ UNCHANGED <<up, joined, hung, tried>>

(* Variant for mutation: only the runner is made anew.                       *)
RecreateRunnerOnly(d) ==
    /\ \/ pc[d] = "sidecars" /\ Recreate(d, {"runner"}, "health")
       \/ pc[d] = "resetSidecars" /\ Recreate(d, {"runner"}, "resetWait")
    /\ UNCHANGED <<tunnel, stuck, handed, canaryIp, runs, busySeen, blind, preflight, ghosts>>

RecreateSidecars(d) ==
    /\ \/ pc[d] = "sidecars" /\ Recreate(d, Sidecars, "health")
       \/ pc[d] = "resetSidecars" /\ Recreate(d, Sidecars, "resetWait")
    /\ UNCHANGED <<tunnel, stuck, handed, canaryIp, runs, busySeen, blind, preflight, ghosts>>

(* worker_status is read here and used when it comes to the login.           *)
WorkerHealth(d) ==
    /\ pc[d] = "health"
    /\ IF "worker" \in up
       THEN /\ Goto(d, "runner")
            /\ busySeen' = (task # "none")
            /\ young' = FALSE /\ blind' = FALSE
       ELSE Fail(d) /\ UNCHANGED <<busySeen, young, blind>>
    /\ UNCHANGED <<world, task, known, tasks, tried, canaryIp, runs, preflight, ghosts>>

RunnerHealth(d) ==
    /\ \/ pc[d] = "runner" /\ Goto(d, IF RunnerHealthy THEN "vpn" ELSE "recreate")
       \/ pc[d] = "rewait" /\ Goto(d, IF RunnerHealthy THEN "vpn" ELSE "idle")
       \/ pc[d] = "resetWait" /\ Goto(d, IF RunnerHealthy THEN "loginAgain" ELSE "idle")
    /\ UNCHANGED <<world, work, canaryIp, runs, busySeen, blind, preflight, ghosts>>

(* A runner that does not answer is made anew whatever the worker does.      *)
RecreateRunner(d) ==
    /\ pc[d] = "recreate"
    /\ Recreate(d, {"runner"}, "rewait")
    /\ UNCHANGED <<tunnel, stuck, handed, canaryIp, runs, busySeen, blind, preflight, ghosts>>

VpnHealth(d) ==
    /\ \/ /\ pc[d] = "vpn"
          /\ Goto(d, IF VpnHealthy THEN "final"
                     ELSE IF busySeen \/ ~ canaryIp[d] THEN "idle" ELSE "login")
       \/ /\ pc[d] = "verify"
          /\ Goto(d, IF VpnHealthy THEN "final" ELSE "reset")
    /\ UNCHANGED <<world, work, canaryIp, runs, busySeen, blind, preflight, ghosts>>

(* trigger_login: the worker takes the canary if it has nothing to do.       *)
TriggerLogin(d) ==
    /\ pc[d] \in {"login", "loginAgain"}
    /\ IF "worker" \in up /\ task = "none"
       THEN /\ Goto(d, IF pc[d] = "login" THEN "poll" ELSE "pollAgain")
            /\ task' = d /\ known' = [known EXCEPT ![d] = "running"]
            /\ tried' = "none"
       ELSE Fail(d) /\ UNCHANGED <<task, known, tried>>
    /\ UNCHANGED <<world, tasks, young, canaryIp, runs, busySeen, blind, preflight, ghosts>>

(* It is polled until it is over; a worker that was started again does not   *)
(* know it.                                                                  *)
PollLogin(d) ==
    /\ pc[d] \in {"poll", "pollAgain"}
    /\ known[d] # "running" \/ "worker" \notin up
    /\ IF known[d] = "ended" /\ "worker" \in up
       THEN Goto(d, IF pc[d] = "poll" THEN "verify" ELSE "final")
       ELSE Fail(d)
    /\ UNCHANGED <<world, work, canaryIp, runs, busySeen, blind, preflight, ghosts>>

(* Variant for mutation: the login is only tried again.                      *)
ResetNothing(d) ==
    /\ pc[d] = "reset"
    /\ Goto(d, "loginAgain")
    /\ UNCHANGED <<world, work, canaryIp, runs, busySeen, blind, preflight, ghosts>>

(* The login did not bring up the tunnel: univpn is made anew, then the      *)
(* sidecars.  Nobody asks the worker again.                                  *)
ResetUnivpn(d) ==
    /\ pc[d] = "reset"
    /\ Goto(d, "resetSidecars")
    /\ NewUnivpn /\ Touch
    /\ UNCHANGED <<hung, handed, canaryIp, runs, busySeen, blind, preflight, ghosts>>

(* inspect, once more.                                                       *)
Final(d) ==
    /\ pc[d] = "final"
    /\ Goto(d, "unlink")
    /\ settled' = (Healthy /\ calm)
    /\ UNCHANGED <<world, work, canaryIp, runs, busySeen, blind, preflight, faults, calm>>

(* Variant for mutation: the cache is left to expire.                        *)
UnlinkNot(d) ==
    /\ pc[d] = "unlink"
    /\ Goto(d, "idle")
    /\ UNCHANGED <<world, work, canaryIp, runs, busySeen, blind, preflight, ghosts>>

(* The cache is removed, without its lock, and the repair lock given back.   *)
Unlink(d) ==
    /\ pc[d] = "unlink"
    /\ Goto(d, "idle")
    /\ cache' = "none"
    /\ overtaken' = (verdict # "none")
    /\ UNCHANGED <<world, work, canaryIp, runs, busySeen, blind, verdict, ghosts>>

RepairStep(d) == \/ TakeLock(d)
                 \/ GiveUp(d)
                 \/ StartUnivpn(d)
                 \/ StartWorker(d)
                 \/ FindStale(d)
                 \/ Look(d)
                 \/ RecreateSidecars(d)
                 \/ WorkerHealth(d)
                 \/ RunnerHealth(d)
                 \/ RecreateRunner(d)
                 \/ VpnHealth(d)
                 \/ TriggerLogin(d)
                 \/ PollLogin(d)
                 \/ ResetUnivpn(d)
                 \/ Final(d)
                 \/ Unlink(d)

-----------------------------------------------------------------------------
(* cached_preflight, under a lock of its own.                                *)

(* Nothing fresh in the cache: Docker is asked.                              *)
Inspect ==
    /\ cache = "none" /\ verdict = "none"
    /\ verdict' = IF Connected("runner") /\ VpnHealthy THEN "ok" ELSE "bad"
    /\ overtaken' = FALSE
    /\ UNCHANGED <<world, work, repair, cache, ghosts>>

WriteCache ==
    /\ verdict # "none"
    /\ cache' = verdict
    /\ verdict' = "none"
    /\ UNCHANGED <<world, work, repair, overtaken, ghosts>>

(* The time to live is over.                                                 *)
CacheExpires ==
    /\ cache # "none"
    /\ cache' = "none"
    /\ UNCHANGED <<world, work, repair, verdict, overtaken, ghosts>>

-----------------------------------------------------------------------------
(* The worker, its users, and what goes wrong.                               *)

UserTask ==
    /\ "worker" \in up /\ task = "none"
    /\ tasks < MaxTasks
    /\ tasks' = tasks + 1
    /\ task' = "user" /\ known' = [known EXCEPT !["user"] = "running"] /\ young' = TRUE
    /\ UNCHANGED <<world, tried, repair, preflight, ghosts>>

(* A task logs in first when there is no tunnel; that of a user need not.    *)
(* The canary of a doctor that polls no more ends as any other.              *)
TaskEnds ==
    /\ task # "none"
    /\ task' = "none" /\ known' = [known EXCEPT ![task] = "ended"] /\ young' = FALSE
    /\ tried' = IF task = "user" THEN tried
                ELSE IF pc[task] \in {"poll", "pollAgain"} THEN task ELSE "none"
    /\ LET login == RunnerHealthy /\ "univpn" \in up /\ ~ stuck
       IN  tunnel' \in {tunnel \/ login} \cup (IF task = "user" THEN {tunnel} ELSE {})
    /\ UNCHANGED <<up, joined, hung, stuck, tasks, repair, preflight, ghosts>>

Fault == /\ faults < MaxFaults
         /\ faults' = faults + 1
         /\ calm' = FALSE /\ settled' = FALSE

ContainerStops(c) ==
    /\ Fault
    /\ c \in up
    /\ up' = up \ {c}
    /\ joined' = IF c = "univpn" THEN {} ELSE joined \ {c}
    /\ hung' = (hung /\ c # "runner")
    /\ tunnel' = (tunnel /\ c # "univpn")
    /\ IF c = "worker"
       THEN task' = "none" /\ known' = [a \in Askers |-> "none"] /\ young' = FALSE
       ELSE UNCHANGED <<task, known, young>>
    /\ UNCHANGED <<stuck, tasks, tried, repair, preflight>>

(* Docker starts univpn again by itself, in a new namespace.                 *)
UnivpnRestarts ==
    /\ Fault
    /\ "univpn" \in up
    /\ NewUnivpn
    /\ UNCHANGED <<hung, work, repair, preflight>>

RunnerHangs ==
    /\ Fault
    /\ "runner" \in up
    /\ hung' = TRUE
    /\ UNCHANGED <<up, joined, tunnel, stuck, work, repair, preflight>>

TunnelDrops ==
    /\ Fault
    /\ tunnel
    /\ tunnel' = FALSE
    /\ stuck' \in BOOLEAN
    /\ UNCHANGED <<up, joined, hung, work, repair, preflight>>

(* GET /health is not answered in time by a worker that runs.                *)
LookFails(d) ==
    /\ Fault
    /\ pc[d] = "look"
    /\ Goto(d, "sidecars")
    /\ blind' = TRUE
    /\ UNCHANGED <<world, work, canaryIp, runs, busySeen, preflight>>

(* Somebody makes sidecars anew by hand; or the docker compose of a doctor   *)
(* that was killed does, which outlives the doctor and its lock (what it may *)
(* do to univpn then is UnivpnRestarts).                                     *)
ComposeElsewhere ==
    /\ Fault
    /\ "univpn" \in up
    /\ \E services \in {Sidecars, {"runner"}} :
           up' = up \cup services /\ joined' = joined \cup services
    /\ hung' = FALSE
    /\ UNCHANGED <<tunnel, stuck, work, repair, preflight>>

(* The doctor is killed, or a command of its own fails (DoctorError).        *)
DoctorDies(d) ==
    /\ Fault
    /\ pc[d] \in RepairSteps
    /\ Goto(d, "idle")
    /\ UNCHANGED <<world, work, canaryIp, runs, busySeen, blind, preflight>>

FaultStep == \/ \E c \in Containers : ContainerStops(c)
             \/ UnivpnRestarts
             \/ RunnerHangs
             \/ TunnelDrops
             \/ ComposeElsewhere
             \/ \E d \in Doctors : LookFails(d) \/ DoctorDies(d)

Next == \/ SupervisorRuns
        \/ OperatorRuns
        \/ \E d \in Doctors : RepairStep(d)
        \/ Inspect
        \/ WriteCache
        \/ CacheExpires
        \/ UserTask
        \/ TaskEnds
        \/ FaultStep

(* Cron runs the supervisor every minute, a doctor that has begun goes on,   *)
(* commands and tasks end (each has a timeout).  Nobody has to run repair by *)
(* hand, connect to a vehicle or create a task.                              *)
Spec == Init /\ [][Next]_vars
FairSpec == /\ Spec
            /\ WF_vars(SupervisorRuns)
            /\ \A d \in Doctors : WF_vars(RepairStep(d))
            /\ WF_vars(TaskEnds)

-----------------------------------------------------------------------------
(* Properties.                                                               *)

(* Every variable holds a value of its kind.                                 *)
TypeOK ==
    /\ up \subseteq Containers /\ joined \subseteq Sidecars
    /\ hung \in BOOLEAN /\ tunnel \in BOOLEAN /\ stuck \in BOOLEAN
    /\ task \in Askers \cup {"none"} /\ tried \in Doctors \cup {"none"}
    /\ known \in [Askers -> {"none", "running", "ended"}]
    /\ pc \in [Doctors -> Steps]
    /\ canaryIp \in [Doctors -> BOOLEAN]
    /\ cache \in Verdicts /\ verdict \in Verdicts
    /\ faults \in 0 .. MaxFaults /\ tasks \in 0 .. MaxTasks /\ runs \in 0 .. MaxRuns
    /\ {busySeen, young, blind, calm, settled, overtaken} \subseteq BOOLEAN

(* vpn_doctor.py:260-279, 338-344, 461-472: a doctor that judges a login by  *)
(* the tunnel, and makes univpn anew for want of one, judges its own: the    *)
(* worker took a canary from it in this repair and executed it to its end,   *)
(* while it was waiting, and no doctor has touched the path since.  And no   *)
(* doctor, however old its look at the worker, had a task pushed aside for   *)
(* it: the user's and the canary of a killed doctor are executed to the end. *)
LoginJudgedIsOwn ==
    /\ \A d \in Doctors : pc[d] \in {"verify", "reset"} => tried = d
    /\ \A a \in Askers : known[a] = "running" => task = a

(* vpn_doctor.py:294-351: a repair that comes to its last look without an    *)
(* error, and during which nothing new went wrong, leaves every sidecar      *)
(* running in the namespace univpn has now and the runner answering -        *)
(* whatever it found, and however often it made univpn anew on the way.      *)
RepairConnects ==
    \A d \in Doctors : pc[d] = "final" /\ calm =>
        up = Containers /\ joined = Sidecars /\ RunnerHealthy

(* vpn_doctor.py:310-317, 323-344: of the four places that take the          *)
(* network away from a task, none does so to a task the doctor has been told *)
(* about, be it a user's or the canary of a doctor that was killed.  Either  *)
(* it is a user's and came after the last look at the worker, or that look   *)
(* got no answer, or the runner, which the task needs, did not answer.       *)
Takes(d) == \/ pc[d] \in {"sidecars", "resetSidecars", "recreate"} /\ pc'[d] # "idle"
            \/ pc[d] = "reset"
ToldTasksSpared ==
    [][\A d \in Doctors :
          pc'[d] # pc[d] /\ Takes(d) /\ task # "none" =>
              (task = "user" /\ young) \/ blind \/ pc[d] = "recreate"]_vars

(* vpn_doctor.py:476, 388-420: once a repair has found everything healthy    *)
(* and nothing has gone wrong since, the cache tells nobody that the VPN is  *)
(* down - unless a preflight had looked before and wrote its verdict after   *)
(* the cache was removed, which takes no notice of the preflight lock.       *)
NoOldVerdict ==
    settled /\ (\A d \in Doctors : pc[d] # "unlink") /\ cache = "bad" => overtaken

(* vpn_supervisor.sh, vpn_doctor.py:291-353: when things stop going wrong,   *)
(* users have had their tasks and operators their repairs, the supervisor    *)
(* gets the whole path healthy and it stays so: through a stuck console, a   *)
(* doctor killed between two steps and repairs put off for a busy worker.    *)
Recovers == <>[]Healthy
=============================================================================

--------------------------- MODULE VpnDoctorProofs ---------------------------
(***************************************************************************)
(* The repairs of the VPN doctor, with and without the proxy, and for any  *)
(* number of faults, tasks and runs of an operator.                        *)
(***************************************************************************)
EXTENDS VpnDoctor, TLAPS

-----------------------------------------------------------------------------
(* The inductive invariant.                                                  *)

(* One doctor has the lock, and one task is under way.                       *)
Alone == \A d, e \in Doctors : pc[d] \in RepairSteps /\ pc[e] \in RepairSteps => d = e
TaskInv == \A a \in Askers : known[a] = "running" <=> task = a

(* How much of the path stands when a repair has come to a step and nothing  *)
(* has gone wrong since it began.                                            *)
Whole == up = Containers /\ joined = Sidecars

AfterSidecars == {"health", "runner", "recreate", "rewait", "vpn", "login", "poll", "verify",
                  "reset", "resetWait", "loginAgain", "pollAgain", "final", "unlink"}
AfterRunner == {"vpn", "login", "poll", "verify", "reset", "loginAgain", "pollAgain", "final",
                "unlink"}

PathInv(d) ==
    calm => /\ pc[d] \in RepairSteps \ {"univpn"} => "univpn" \in up
            /\ pc[d] \in RepairSteps \ {"univpn", "worker"} => "worker" \in up
            /\ pc[d] = "resetSidecars" => up = Containers
            /\ pc[d] \in AfterSidecars => Whole
            /\ pc[d] \in AfterRunner => RunnerHealthy

(* Where a repair is about to take the network away, it has looked at the    *)
(* worker or given it a canary; a task of a user has come later.             *)
Looked == {"sidecars", "poll", "verify", "reset", "resetSidecars"}
ToldInv(d) ==
    pc[d] \in Looked /\ task # "none" =>
        (task = "user" /\ young) \/ blind \/ (pc[d] = "poll" /\ task = d)

(* From its canary to its judgement of the login a repair has the worker for *)
(* itself and the users.                                                     *)
Polling == {"poll", "pollAgain"}
Judging == Polling \cup {"verify", "reset"}
LoginInv(d) ==
    pc[d] \in Judging =>
        /\ task \in {"none", "user", d}
        /\ task = d => pc[d] \in Polling
        /\ pc[d] \notin Polling \/ known[d] = "ended" => tried = d

(* Once a repair has found everything healthy and nothing has gone wrong     *)
(* since, everything is, and the repairs that follow change nothing.         *)
Harmless == {"univpn", "worker", "stale", "health", "runner", "vpn", "final", "unlink"}
SettledInv ==
    settled => /\ Healthy
               /\ \A d \in Doctors : pc[d] \in RepairSteps => pc[d] \in Harmless

(* A bad verdict is older than the removal of the cache.                     *)
VerdictInv ==
    settled /\ (\A d \in Doctors : pc[d] # "unlink") =>
        (cache = "bad" \/ verdict = "bad" => overtaken)

Inv ==
    /\ TypeOK
    /\ Alone /\ TaskInv
    /\ \A d \in Doctors : PathInv(d) /\ ToldInv(d) /\ LoginInv(d)
    /\ SettledInv /\ VerdictInv

-----------------------------------------------------------------------------
(* Facts about steps.                                                        *)

(* Which containers there are.                                               *)
LEMMA Parts ==
    /\ "runner" \in Sidecars /\ Sidecars \subseteq Containers
    /\ "univpn" \in Containers /\ "worker" \in Containers
    /\ "univpn" \notin Sidecars /\ "worker" \notin Sidecars
    /\ \A c \in Containers : c = "univpn" \/ c = "worker" \/ c \in Sidecars
  BY DEF Containers, Sidecars

(* The steps a repair goes through.                                          *)
LEMMA StepKinds ==
    /\ RepairSteps \subseteq Steps /\ "idle" \in Steps /\ "lock" \in Steps
    /\ "idle" \notin RepairSteps /\ "lock" \notin RepairSteps /\ "resetSidecars" \in RepairSteps
    /\ AfterRunner \subseteq AfterSidecars /\ AfterSidecars \subseteq RepairSteps
    /\ Looked \subseteq RepairSteps /\ Judging \subseteq RepairSteps
    /\ Harmless \subseteq RepairSteps
  BY DEF RepairSteps, Steps, AfterRunner, AfterSidecars, Looked, Judging, Polling, Harmless

(* Everything runs, nothing has happened.                                    *)
LEMMA InitInv == Init => Inv
<1> SUFFICES ASSUME Init PROVE Inv
  OBVIOUS
<1>1. TypeOK
  <2>1. pc \in [Doctors -> Steps]
    BY StepKinds DEF Init
  <2>2. canaryIp \in [Doctors -> BOOLEAN]
    BY Zenon DEF Init
  <2>3. faults \in 0 .. MaxFaults /\ tasks \in 0 .. MaxTasks /\ runs \in 0 .. MaxRuns
    BY DoctorAssumption DEF Init
  <2>4. {busySeen, young, blind, calm, settled, overtaken} \subseteq BOOLEAN
    BY Zenon DEF Init
  <2>5. QED
    BY <2>1, <2>2, <2>3, <2>4 DEF Init, TypeOK, Verdicts
<1>2. \A d \in Doctors : pc[d] = "idle"
  BY DEF Init
<1>3. Alone /\ TaskInv
  BY <1>2, StepKinds DEF Init, Alone, TaskInv, Askers, Doctors
<1>4. \A d \in Doctors : PathInv(d) /\ ToldInv(d) /\ LoginInv(d)
  BY <1>2, StepKinds DEF PathInv, ToldInv, LoginInv
<1>5. SettledInv /\ VerdictInv
  BY DEF Init, SettledInv, VerdictInv
<1>6. QED
  BY <1>1, <1>3, <1>4, <1>5 DEF Inv

(* While one doctor repairs, the other does not.                             *)
LEMMA LockHeld ==
    ASSUME Inv, NEW d \in Doctors, pc[d] \in RepairSteps, NEW s \in RepairSteps \cup {"idle"},
           Goto(d, s)
    PROVE  /\ pc'[d] = s /\ pc' \in [Doctors -> Steps] /\ Alone'
           /\ \A e \in Doctors : e # d => pc[e] \notin RepairSteps /\ pc'[e] = pc[e]
<1>1. pc' \in [Doctors -> Steps] /\ pc'[d] = s /\ \A e \in Doctors : e # d => pc'[e] = pc[e]
  BY StepKinds DEF Inv, TypeOK, Goto
<1>2. \A e \in Doctors : e # d => pc[e] \notin RepairSteps
  BY DEF Inv, Alone
<1>3. QED
  BY <1>1, <1>2 DEF Alone

(* What a step of a repair has to see to, before the repair is at its end.   *)
LEMMA RepairMoves ==
    ASSUME Inv, NEW d \in Doctors, pc[d] \in RepairSteps \ {"unlink"},
           NEW s \in (RepairSteps \ {"unlink"}) \cup {"idle"}, Goto(d, s),
           UNCHANGED <<preflight, ghosts>>, TypeOK', TaskInv', PathInv(d)',
           ToldInv(d)', LoginInv(d)',
           settled => Healthy' /\ s \in Harmless \cup {"idle"}
    PROVE  Inv'
<1>1. /\ pc'[d] = s /\ Alone'
      /\ \A e \in Doctors : e # d => pc[e] \notin RepairSteps /\ pc'[e] = pc[e]
  BY LockHeld
<1>2. \A e \in Doctors : PathInv(e)' /\ ToldInv(e)' /\ LoginInv(e)'
  <2>1. ASSUME NEW e \in Doctors, e # d PROVE PathInv(e)' /\ ToldInv(e)' /\ LoginInv(e)'
    BY <1>1, <2>1, StepKinds DEF PathInv, ToldInv, LoginInv
  <2>2. QED
    BY <2>1
<1>3. SettledInv'
  BY <1>1, StepKinds DEF SettledInv, ghosts
<1>4. VerdictInv'
  <2>1. /\ \A e \in Doctors : pc'[e] # "unlink"
        /\ \A e \in Doctors : pc[e] # "unlink"
    BY <1>1 DEF RepairSteps
  <2>2. QED
    BY <2>1 DEF Inv, VerdictInv, ghosts, preflight
<1>5. QED
  BY <1>1, <1>2, <1>3, <1>4 DEF Inv

-----------------------------------------------------------------------------
(* The repair, step by step.                                                 *)

(* A doctor that is told to repair waits for the lock, or has waited for too *)
(* long.                                                                     *)
LEMMA WaitInv ==
    ASSUME Inv, NEW d \in Doctors, pc[d] \in {"idle", "lock"},
           NEW s \in {"idle", "lock"}, Goto(d, s),
           canaryIp' \in [Doctors -> BOOLEAN], runs' \in 0 .. MaxRuns,
           UNCHANGED <<world, work, busySeen, blind, preflight, ghosts>>
    PROVE  Inv'
<1> USE DEF Inv
<1>1. /\ pc' \in [Doctors -> Steps] /\ pc'[d] = s
      /\ \A e \in Doctors : e # d => pc'[e] = pc[e]
  BY StepKinds DEF TypeOK, Goto
<1>2. TypeOK'
  BY <1>1 DEF TypeOK, world, work, preflight, ghosts
<1>3. \A e \in Doctors : pc'[e] = pc[e] \/ (pc[e] \notin RepairSteps /\ pc'[e] \notin RepairSteps)
  BY <1>1, StepKinds
<1>4. Alone' /\ TaskInv'
  BY <1>3 DEF Alone, TaskInv, work
<1>5. \A e \in Doctors : PathInv(e)' /\ ToldInv(e)' /\ LoginInv(e)'
  <2> SUFFICES ASSUME NEW e \in Doctors PROVE PathInv(e)' /\ ToldInv(e)' /\ LoginInv(e)'
    OBVIOUS
  <2>1. CASE pc'[e] = pc[e]
    BY <2>1 DEF PathInv, ToldInv, LoginInv, Whole, RunnerHealthy, Connected, world, work, ghosts
  <2>2. CASE pc'[e] \notin RepairSteps
    BY <2>2, StepKinds DEF PathInv, ToldInv, LoginInv
  <2>3. QED
    BY <1>3, <2>1, <2>2
<1>6. SettledInv'
  BY <1>3 DEF SettledInv, Healthy, RunnerHealthy, VpnHealthy, Connected, world, ghosts
<1>7. VerdictInv'
  <2>1. (\A e \in Doctors : pc'[e] # "unlink") => \A e \in Doctors : pc[e] # "unlink"
    BY <1>3 DEF RepairSteps
  <2>2. QED
    BY <2>1 DEF VerdictInv, preflight, ghosts
<1>8. QED
  BY <1>2, <1>4, <1>5, <1>6, <1>7

(* The lock is taken when nobody has it.                                     *)
LEMMA TakeLockInv == ASSUME Inv, NEW d \in Doctors, TakeLock(d) PROVE Inv'
<1> USE DEF Inv, TakeLock
<1>1. /\ pc' \in [Doctors -> Steps] /\ pc'[d] = "univpn" /\ "univpn" \in RepairSteps
      /\ \A e \in Doctors : e # d => pc'[e] = pc[e]
      /\ \A e \in Doctors : pc[e] \notin RepairSteps
  <2>1. "univpn" \in RepairSteps
    BY DEF RepairSteps
  <2>2. QED
    BY <2>1, StepKinds DEF TypeOK, Goto, LockFree
<1>2. TypeOK'
  <2>1. {busySeen', young', blind', calm', settled', overtaken'} \subseteq BOOLEAN
    BY Zenon DEF TypeOK, work, preflight
  <2>2. QED
    BY <1>1, <2>1 DEF TypeOK, world, work, preflight
<1>3. Alone' /\ TaskInv'
  BY <1>1 DEF Alone, TaskInv, work
<1>4. \A e \in Doctors : PathInv(e)' /\ ToldInv(e)' /\ LoginInv(e)'
  <2>1. PathInv(d)' /\ ToldInv(d)' /\ LoginInv(d)'
    BY <1>1 DEF PathInv, ToldInv, LoginInv, AfterSidecars, AfterRunner, Looked, Judging, Polling
  <2>2. ASSUME NEW e \in Doctors, e # d PROVE PathInv(e)' /\ ToldInv(e)' /\ LoginInv(e)'
    BY <1>1, <2>2, StepKinds DEF PathInv, ToldInv, LoginInv
  <2>3. QED
    BY <2>1, <2>2
<1>5. SettledInv'
  BY <1>1 DEF SettledInv, Healthy, RunnerHealthy, VpnHealthy, Connected, Harmless, world
<1>6. VerdictInv'
  <2>1. \A e \in Doctors : pc[e] # "unlink"
    BY <1>1 DEF RepairSteps
  <2>2. QED
    BY <2>1 DEF VerdictInv, preflight
<1>7. QED
  BY <1>2, <1>3, <1>4, <1>5, <1>6

(* A look that changes nothing: the stale sidecars, the runner, the tunnel,  *)
(* the canary.                                                               *)
LEMMA LooksInv ==
    ASSUME Inv, NEW d \in Doctors,
           FindStale(d) \/ RunnerHealth(d) \/ VpnHealth(d) \/ PollLogin(d)
    PROVE  Inv'
<1> USE DEF Inv
<1>1. UNCHANGED <<world, work, canaryIp, runs, busySeen, blind, preflight, ghosts>>
  BY DEF FindStale, RunnerHealth, VpnHealth, PollLogin
<1>2. pc[d] \in RepairSteps \ {"unlink"}
  BY DEF FindStale, RunnerHealth, VpnHealth, PollLogin, RepairSteps
<1>3. PICK s \in (RepairSteps \ {"unlink"}) \cup {"idle"} :
         /\ Goto(d, s)
         /\ \/ /\ pc[d] = "stale"
               /\ s = IF "runner" \notin up \/ \E c \in Sidecars : Stale(c) THEN "look" ELSE "health"
            \/ /\ pc[d] = "runner" /\ s = "recreate" /\ ~ RunnerHealthy
            \/ /\ pc[d] \in {"runner", "rewait"} /\ s = "vpn" /\ RunnerHealthy
            \/ /\ pc[d] = "resetWait" /\ s = "loginAgain" /\ RunnerHealthy
            \/ /\ pc[d] \in {"rewait", "resetWait"} /\ s = "idle" /\ ~ RunnerHealthy
            \/ /\ pc[d] = "vpn"
               /\ IF VpnHealthy THEN s = "final" ELSE s \in {"idle", "login"}
            \/ /\ pc[d] = "verify"
               /\ s = IF VpnHealthy THEN "final" ELSE "reset"
            \/ /\ pc[d] = "poll" /\ s \in {"verify", "idle"}
               /\ s = "verify" => known[d] = "ended"
            \/ /\ pc[d] = "pollAgain" /\ s \in {"final", "idle"}
  BY DEF FindStale, RunnerHealth, VpnHealth, PollLogin, Fail, RepairSteps
<1>4. pc'[d] = s /\ pc' \in [Doctors -> Steps]
  BY <1>2, <1>3, LockHeld
<1>5. TypeOK' /\ TaskInv'
  BY <1>1, <1>4 DEF TypeOK, TaskInv, world, work, preflight, ghosts
<1>6. PathInv(d)'
  <2> SUFFICES ASSUME calm'
               PROVE  PathInv(d)'
    BY DEF PathInv
  <2>1. PathInv(d)
    OBVIOUS
  <2>2. calm /\ up' = up /\ joined' = joined /\ RunnerHealthy' = RunnerHealthy /\ Whole' = Whole
    BY <1>1 DEF world, ghosts, RunnerHealthy, Connected, Whole
  <2>3. CASE s = "health"
    <3>1. pc[d] = "stale" /\ "runner" \in up /\ \A c \in Sidecars : ~ Stale(c)
      BY <1>3, <2>3
    <3>2. "univpn" \in up /\ "worker" \in up
      BY <2>1, <2>2, <3>1 DEF PathInv, RepairSteps
    <3>3. \A c \in Sidecars : c \in up /\ c \in joined
      BY <3>1, <3>2 DEF Stale, Connected
    <3>4. Whole
      BY <3>2, <3>3, Parts DEF Whole, TypeOK
    <3>5. QED
      BY <1>4, <2>2, <2>3, <3>2, <3>4 DEF PathInv, AfterRunner
  <2>4. CASE s # "health"
    BY <1>2, <1>3, <1>4, <2>1, <2>2, <2>4 DEF PathInv, RepairSteps, AfterSidecars, AfterRunner
  <2>5. QED
    BY <2>3, <2>4
<1>7. ToldInv(d)' /\ LoginInv(d)'
  <2>1. d \in Askers /\ (known[d] = "ended" => task # d)
    BY DEF Askers, TaskInv
  <2>2. UNCHANGED <<task, known, young, blind, tried>>
    BY <1>1 DEF work
  <2>3. CASE s = "verify"
    BY <1>3, <1>4, <2>1, <2>2, <2>3 DEF ToldInv, LoginInv, Looked, Judging, Polling
  <2>4. CASE s = "reset"
    BY <1>3, <1>4, <2>2, <2>4 DEF ToldInv, LoginInv, Looked, Judging, Polling
  <2>5. CASE s \notin {"verify", "reset"}
    BY <1>3, <1>4, <2>5 DEF ToldInv, LoginInv, Looked, Judging, Polling
  <2>6. QED
    BY <2>3, <2>4, <2>5
<1>8. settled => Healthy' /\ s \in Harmless \cup {"idle"}
  <2> SUFFICES ASSUME settled PROVE Healthy' /\ s \in Harmless \cup {"idle"}
    OBVIOUS
  <2>1. Healthy /\ pc[d] \in Harmless
    BY <1>2 DEF SettledInv
  <2>2. Healthy'
    BY <1>1, <2>1 DEF Healthy, RunnerHealthy, VpnHealthy, Connected, world
  <2>3. /\ "runner" \in up /\ RunnerHealthy /\ VpnHealthy
        /\ \A c \in Sidecars : ~ Stale(c)
    BY <2>1, Parts DEF Healthy, VpnHealthy, Stale, Connected
  <2>4. s \in Harmless \cup {"idle"}
    BY <1>3, <2>1, <2>3 DEF Harmless
  <2>5. QED
    BY <2>2, <2>4
<1>9. QED
  BY <1>1, <1>2, <1>3, <1>5, <1>6, <1>7, <1>8, RepairMoves

(* The containers of univpn and of the worker are started.                   *)
LEMMA StartsInv ==
    ASSUME Inv, NEW d \in Doctors, StartUnivpn(d) \/ StartWorker(d)
    PROVE  Inv'
<1> USE DEF Inv
<1>1. /\ UNCHANGED <<hung, handed, canaryIp, runs, busySeen, blind, preflight, ghosts>>
      /\ tried' \in {tried, "none"}
  BY DEF StartUnivpn, StartWorker, Touch
<1>2. PICK s \in {"worker", "stale"} :
         /\ Goto(d, s)
         /\ \/ pc[d] = "univpn" /\ s = "worker" /\ StartUnivpn(d)
            \/ pc[d] = "worker" /\ s = "stale" /\ StartWorker(d)
  BY DEF StartUnivpn, StartWorker
<1>3. pc[d] \in RepairSteps \ {"unlink"} /\ s \in RepairSteps \ {"unlink"}
  BY <1>2 DEF RepairSteps
<1>4. pc'[d] = s /\ pc' \in [Doctors -> Steps]
  BY <1>2, <1>3, LockHeld
<1>5. up' \subseteq Containers /\ joined' \subseteq Sidecars /\ tunnel' \in BOOLEAN /\ stuck' \in BOOLEAN
  BY Parts DEF StartUnivpn, StartWorker, NewUnivpn, TypeOK
<1>6. TypeOK' /\ TaskInv'
  BY <1>1, <1>4, <1>5 DEF TypeOK, TaskInv, handed, preflight, ghosts
<1>7. PathInv(d)'
  <2>1. calm' = calm
    BY <1>1 DEF ghosts
  <2>2. pc'[d] \notin AfterSidecars /\ pc'[d] \notin AfterRunner /\ pc'[d] # "resetSidecars"
    BY <1>4 DEF AfterSidecars, AfterRunner
  <2>3. calm => "univpn" \in up' /\ (s = "stale" => "worker" \in up')
    BY <1>2 DEF StartUnivpn, StartWorker, NewUnivpn, PathInv, RepairSteps
  <2>4. QED
    BY <1>2, <1>4, <2>1, <2>2, <2>3 DEF PathInv
<1>8. ToldInv(d)' /\ LoginInv(d)'
  BY <1>4 DEF ToldInv, LoginInv, Looked, Judging, Polling
<1>9. settled => Healthy' /\ s \in Harmless \cup {"idle"}
  <2> SUFFICES ASSUME settled PROVE Healthy' /\ s \in Harmless
    OBVIOUS
  <2>1. Healthy
    BY DEF SettledInv
  <2>2. UNCHANGED <<up, joined, tunnel, stuck>>
    <3>1. "univpn" \in up /\ "worker" \in up
      BY <2>1, Parts DEF Healthy
    <3>2. QED
      BY <1>2, <3>1 DEF StartUnivpn, StartWorker
  <2>3. QED
    BY <1>1, <2>1, <2>2 DEF Healthy, RunnerHealthy, VpnHealthy, Connected, Harmless
<1>10. QED
  BY <1>1, <1>2, <1>3, <1>6, <1>7, <1>8, <1>9, RepairMoves

(* The worker is asked before its sidecars are taken away, and for its       *)
(* health.                                                                   *)
LEMMA AsksWorkerInv ==
    ASSUME Inv, NEW d \in Doctors, Look(d) \/ WorkerHealth(d)
    PROVE  Inv'
<1> USE DEF Inv
<1>1. UNCHANGED <<world, task, known, tasks, tried, canaryIp, runs, preflight, ghosts>>
  BY DEF Look, WorkerHealth
<1>2. PICK s \in {"idle", "sidecars", "runner"} :
         /\ Goto(d, s)
         /\ \/ pc[d] = "look" /\ s \in {"idle", "sidecars"} /\ Look(d)
            \/ pc[d] = "health" /\ s \in {"idle", "runner"} /\ WorkerHealth(d)
  BY DEF Look, WorkerHealth, Fail
<1>3. pc[d] \in RepairSteps \ {"unlink"} /\ s \in (RepairSteps \ {"unlink"}) \cup {"idle"}
  BY <1>2 DEF RepairSteps
<1>4. pc'[d] = s /\ pc' \in [Doctors -> Steps]
  BY <1>2, <1>3, LockHeld
<1>5. TypeOK'
  <2>1. busySeen' \in BOOLEAN
    BY Zenon DEF Look, WorkerHealth, TypeOK
  <2>2. young' \in BOOLEAN /\ blind' \in BOOLEAN
    BY Zenon DEF Look, WorkerHealth, TypeOK
  <2>3. {busySeen', young', blind', calm', settled', overtaken'} \subseteq BOOLEAN
    BY <1>1, <2>1, <2>2, Zenon DEF TypeOK, preflight, ghosts
  <2>4. QED
    BY <1>1, <1>4, <2>3 DEF TypeOK, world, preflight, ghosts
<1>6. TaskInv'
  BY <1>1 DEF TaskInv
<1>7. PathInv(d)'
  <2>1. UNCHANGED <<up, joined, hung, calm>>
    BY <1>1 DEF world, ghosts
  <2>2. QED
    BY <1>2, <1>4, <2>1
       DEF PathInv, RepairSteps, AfterSidecars, AfterRunner, Whole, RunnerHealthy, Connected
<1>8. ToldInv(d)' /\ LoginInv(d)'
  <2>1. CASE s = "sidecars"
    <3>1. task' # "none" => blind'
      BY <1>1, <1>2, <1>4, <2>1 DEF Look, Fail, Goto, TypeOK
    <3>2. QED
      BY <1>4, <2>1, <3>1 DEF ToldInv, LoginInv, Judging, Polling
  <2>2. CASE s # "sidecars"
    BY <1>2, <1>4, <2>2 DEF ToldInv, LoginInv, Looked, Judging, Polling
  <2>3. QED
    BY <2>1, <2>2
<1>9. settled => Healthy' /\ s \in Harmless \cup {"idle"}
  <2> SUFFICES ASSUME settled PROVE Healthy' /\ s \in Harmless \cup {"idle"}
    OBVIOUS
  <2>1. Healthy /\ pc[d] \in Harmless
    BY <1>3 DEF SettledInv
  <2>2. s \in {"idle", "runner"}
    BY <1>2, <2>1 DEF Harmless
  <2>3. QED
    BY <1>1, <2>1, <2>2 DEF Healthy, RunnerHealthy, VpnHealthy, Connected, Harmless, world
<1>10. QED
  BY <1>1, <1>2, <1>3, <1>5, <1>6, <1>7, <1>8, <1>9, RepairMoves

(* Sidecars are made anew in the namespace univpn has now.                   *)
LEMMA RecreatesInv ==
    ASSUME Inv, NEW d \in Doctors, RecreateSidecars(d) \/ RecreateRunner(d)
    PROVE  Inv'
<1> USE DEF Inv
<1>1. /\ UNCHANGED <<tunnel, stuck, handed, canaryIp, runs, busySeen, blind, preflight, ghosts>>
      /\ tried' \in {tried, "none"}
  BY DEF RecreateSidecars, RecreateRunner, Recreate, Touch
<1>2. PICK services \in {Sidecars, {"runner"}}, then \in {"health", "resetWait", "rewait"} :
         /\ Recreate(d, services, then)
         /\ \/ pc[d] = "sidecars" /\ services = Sidecars /\ then = "health"
            \/ pc[d] = "resetSidecars" /\ services = Sidecars /\ then = "resetWait"
            \/ pc[d] = "recreate" /\ services = {"runner"} /\ then = "rewait"
  BY DEF RecreateSidecars, RecreateRunner
<1>3. PICK s \in {"idle", then} :
         /\ Goto(d, s)
         /\ s = "idle" => UNCHANGED <<up, joined, hung>>
         /\ s # "idle" => /\ "univpn" \in up
                          /\ up' = up \cup services /\ joined' = joined \cup services
                          /\ hung' = FALSE
         /\ "univpn" \in up => s = then
  BY <1>2 DEF Recreate, Fail
<1>4. pc[d] \in RepairSteps \ {"unlink"} /\ s \in (RepairSteps \ {"unlink"}) \cup {"idle"}
  BY <1>2, <1>3 DEF RepairSteps
<1>5. pc'[d] = s /\ pc' \in [Doctors -> Steps]
  BY <1>3, <1>4, LockHeld
<1>6. services \subseteq Sidecars /\ services \subseteq Containers /\ "runner" \in services
  BY <1>2, Parts
<1>7. TypeOK' /\ TaskInv'
  <2>1. up' \subseteq Containers /\ joined' \subseteq Sidecars /\ hung' \in BOOLEAN
    BY <1>3, <1>6 DEF TypeOK
  <2>2. QED
    BY <1>1, <1>5, <2>1 DEF TypeOK, TaskInv, handed, preflight, ghosts
<1>8. PathInv(d)'
  <2> SUFFICES ASSUME calm, s # "idle"
               PROVE  PathInv(d)'
    BY <1>1, <1>3, <1>5, StepKinds DEF PathInv, ghosts
  <2>1. "univpn" \in up /\ "worker" \in up
    BY <1>2, <1>3 DEF PathInv, RepairSteps
  <2>2. Whole'
    <3>1. CASE services = Sidecars
      BY <1>3, <2>1, <3>1, Parts DEF Whole, TypeOK
    <3>2. CASE pc[d] = "recreate"
      BY <1>3, <1>6, <3>2 DEF PathInv, AfterSidecars, Whole
    <3>3. QED
      BY <1>2, <3>1, <3>2
  <2>3. "univpn" \in up' /\ "worker" \in up'
    BY <1>3, <2>1
  <2>4. s \notin AfterRunner /\ s # "resetSidecars"
    BY <1>2, <1>3 DEF AfterRunner
  <2>5. QED
    BY <1>5, <2>2, <2>3, <2>4 DEF PathInv
<1>9. ToldInv(d)' /\ LoginInv(d)'
  BY <1>2, <1>3, <1>5 DEF ToldInv, LoginInv, Looked, Judging, Polling
<1>10. ~ settled
  <2>1. pc[d] \notin Harmless
    BY <1>2 DEF Harmless
  <2>2. QED
    BY <1>4, <2>1 DEF SettledInv
<1>11. QED
  BY <1>1, <1>3, <1>4, <1>7, <1>8, <1>9, <1>10, RepairMoves

(* A canary is given to a worker that does nothing.                          *)
LEMMA TriggerLoginInv == ASSUME Inv, NEW d \in Doctors, TriggerLogin(d) PROVE Inv'
<1> USE DEF Inv
<1>1. UNCHANGED <<world, tasks, young, canaryIp, runs, busySeen, blind, preflight, ghosts>>
  BY DEF TriggerLogin
<1>2. PICK s \in {"idle", "poll", "pollAgain"} :
         /\ Goto(d, s) /\ pc[d] \in {"login", "loginAgain"}
         /\ s # "idle" => /\ task = "none" /\ task' = d /\ known' = [known EXCEPT ![d] = "running"]
                          /\ tried' = "none"
         /\ s = "idle" => UNCHANGED <<task, known, tried>>
  BY DEF TriggerLogin, Fail
<1>3. pc[d] \in RepairSteps \ {"unlink"} /\ s \in (RepairSteps \ {"unlink"}) \cup {"idle"}
  BY <1>2 DEF RepairSteps
<1>4. pc'[d] = s /\ pc' \in [Doctors -> Steps]
  BY <1>2, <1>3, LockHeld
<1>5. TypeOK'
  <2>1. /\ task' \in Askers \cup {"none"} /\ tried' \in Doctors \cup {"none"}
        /\ known' \in [Askers -> {"none", "running", "ended"}]
    BY <1>2 DEF TypeOK, Askers
  <2>2. QED
    BY <1>1, <1>4, <2>1 DEF TypeOK, world, preflight, ghosts
<1>6. TaskInv'
  <2>1. CASE s = "idle"
    BY <1>2, <2>1 DEF TaskInv
  <2>2. CASE s # "idle"
    <3>1. d \in Askers /\ known'[d] = "running"
      BY <1>2, <2>2 DEF TypeOK, Askers
    <3>2. ASSUME NEW a \in Askers, a # d PROVE known'[a] # "running"
      <4>1. known'[a] = known[a] /\ a # "none"
        BY <1>2, <2>2, <3>2 DEF TypeOK, Askers, Doctors
      <4>2. QED
        BY <1>2, <2>2, <4>1 DEF TaskInv
    <3>3. QED
      BY <1>2, <2>2, <3>1, <3>2 DEF TaskInv
  <2>3. QED
    BY <2>1, <2>2
<1>7. PathInv(d)'
  <2>1. UNCHANGED <<up, joined, hung, calm>>
    BY <1>1 DEF world, ghosts
  <2>2. QED
    BY <1>2, <1>4, <2>1
       DEF PathInv, RepairSteps, AfterSidecars, AfterRunner, Whole, RunnerHealthy, Connected
<1>8. ToldInv(d)' /\ LoginInv(d)'
  <2>1. s # "idle" => known'[d] = "running"
    BY <1>2 DEF TypeOK, Askers
  <2>2. QED
    BY <1>2, <1>4, <2>1 DEF ToldInv, LoginInv, Looked, Judging, Polling
<1>9. ~ settled
  <2>1. pc[d] \notin Harmless
    BY <1>2 DEF Harmless
  <2>2. QED
    BY <1>3, <2>1 DEF SettledInv
<1>10. QED
  BY <1>1, <1>2, <1>3, <1>5, <1>6, <1>7, <1>8, <1>9, RepairMoves

(* univpn is made anew under its sidecars.                                   *)
LEMMA ResetUnivpnInv == ASSUME Inv, NEW d \in Doctors, ResetUnivpn(d) PROVE Inv'
<1> USE DEF Inv
<1>1. /\ UNCHANGED <<hung, handed, canaryIp, runs, busySeen, blind, preflight, ghosts>>
      /\ pc[d] = "reset" /\ Goto(d, "resetSidecars") /\ NewUnivpn /\ tried' = "none"
  BY DEF ResetUnivpn, Touch
<1>2. pc[d] \in RepairSteps \ {"unlink"} /\ "resetSidecars" \in RepairSteps \ {"unlink"}
  BY <1>1 DEF RepairSteps
<1>3. pc'[d] = "resetSidecars" /\ pc' \in [Doctors -> Steps]
  BY <1>1, <1>2, LockHeld
<1>4. TypeOK' /\ TaskInv'
  BY <1>1, <1>3, Parts DEF TypeOK, TaskInv, NewUnivpn, handed, preflight, ghosts
<1>5. PathInv(d)'
  <2>1. calm' = calm
    BY <1>1 DEF ghosts
  <2>2. calm => up = Containers /\ up' = Containers
    BY <1>1, Parts DEF PathInv, AfterSidecars, Whole, NewUnivpn
  <2>3. pc'[d] \notin AfterSidecars /\ pc'[d] \notin AfterRunner
    BY <1>3 DEF AfterSidecars, AfterRunner
  <2>4. QED
    BY <2>1, <2>2, <2>3, Parts DEF PathInv
<1>6. ToldInv(d)' /\ LoginInv(d)'
  <2>1. ToldInv(d) /\ LoginInv(d) /\ UNCHANGED <<task, young, blind>>
    BY <1>1 DEF handed
  <2>2. QED
    BY <1>1, <1>3, <2>1 DEF ToldInv, LoginInv, Looked, Judging, Polling
<1>7. ~ settled
  <2>1. pc[d] \notin Harmless
    BY <1>1 DEF Harmless
  <2>2. QED
    BY <1>2, <2>1 DEF SettledInv
<1>8. QED
  BY <1>1, <1>2, <1>4, <1>5, <1>6, <1>7, RepairMoves

(* The last look.                                                            *)
LEMMA FinalInv == ASSUME Inv, NEW d \in Doctors, Final(d) PROVE Inv'
<1> USE DEF Inv
<1>1. /\ UNCHANGED <<world, work, canaryIp, runs, busySeen, blind, preflight, faults, calm>>
      /\ pc[d] = "final" /\ Goto(d, "unlink") /\ settled' = (Healthy /\ calm)
  BY DEF Final
<1>2. pc[d] \in RepairSteps /\ "unlink" \in RepairSteps
  BY <1>1 DEF RepairSteps
<1>3. /\ pc'[d] = "unlink" /\ pc' \in [Doctors -> Steps] /\ Alone'
      /\ \A e \in Doctors : e # d => pc[e] \notin RepairSteps /\ pc'[e] = pc[e]
  BY <1>1, <1>2, LockHeld
<1>4. TypeOK'
  <2>1. settled' \in BOOLEAN
    BY <1>1, Zenon
  <2>2. QED
    BY <1>1, <1>3, <2>1 DEF TypeOK, world, work, preflight
<1>5. TaskInv'
  BY <1>1 DEF TaskInv, work
<1>6. \A e \in Doctors : PathInv(e)' /\ ToldInv(e)' /\ LoginInv(e)'
  <2>1. ASSUME NEW e \in Doctors, e # d PROVE PathInv(e)' /\ ToldInv(e)' /\ LoginInv(e)'
    BY <1>3, <2>1, StepKinds DEF PathInv, ToldInv, LoginInv
  <2>2. PathInv(d)'
    <3>1. UNCHANGED <<up, joined, hung, calm>>
      BY <1>1 DEF world
    <3>2. QED
      BY <1>1, <1>3, <3>1
         DEF PathInv, RepairSteps, AfterSidecars, AfterRunner, Whole, RunnerHealthy, Connected
  <2>3. ToldInv(d)' /\ LoginInv(d)'
    BY <1>3 DEF ToldInv, LoginInv, Looked, Judging, Polling
  <2>4. QED
    BY <2>1, <2>2, <2>3
<1>7. SettledInv'
  <2>1. settled' => Healthy'
    BY <1>1 DEF Healthy, RunnerHealthy, VpnHealthy, Connected, world
  <2>2. QED
    BY <1>3, <2>1 DEF SettledInv, Harmless
<1>8. VerdictInv'
  BY <1>3 DEF VerdictInv
<1>9. QED
  BY <1>3, <1>4, <1>5, <1>6, <1>7, <1>8

(* The cache is removed; a preflight that is under way has been overtaken.   *)
LEMMA UnlinkInv == ASSUME Inv, NEW d \in Doctors, Unlink(d) PROVE Inv'
<1> USE DEF Inv
<1>1. /\ UNCHANGED <<world, work, canaryIp, runs, busySeen, blind, verdict, ghosts>>
      /\ pc[d] = "unlink" /\ Goto(d, "idle") /\ cache' = "none" /\ overtaken' = (verdict # "none")
  BY DEF Unlink
<1>2. pc[d] \in RepairSteps
  BY <1>1 DEF RepairSteps
<1>3. /\ pc'[d] = "idle" /\ pc' \in [Doctors -> Steps] /\ Alone'
      /\ \A e \in Doctors : e # d => pc[e] \notin RepairSteps /\ pc'[e] = pc[e]
  BY <1>1, <1>2, LockHeld
<1>4. TypeOK'
  <2>1. overtaken' \in BOOLEAN
    BY <1>1, Zenon
  <2>2. QED
    BY <1>1, <1>3, <2>1 DEF TypeOK, Verdicts, world, work, ghosts
<1>5. TaskInv'
  BY <1>1 DEF TaskInv, work
<1>6. \A e \in Doctors : PathInv(e)' /\ ToldInv(e)' /\ LoginInv(e)'
  BY <1>3, StepKinds DEF PathInv, ToldInv, LoginInv
<1>7. SettledInv'
  BY <1>1, <1>3, StepKinds
     DEF SettledInv, Healthy, RunnerHealthy, VpnHealthy, Connected, world, ghosts
<1>8. VerdictInv'
  BY <1>1 DEF VerdictInv
<1>9. QED
  BY <1>3, <1>4, <1>5, <1>6, <1>7, <1>8

-----------------------------------------------------------------------------
(* Preflight, worker and faults.                                             *)

(* A preflight finds nothing bad while everything is healthy.                *)
LEMMA PreflightInv ==
    ASSUME Inv, Inspect \/ WriteCache \/ CacheExpires
    PROVE  Inv'
<1> USE DEF Inv
<1>1. UNCHANGED <<world, work, repair, ghosts>>
  BY DEF Inspect, WriteCache, CacheExpires
<1>2. TypeOK'
  <2>1. overtaken' \in BOOLEAN
    BY Zenon DEF Inspect, WriteCache, CacheExpires, TypeOK
  <2>2. cache' \in Verdicts /\ verdict' \in Verdicts
    BY DEF Inspect, WriteCache, CacheExpires, TypeOK, Verdicts
  <2>3. QED
    BY <1>1, <2>1, <2>2 DEF TypeOK, world, work, repair, ghosts
<1>3. Alone' /\ TaskInv'
  BY <1>1 DEF Alone, TaskInv, work, repair
<1>4. \A d \in Doctors : PathInv(d)' /\ ToldInv(d)' /\ LoginInv(d)'
  BY <1>1 DEF PathInv, ToldInv, LoginInv, Whole, RunnerHealthy, Connected, world, work,
              repair, ghosts
<1>5. SettledInv'
  BY <1>1 DEF SettledInv, Healthy, RunnerHealthy, VpnHealthy, Connected, world, repair, ghosts
<1>6. VerdictInv'
  <2> SUFFICES ASSUME settled, \A d \in Doctors : pc[d] # "unlink", cache' = "bad" \/ verdict' = "bad"
               PROVE  overtaken'
    BY <1>1 DEF VerdictInv, repair, ghosts
  <2>1. CASE Inspect
    <3>1. Connected("runner") /\ VpnHealthy
      BY DEF SettledInv, Healthy, RunnerHealthy
    <3>2. QED
      BY <2>1, <3>1 DEF Inspect
  <2>2. CASE WriteCache \/ CacheExpires
    BY <2>2 DEF WriteCache, CacheExpires, VerdictInv
  <2>3. QED
    BY <2>1, <2>2
<1>7. QED
  BY <1>2, <1>3, <1>4, <1>5, <1>6

(* A task comes, or ends; a login can only bring the tunnel up.              *)
LEMMA WorkerInv ==
    ASSUME Inv, UserTask \/ TaskEnds
    PROVE  Inv'
<1> USE DEF Inv
<1>1. /\ UNCHANGED <<up, joined, hung, stuck, repair, preflight, ghosts>>
      /\ task' = "user" => young'
  BY DEF UserTask, TaskEnds, world
<1>2. tunnel' \in BOOLEAN /\ (tunnel => tunnel')
  <2>1. CASE UserTask
    BY <2>1 DEF UserTask, world, TypeOK
  <2>2. CASE TaskEnds
    <3> DEFINE login == RunnerHealthy /\ "univpn" \in up /\ ~ stuck
    <3>1. tunnel' = (tunnel \/ login) \/ tunnel' = tunnel
      BY <2>2, Zenon DEF TaskEnds
    <3> HIDE DEF login
    <3>2. QED
      BY <3>1, Zenon DEF TypeOK
  <2>3. QED
    BY <2>1, <2>2
<1>3. TypeOK'
  <2>1. young' \in BOOLEAN
    BY Zenon DEF UserTask, TaskEnds
  <2>2. task' \in Askers \cup {"none"} /\ known' \in [Askers -> {"none", "running", "ended"}]
    BY DEF UserTask, TaskEnds, TypeOK, Askers
  <2>3. tasks' \in 0 .. MaxTasks
    BY DoctorAssumption DEF UserTask, TaskEnds, TypeOK
  <2>4. tried' \in Doctors \cup {"none"}
    BY DEF UserTask, TaskEnds, TypeOK, Askers
  <2>5. {busySeen', young', blind', calm', settled', overtaken'} \subseteq BOOLEAN
    BY <1>1, <2>1, Zenon DEF TypeOK, repair, preflight, ghosts
  <2>6. QED
    BY <1>1, <1>2, <2>2, <2>3, <2>4, <2>5 DEF TypeOK, repair, preflight, ghosts
<1>4. Alone' /\ TaskInv'
  <2>1. Alone'
    BY <1>1 DEF Alone, repair
  <2>2. "none" \notin Askers
    BY DEF Askers, Doctors
  <2>3. CASE UserTask
    <3>1. /\ task = "none" /\ task' = "user" /\ "user" \in Askers
          /\ known' = [known EXCEPT !["user"] = "running"]
      BY <2>3 DEF UserTask, Askers
    <3>2. QED
      BY <2>1, <2>2, <3>1 DEF TaskInv, TypeOK
  <2>4. CASE TaskEnds
    <3>1. task \in Askers /\ task' = "none" /\ known' = [known EXCEPT ![task] = "ended"]
      BY <2>4 DEF TaskEnds, TypeOK
    <3>2. QED
      BY <2>1, <2>2, <3>1 DEF TaskInv, TypeOK
  <2>5. QED
    BY <2>3, <2>4
<1>5. \A d \in Doctors : PathInv(d)'
  BY <1>1 DEF PathInv, Whole, RunnerHealthy, Connected, repair, ghosts
<1>6. \A d \in Doctors : ToldInv(d)' /\ LoginInv(d)'
  <2> SUFFICES ASSUME NEW d \in Doctors PROVE ToldInv(d)' /\ LoginInv(d)'
    OBVIOUS
  <2>1. pc' = pc /\ blind' = blind /\ d \in Askers /\ d \notin {"user", "none"}
    BY <1>1 DEF repair, Askers, Doctors
  <2>2. CASE UserTask
    <3>1. /\ task = "none" /\ task' = "user" /\ young' /\ tried' = tried
          /\ known' = [known EXCEPT !["user"] = "running"]
      BY <2>2 DEF UserTask
    <3>2. known'[d] = known[d]
      BY <2>1, <3>1 DEF TypeOK
    <3>3. QED
      BY <2>1, <3>1, <3>2 DEF ToldInv, LoginInv
  <2>3. CASE TaskEnds
    <3>1. /\ task \in Askers /\ task' = "none" /\ known' = [known EXCEPT ![task] = "ended"]
          /\ tried' = IF task = "user" THEN tried ELSE IF pc[task] \in Polling THEN task ELSE "none"
      BY <2>3 DEF TaskEnds, TypeOK, Polling
    <3>2. known'[d] = IF task = d THEN "ended" ELSE known[d]
      BY <2>1, <3>1 DEF TypeOK
    <3>3. CASE pc[d] \in Judging
      <4>1. task \in {"user", d} /\ (task = d => pc[d] \in Polling)
        BY <2>1, <3>1, <3>3 DEF LoginInv, Askers, Doctors
      <4>2. CASE task = "user"
        BY <2>1, <3>1, <3>2, <4>2 DEF ToldInv, LoginInv
      <4>3. CASE task = d
        BY <2>1, <3>1, <3>2, <4>1, <4>3 DEF ToldInv, LoginInv
      <4>4. QED
        BY <4>1, <4>2, <4>3
    <3>4. CASE pc[d] \notin Judging
      BY <2>1, <3>1, <3>4 DEF ToldInv, LoginInv
    <3>5. QED
      BY <3>3, <3>4
  <2>4. QED
    BY <2>2, <2>3
<1>7. SettledInv'
  BY <1>1, <1>2 DEF SettledInv, Healthy, RunnerHealthy, VpnHealthy, Connected, repair, ghosts
<1>8. VerdictInv'
  BY <1>1 DEF VerdictInv, repair, preflight, ghosts
<1>9. QED
  BY <1>3, <1>4, <1>5, <1>6, <1>7, <1>8

(* What goes wrong by itself voids what a repair has established.            *)
LEMMA FaultInv == ASSUME Inv, FaultStep PROVE Inv'
<1> USE DEF Inv
<1>1. Fault
  BY DEF FaultStep, ContainerStops, UnivpnRestarts, RunnerHangs, TunnelDrops, ComposeElsewhere,
         LookFails, DoctorDies
<1>2. ~ calm' /\ ~ settled' /\ faults' \in 0 .. MaxFaults
  BY <1>1, DoctorAssumption DEF Fault, TypeOK
<1>3. SettledInv' /\ VerdictInv' /\ \A d \in Doctors : PathInv(d)'
  BY <1>2 DEF SettledInv, VerdictInv, PathInv
<1>4. \/ UNCHANGED repair
      \/ /\ UNCHANGED <<world, work, canaryIp, runs, busySeen, preflight>>
         /\ \E d \in Doctors : LookFails(d) \/ DoctorDies(d)
  BY DEF FaultStep, ContainerStops, UnivpnRestarts, RunnerHangs, TunnelDrops, ComposeElsewhere,
         LookFails, DoctorDies
<1>5. /\ pc' \in [Doctors -> Steps] /\ blind' \in BOOLEAN /\ Alone'
      /\ \A d \in Doctors : \/ pc'[d] = pc[d] /\ blind' = blind
                            \/ pc'[d] \notin Looked \cup Judging
                            \/ pc'[d] \notin Judging /\ blind' = TRUE
  <2>1. CASE UNCHANGED repair
    <3>1. pc' = pc /\ blind' = blind /\ blind \in BOOLEAN
      BY <2>1, Zenon DEF TypeOK, repair
    <3>2. pc' \in [Doctors -> Steps] /\ Alone'
      BY <3>1 DEF TypeOK, Alone
    <3>3. QED
      BY <3>1, <3>2, Zenon
  <2>2. ASSUME NEW d \in Doctors, LookFails(d) \/ DoctorDies(d)
        PROVE  /\ pc' \in [Doctors -> Steps] /\ blind' \in BOOLEAN /\ Alone'
               /\ \A e \in Doctors : \/ pc'[e] = pc[e] /\ blind' = blind
                                     \/ pc'[e] \notin Looked \cup Judging
                                     \/ pc'[e] \notin Judging /\ blind' = TRUE
    <3>1. PICK s \in {"sidecars", "idle"} :
              /\ Goto(d, s) /\ pc[d] \in RepairSteps
              /\ s = "sidecars" => blind' = TRUE
              /\ s = "idle" => blind' = blind
      BY <2>2 DEF LookFails, DoctorDies, RepairSteps
    <3>2. s \in RepairSteps \cup {"idle"}
      BY DEF RepairSteps
    <3>3. /\ pc'[d] = s /\ pc' \in [Doctors -> Steps] /\ Alone'
          /\ \A e \in Doctors : e # d => pc'[e] = pc[e]
      BY <3>1, <3>2, LockHeld
    <3>4. blind' \in BOOLEAN
      BY <3>1, Zenon DEF TypeOK
    <3>5. ASSUME NEW e \in Doctors, e # d
          PROVE  pc'[e] = pc[e] /\ (blind' = blind \/ pc'[e] \notin Looked \cup Judging)
      BY <3>1, <3>3, <3>5, StepKinds DEF Alone
    <3>6. s \notin Judging
      BY DEF Judging, Polling
    <3>7. \/ pc'[d] \notin Looked \cup Judging
          \/ pc'[d] \notin Judging /\ blind' = TRUE
      BY <3>1, <3>3, <3>6 DEF Looked, Judging, Polling
    <3>8. QED
      BY <3>3, <3>4, <3>5, <3>7, Zenon
  <2>3. QED
    BY <1>4, <2>1, <2>2
<1>6. /\ UNCHANGED <<canaryIp, runs, busySeen, tasks, cache, verdict, overtaken>>
      /\ task' # "none" => task' = task /\ young' = young
      /\ tried' = tried
      /\ known' = known \/ (task' = "none" /\ \A a \in Askers : known'[a] = "none")
      /\ young' \in BOOLEAN
      /\ up' \subseteq Containers /\ joined' \subseteq Sidecars
      /\ hung' \in BOOLEAN /\ tunnel' \in BOOLEAN /\ stuck' \in BOOLEAN
      /\ task' \in Askers \cup {"none"} /\ known' \in [Askers -> {"none", "running", "ended"}]
      /\ TaskInv'
  <2> USE DEF TypeOK, TaskInv
  <2>1. CASE UNCHANGED <<world, work, canaryIp, runs, busySeen, preflight>>
    BY <2>1 DEF world, work, preflight
  <2>2. CASE \E c \in Containers : ContainerStops(c)
    <3>1. PICK c \in Containers : ContainerStops(c)
      BY <2>2
    <3>2. hung' \in BOOLEAN /\ tunnel' \in BOOLEAN /\ young' \in BOOLEAN
      <4>1. hung' = (hung /\ c # "runner") /\ tunnel' = (tunnel /\ c # "univpn")
        BY <3>1, Zenon DEF ContainerStops
      <4>2. young' = FALSE \/ young' = young
        BY <3>1, Zenon DEF ContainerStops
      <4>3. young \in BOOLEAN
        BY Zenon
      <4>4. QED
        BY <4>1, <4>2, <4>3, Zenon
    <3>3. \/ UNCHANGED <<task, known, young>>
          \/ /\ task' = "none" /\ known' = [a \in Askers |-> "none"]
      BY <3>1 DEF ContainerStops
    <3>4. known' \in [Askers -> {"none", "running", "ended"}] /\ TaskInv'
      BY <3>3 DEF Askers, Doctors
    <3>5. QED
      BY <3>1, <3>2, <3>3, <3>4 DEF ContainerStops, repair, preflight
  <2>3. CASE UnivpnRestarts \/ RunnerHangs \/ TunnelDrops \/ ComposeElsewhere
    BY <2>3, Parts DEF UnivpnRestarts, RunnerHangs, TunnelDrops, ComposeElsewhere, NewUnivpn, work,
                       repair, preflight
  <2>4. QED
    BY <2>1, <2>2, <2>3, <1>4 DEF FaultStep, LookFails, DoctorDies
<1>7. TypeOK'
  <2>1. {busySeen', young', blind', calm', settled', overtaken'} \subseteq BOOLEAN
    <3>1. calm' = FALSE /\ settled' = FALSE
      BY <1>1 DEF Fault
    <3>2. QED
      BY <1>5, <1>6, <3>1, Zenon DEF TypeOK
  <2>2. QED
    BY <1>2, <1>5, <1>6, <2>1 DEF TypeOK
<1>8. \A d \in Doctors : ToldInv(d)' /\ LoginInv(d)'
  <2> SUFFICES ASSUME NEW d \in Doctors PROVE ToldInv(d)' /\ LoginInv(d)'
    OBVIOUS
  <2>1. ToldInv(d) /\ LoginInv(d) /\ d \in Askers /\ d # "none"
    BY DEF Askers, Doctors
  <2>2. CASE pc'[d] \notin Judging /\ (pc'[d] \notin Looked \/ blind' = TRUE)
    BY <2>2 DEF ToldInv, LoginInv
  <2>3. CASE pc'[d] = pc[d] /\ blind' = blind
    <3>1. CASE task' = "none"
      <4>1. tried' = tried /\ (known' = known \/ known'[d] = "none")
        BY <1>6, <2>1
      <4>2. QED
        BY <2>1, <2>3, <3>1, <4>1 DEF ToldInv, LoginInv
    <3>2. CASE task' # "none"
      BY <1>6, <2>1, <2>3, <3>2 DEF ToldInv, LoginInv
    <3>3. QED
      BY <3>1, <3>2
  <2>4. QED
    BY <1>5, <2>2, <2>3
<1>9. QED
  BY <1>3, <1>5, <1>6, <1>7, <1>8

-----------------------------------------------------------------------------
(* The invariant and the theorems.                                           *)

(* Every step keeps the invariant.                                           *)
LEMMA NextInv == ASSUME Inv, Next PROVE Inv'
<1>1. CASE SupervisorRuns
  <2>1. "supervisor" \in Doctors
    BY DEF Doctors
  <2>2. canaryIp' \in [Doctors -> BOOLEAN] /\ runs' \in 0 .. MaxRuns
    BY <1>1 DEF Inv, TypeOK, SupervisorRuns
  <2>3. QED
    BY <1>1, <2>1, <2>2, WaitInv DEF SupervisorRuns
<1>2. CASE OperatorRuns
  <2>1. "operator" \in Doctors
    BY DEF Doctors
  <2>2. canaryIp' \in [Doctors -> BOOLEAN]
    BY <1>2, Zenon DEF Inv, TypeOK, OperatorRuns
  <2>3. runs' \in 0 .. MaxRuns
    BY <1>2, DoctorAssumption DEF Inv, TypeOK, OperatorRuns
  <2>4. QED
    BY <1>2, <2>1, <2>2, <2>3, WaitInv DEF OperatorRuns
<1>3. ASSUME NEW d \in Doctors, RepairStep(d) PROVE Inv'
  <2>1. CASE GiveUp(d)
    <3>1. canaryIp' \in [Doctors -> BOOLEAN] /\ runs' \in 0 .. MaxRuns
      BY <2>1 DEF Inv, TypeOK, GiveUp
    <3>2. QED
      BY <2>1, <3>1, WaitInv DEF GiveUp
  <2>2. QED
    BY <1>3, <2>1, TakeLockInv, StartsInv, LooksInv, AsksWorkerInv, RecreatesInv, TriggerLoginInv,
       ResetUnivpnInv, FinalInv, UnlinkInv DEF RepairStep
<1>4. QED
  BY <1>1, <1>2, <1>3, PreflightInv, WorkerInv, FaultInv DEF Next

(* The invariant holds of every run.                                         *)
LEMMA InvHolds == Spec => []Inv
<1>1. ASSUME Inv, UNCHANGED vars PROVE Inv'
  <2> USE <1>1 DEF Inv, vars, world, work, repair, preflight, ghosts
  <2>1. TypeOK' /\ Alone' /\ TaskInv'
    BY DEF TypeOK, Alone, TaskInv
  <2>2. \A d \in Doctors : PathInv(d)' /\ ToldInv(d)' /\ LoginInv(d)'
    BY DEF PathInv, ToldInv, LoginInv, Whole, RunnerHealthy, Connected
  <2>3. SettledInv' /\ VerdictInv'
    BY DEF SettledInv, VerdictInv, Healthy, RunnerHealthy, VpnHealthy, Connected
  <2>4. QED
    BY <2>1, <2>2, <2>3
<1>2. Inv /\ [Next]_vars => Inv'
  BY <1>1, NextInv
<1>3. QED
  BY <1>2, InitInv, PTL DEF Spec

(* Every variable holds a value of its kind.                                 *)
THEOREM TypesHold == Spec => []TypeOK
<1>1. Inv => TypeOK
  BY DEF Inv
<1>2. QED
  BY <1>1, InvHolds, PTL

(* vpn_doctor.py:260-279, 338-344, 461-472: a login is judged by the doctor  *)
(* whose canary made it, which nobody has meddled with since, and no task is *)
(* pushed aside for a canary - though doctors are killed and containers stop *)
(* at any step.                                                              *)
THEOREM LoginsJudgedAreOwn == Spec => []LoginJudgedIsOwn
<1>1. Inv => LoginJudgedIsOwn
  BY DEF Inv, TaskInv, LoginInv, Judging, Polling, LoginJudgedIsOwn
<1>2. QED
  BY <1>1, InvHolds, PTL

(* vpn_doctor.py:294-351: a repair that comes to its last look undisturbed   *)
(* has put every sidecar into the namespace univpn has now.                  *)
THEOREM RepairsConnect == Spec => []RepairConnects
<1>1. Inv => RepairConnects
  BY DEF Inv, PathInv, RepairConnects, AfterSidecars, AfterRunner, Whole
<1>2. QED
  BY <1>1, InvHolds, PTL

(* vpn_doctor.py:476, 388-420: after a repair that found everything healthy  *)
(* only a preflight it has overtaken tells somebody that the VPN is down.    *)
THEOREM OldVerdictsGone == Spec => []NoOldVerdict
<1>1. Inv => NoOldVerdict
  BY DEF Inv, VerdictInv, NoOldVerdict
<1>2. QED
  BY <1>1, InvHolds, PTL

(* vpn_doctor.py:310-317, 323-344: no repair takes the network away from a   *)
(* task the doctor was told about.                                           *)
THEOREM ToldTasksKeepTheNetwork == Spec => ToldTasksSpared
<1>1. Inv => \A d \in Doctors : pc'[d] # pc[d] /\ Takes(d) /\ task # "none" =>
                 (task = "user" /\ young) \/ blind \/ pc[d] = "recreate"
  BY DEF Inv, ToldInv, LoginInv, Takes, Looked
<1>2. QED
  BY <1>1, InvHolds, PTL DEF Spec, ToldTasksSpared
=============================================================================

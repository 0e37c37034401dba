# TLA+ models of bo-vpn-agent

This directory holds TLA+ models of the worker, its vehicle inventory, the runner
daemon and its two executors, the Telegram audio bot and the VPN doctor of
`bo-vpn-agent`, the TLC configurations that check them on small instances, and
TLAPS proofs, for every value of the constants, of all the invariants and action
properties that passing runs check and of the worker's refinement of its abstract
specification. Line numbers refer to the files under `src/` of the commit the
models were made from; `PROJECT.json` maps every definition to the lines it models.

    tlc -workers 2 -config MCWorker.cfg MCWorker      # one run
    tlapm WorkerProofs.tla                            # one proof module

## The system

    bot ──HTTP──> worker (WorkerService) ──HTTP──> runner daemon ──> VPN session ──> vehicle
     │              rate limiter, audit log           jobs             FIFO, tunnel
     └──> play_vehicle_audio.sh ──ssh──> vehicle
    supervisor / operator ──> vpn_doctor ──> worker, containers

| Component | State | Operations | Interacts through |
| --- | --- | --- | --- |
| `RateLimiter` (service.py) | one queue of times for all, one per user | `check`, `_trim` | called by `create_task` under the worker's lock |
| `WorkerService` (service.py, models.py) | tasks by id and by request_id, credentials by task, two threads for each task | `create_task`, `_execute_task`, `_set_state`, `get_task`, `health` | HTTP threads, exec thread and runner thread share the dictionaries under an RLock; a timed-out runner is not stopped |
| `AuditLogger` (audit.py) | a file of lines | `write_task_event` | last step of `_execute_task`, may raise |
| Runners (runner.py) | none | report phases, then a result or an exception | callback `set_state`; `RunnerDaemonClient` polls the daemon |
| `RunnerDaemonService` (runner_daemon.py) | jobs with their credentials | `create_job`, `cancel_job`, `_execute_job`, `get_job` | any number of jobs at once; the answer to `create_job` is read without the lock |
| `ContainerNamespaceExecutor` | the VPN session outside of it | preflight, managed login, operation, cleanup | one FIFO, one UniVPN menu and one tunnel for all jobs |
| `ExistingContainerExecutor`, `CommandExecutor` | none | sequences of commands with timeouts | called by a job's runner thread |
| `VehicleInventory` | records and the mtime they belong to | lookups, reload | HTTP threads, partly without a lock |
| Audio bot, playback (telegram_audio_bot.py) | one job per user, its process, its files | admission, `_play`, `_stop`, `stop_all` | polling thread against one daemon thread per job, processes, signals |
| Audio bot, settings | branch, audio, target and input mode of each user; a JSON file | commands, buttons, texts, restart | the polling thread only; the file survives restarts |
| VPN doctor, supervisor | files: cache, state, locks | `preflight`, `status`, `repair` | worker API, docker, `flock` |
| TCP proxy, artifacts, API, config, images | see `PROJECT.json` | | |

What is hard here: the threads of one task or job race with timeouts,
cancellation and completion; threads that timed out go on; locks are released
between a read and its use; the bot is told to stop in every stage of a
playback; several jobs type into one interactive menu; requests between worker and daemon
are lost while the work they asked for goes on; the doctor takes containers away
under a worker that may have been given a task since it was asked; a cache is
compared and replaced in steps; steps fail half way; the bot restarts with a
changed inventory. `PROJECT.json` lists these as hazards,
each at its line with the properties that would catch it.

## Modules

| Module | Models | Form |
| --- | --- | --- |
| `RateLimiter` | `check`, `_trim` over a monotonic clock | actions used by `Worker` and `RateLimiterLog` |
| `RateLimiterLog` | the limiter alone with a log of what it admitted | specification, invariants |
| `TaskLifecycle` | what the API promises of a task: submitted once, progresses, ends once | abstract specification |
| `Worker` | `WorkerService` | specification, implements `TaskLifecycle` |
| `RunnerDaemon` | `RunnerDaemonService` | specification |
| `ExistingContainerExecutor` | the executor of the `existing_container` mode and its container | actions and an invariant used by `RemoteTask` |
| `RemoteTask` | `RunnerDaemonClient` in the worker, the network, `RunnerDaemon` and `ExistingContainerExecutor` | composition: extends the one, instantiates the other |
| `VehicleInventory` | lookup, reload and cache of the vehicle inventory | specification |
| `VpnDoctor` | `repair`, its two callers, the cached preflight | specification |
| `NamespaceExecutor` | `ContainerNamespaceExecutor` and the UniVPN client it types into | specification |
| `AudioPlayback` | jobs, `/stop` and shutdown of the audio bot | specification |
| `AudioSettings` | the dialogue, the settings file and restarts | specification |
| `MC*` | small sets for TLC and their symmetries | |
| `RateLimiterProofs`, `WorkerProofs`, `RemoteTaskProofs`, `VehicleInventoryProofs`, `NamespaceExecutorProofs`, `VpnDoctorProofs`, `AudioPlaybackProofs`, `AudioSettingsProofs` | theorems about the module they are named for | |

Operators introduced by the comment "Variant for mutation" are plausible bugs of
the definition that follows them. No specification uses them. Putting one in the
place of its definition must make TLC report the property that `PROJECT.json`
pairs it with, which shows that the property depends on the code it speaks of.

### RateLimiter, RateLimiterLog

`globalEvents` and `userEvents` are the deques. `CheckAdmits` and `CheckRefuses`
are the two ends of `check`; both trim first, as the code does. The clock moves
by any step, so events hit the cutoff exactly. `RateLimiterLog` adds the times of
all admissions, which the code forgets, and states the limits over them.

### Worker

`create_task` is one action for each of its answers (`Created`, `Replay`,
`Conflict`, `RateLimited`, `Busy`, `Rejected`); the whole body holds the lock, so
each is one step. Validation and the inventory lookup are reduced to whether a
body can be built into a task, must fail, or may do either (`build`). The exec
thread of a task goes through `exec`: "spawned", "joining", the branch after
`join`, "finally", "ended"; each critical section is one step, and what is read
between two sections (`is_alive`, the holders) is a step of its own. The runner
thread reports phases in order (`RunnerReports`) and ends in one of three ways
(`RunnerEnds`), also after its task is over. `reply` is the last answer of
`create_task`, for `RequestsBound`.

### RunnerDaemon

Jobs are created at any time and in any number. The lock is a variable because
some sections take several assignments that an unlocked reader sees one by one:
the answer to `POST /jobs` reads the state and then the other fields
(`PostReadsState`, `PostReadsFields`) while the job's threads are already
writing. `vpn` is the credential object of the job, `given` what the runner
thread was handed. An unknown `runner_mode` ends the exec thread before its try
block (`ThreadDies`).

### ExistingContainerExecutor, RemoteTask

The executor finds the PID of a container once (`FindContainer`) and enters its
namespace for every command after that; here the PID is the incarnation of the
container, and entering one that is gone fails (`Entered`). Any command may fail
or exceed its timeout, in a namespace that lives as well (the probe of the ports
among them), or raise what nothing in the executor catches, which ends the runner
thread as a crash (`CommandFails`). Container and tunnel change between two
commands (`WorldStep`, external). `RemoteTask` puts the client of the worker in
front of the daemon. A request is on the way (`request`) until the daemon takes
it (`Create`), refuses it (`PostRefused`) or dies; the client may give up waiting
first (`NoAnswer`), and the request is then still taken. `Evaluate` is the loop of
`run`, `GetAnswered` the answer of `get_job`, which needs the daemon's lock. The
worker's own timeout (`TaskTimesOut`) closes the task and tells nobody. `Restart`
takes the jobs, threads and connections of the daemon with it. What the client
returns (`outcome`) is compared with what the daemon recorded.

### VehicleInventory

A version of the file is its mtime: `contents` gives the rows of each, `file` the
one on disk. `_load_records` is followed step by step, `stat`, the comparison,
the reading, and the two assignments, because `GET /vehicles/resolve` takes no
lock; `POST /tasks` calls it under the worker's lock, so there is one such
caller. Reading raises for a file that is gone, cannot be read or is no CSV in
UTF-8 (`ReadFails`), and for rows the code refuses. Texts are spelt in several ways and `Normal` is what
`normalize_identifier` makes of them. `overlapped` and `solo` are ghosts: whether
reloads of two threads have met since one last ran by itself. Two writes of the
file within the resolution of its time stamp are assumed not to happen.

### VpnDoctor

The containers that run (`up`), the sidecars that share the namespace univpn has
now (`joined`), a runner that does not answer, the tunnel, and a UniVPN client
that takes no login until its container is new (`stuck`). `pc` follows `repair`
look by look and change by change, for the supervisor and for an operator, who
compete for one `flock`. `task` says whose task the worker executes, if any: a
user's or the canary of one of the doctors; `known` what it knows of the last task
of each, which is what a polling doctor is told of its canary, whatever task comes
after it. Faults are bounded by `MaxFaults`: a container stops or is
started again in a new namespace, the runner hangs, the tunnel drops, the worker
does not answer a look, the doctor is killed or a command of its own fails, or
containers are made anew outside of the lock (`ComposeElsewhere`: by hand, or by
the `docker compose` of a doctor that was killed, which outlives it).
`tried` is the ghost owner of a login: the doctor whose canary the worker was the
last to execute to its end while that doctor waited for it, until a doctor changes
the path. `LoginJudgedIsOwn` says that a doctor judges no login but that one.
`young` and `blind` are ghosts for what the doctor can know of a task; `calm`,
`settled` and `overtaken` for when a promise applies. The preflight is `Inspect`
and `WriteCache` under its own lock. A worker that runs and never answers is not
a fault here: no step of `repair` would make it anew.

### NamespaceExecutor

A runner thread per job. The configuration (manage the session, stop it after the
task, a disconnect sequence) is chosen at the start and fixed. `ip addr` and `ip
route` are two steps, `_login` writes one line per step, the deadline is a flag
that the clock may set at any time, and whatever ends the body leads to the
cleanup step. The UniVPN client is external: it reads the FIFO line by line,
follows its menu, accepts anything at a credential prompt, ignores a choice it
does not know, and brings up the interface before the route. Whatever the body does, it may end with an error nothing in it names
("raised"), and the cleanup runs for that as for the others. `misread` and
`disturbed` record whether a credential was read at a wrong prompt and whether
anything disturbed a login.

### AudioPlayback

`pc` follows `_play` through its stages; every stage may raise (`Raises`). With
`OsFails`, starting the thread may fail after the slot was taken (`MediaStartFails`),
and so may removing a file in the finally clause, before the slot is left
(`UnlinkFails`). In both cases nothing leaves the slot ("lost"): further audio of
that user is refused as long as the bot runs, and /stop cancels a job nobody works
on, though it still interrupts a script that plays on.
`poll` is the polling thread: admitting audio, the three steps of `_stop`
(cancel, read `job.process`, signal) and the shutdown by a signal handler. `child`
holds the two processes a job may start. A lock that is held across steps is
`lock`. The vehicle check is repeated up to `Attempts` times.

### AudioSettings

The polling thread handles one update at a time, so a handler is one step.
`saved` is the content of the file; every save writes all users anew or fails,
leaving the memory `ahead` of it. A restart loads the file against the inventory
of that moment (`Restart`), or cannot read it (`RestartUnread`). What is written for
a branch goes through `NormalizeBranch`, when the user chooses it, when the file is
loaded, and once more when the target is parsed again: folded (`Fold`), then an
alias, then a branch of that very name. `NamesAssumption` is that the name of a
branch means that branch. It is true of `piteravto` and `pat`, the branches the
repository configures. It would not be true of a branch that `VEHICLE_MAP_PATHS` names with an
underscore: `_normalize_branch` writes a dash for it, only an alias
could choose that branch, and a restart would not recognise it in the file; nor of an alias in
`VEHICLE_BRANCH_ALIASES` that leads from the name of one branch to another.

## Runs

| Run | Instance | Shows |
| --- | --- | --- |
| `rate_limiter` | 2 users, limits 3 and 2, window 2, time to 6 | no interval of the window's length has more admissions than the limits (`WindowBounds`); nobody is refused below them |
| `worker` | 2 users, 3 request ids (two bodies compete for one), 2 tasks, one token a tick | `OneActiveTask`, `RequestsBound`, `OutcomeConsistent`, `OnlyTimedOutRunnersLinger`, `AuditFaithful`, `EndIsFinal`, `FollowsLifecycle`; every task ends and its credentials are erased, though runners hang and audit lines fail (`TasksEnd`) |
| `remote` | 1 task, known and unknown modes, 2 incarnations of the container, 1 restart of the daemon | outcomes of jobs and of their answers fit (`OutcomesFit`), no live job runs with blank credentials, verdicts come from the namespace that was checked, the worker is told the truth (`OutcomeTrue`), only lost answers and timeouts leave jobs behind, the end of a job is final; jobs of known modes end or vanish with the daemon, the client returns |
| `daemon_erase` (violation) | 1 job | an unknown mode keeps the credentials for ever |
| `inventory` | 2 threads, 5 inventories (same identifier in two fields, twice in one, bad address, bad rows), 2 versions of the file | rows not older than their time stamp and answers not older than the call, unless reloads overlapped; lookups that fit the rows; files with bad rows never serve |
| `namespace` | 2 jobs, all 8 configurations, 1 restart of the client, drops | cleanup exactly once, warnings that tell the truth, no verdict without a complete preflight, credentials at their prompts unless disturbed |
| `namespace_live` | 1 job, 2 restarts | every job ends |
| `doctor` | 2 faults, 2 user tasks, 1 repair by an operator, with a proxy | a login that is judged is the doctor's own and no task makes room for it, a repair nothing interfered with connects everything, no old verdict in the cache, tasks the doctor was told of are spared; the path is healthy in the end |
| `playback` | 2 users, 2 jobs, 2 attempts, threads and files that fail | one job per user, `/stop` reaches script and converter, nothing is left behind, a stopped job ends |
| `playback_orphan` (violation) | 2 users, 2 jobs | a script can play on without a job |
| `playback_files` (violation) | 1 job | a shutdown leaves files behind |
| `settings` | 2 users, 2 branches and 4 names for them, 3 inventories, volumes 1..2 | one input mode, targets that fit, a file that holds the memory, settings that survive a restart |

Why the bounds are enough to meet the cases: two tasks let a runner that timed
out live beside the next task; two bodies for one request id give replay and
conflict; one token that comes back with the tick gives a refusal, a busy worker
and a second task (that the two limits differ is the business of `rate_limiter`). Jobs of the daemon share nothing but its lock, for which the exec, runner
and HTTP threads of one job already contend, and no property relates two jobs, so
one is enough. Two jobs give every race for the FIFO, and two users of the bot at
once or one after the other's job. The second attempt of the vehicle check stands
for the second and third of the code. The violations are shown without
`OsFails`, so that neither needs a failing system call. Three
inventories cover a branch that is gone, a vehicle that is gone and a changed
address. Two threads and two versions of the inventory are what it takes for an old
reload to meet a new one; more threads and versions are covered by the proof. Two
faults let one happen while the other is being repaired, two tasks let one come
before and one after the canary. Two volumes and a step of one reach both ends of the range. Where
deadlock checking is off, the system may stop: no caller has to come, jobs are
used up, or the bot has exited.

The bounds have names: `MaxTime` and `MaxStep` (clock), `TaskIds` and `JobIds`
(what is created in one behaviour), `Attempts` (3 in the code), `MaxRestarts`
(restarts of the client, of the daemon), `MaxIncarnation` (of the container),
`MaxVersion` (of the inventory file), `MaxFaults`, `MaxTasks`, `MaxRuns` (of the
doctor), `MaxVolume`.

### Fairness

- Worker and daemon: weak fairness of exec threads (they are scheduled, `join`
  has a timeout) and of the HTTP thread that holds the daemon's lock. Nothing is
  assumed of runners, which may hang, nor of callers.
- RemoteTask: weak fairness of the client (it sleeps and asks again, and `urlopen`
  has a timeout, so either an answer or `NoAnswer` comes), of the exec threads and
  of the HTTP threads of the daemon. Requests may all be lost; runners, executors
  and the container owe nothing.
- VpnDoctor: weak fairness of the supervisor (cron runs it every minute,
  docs/vpn_doctor.md), of the steps of a doctor that has begun (its commands have
  timeouts) and of the end of a task (the worker's `join` has one). Faults, user
  tasks and repairs by hand are bounded, so `Recovers` says what happens when they
  stop; a user's task need not log in.
- NamespaceExecutor: weak fairness of every step of a job except failures, of its
  clock, and of the restart of the container (`restart: unless-stopped`). A write
  is only enabled while the client has the FIFO open, and the cleanup only counts as
  enabled while it need not wait in `open` for a reader (`CleanupUnblocked`). The number of restarts is
  bounded, so a reader is there in the end.
- AudioPlayback: weak fairness of the polling thread; strong fairness of `_play`,
  which competes for a lock that is never held for long: for a few statements, or
  for one `send_message` (telegram_audio_bot.py:651, 779), which the HTTP timeout
  ends; an interrupted
  script ends (its trap kills the remote player and exits; an assumption about an
  external process). Nothing is assumed of scripts that were not interrupted.

## Findings

Three runs show that the code does something other than a document says.

1. `daemon_erase`: `create_runner` is called before the try block
   (runner_daemon.py:158). An unknown `runner_mode` leaves the job "created" and
   its credentials in memory, against README.md:560.
2. `playback_orphan`: a Telegram call that fails during playback drops the job but
   not the script (telegram_audio_bot.py:694), so Stop does not find it, against
   docs/audio_bot_usage.md:14.
3. `playback_files`: a shutdown ends the daemon threads before their finally
   clauses (telegram_audio_bot.py:810), against docs/audio_bot_usage.md:38.

Met while modelling and not the subject of a run:

- A session that goes down after the preflight, for instance by the disconnect of
  the job before, is reported as `vehicle_unreachable`: the probe calls every port
  it cannot reach closed (container_namespace_executor.py:162-174), where
  docs/technical_spec_status.md:95 says that VPN problems and unreachable vehicles
  are told apart. `OperationAfterPreflight` speaks of the preflight only.
- A task whose `runner_mode` the daemon does not know leaves the thread of its
  client polling for ever; `ClientReturns` has to except it.
- Reloads of the inventory that overlap can leave old rows under a new time stamp
  until the file is written again or a later reload runs by itself; `RowsNotOlder`
  has to except them.
- A preflight that looked before a repair can write its verdict after the repair
  removed the cache; `NoOldVerdict` has to except it. It lasts for the time to live
  of the cache.

## Proofs

Every invariant and every action property that a run checks is also a theorem, and
so is the refinement of `TaskLifecycle`; only liveness is left to TLC. The theorems
hold for every value of the constants that satisfies the named assumptions, which
TLC also evaluates: `RateAssumption` (positive limits, a natural window),
`WorkerAssumption` (bodies have the fields the code reads, None is none of the
ids), `PhasesAssumption` (runners report neither "created" nor a terminal state),
`InventoryAssumption` (the task caller is no reader, there is a first version of
the file, normalizing twice is normalizing once), `DaemonAssumption` and
`RemoteAssumption` (phases are no terminal states, None is nothing else, the
container has run once), `NamespaceAssumption`, `DoctorAssumption` (bounds are
natural numbers), `PlaybackAssumption` and `SettingsAssumption` (None is nothing
else, the default volume is in range, inventories map numbers to addresses), and
`NamesAssumption` (the name of a branch means it, see AudioSettings above).

In each module of proofs `Inv` (`RateInv`, `WorkerInv`) is the inductive
invariant. What there is many of has an invariant of its own, `JobInv(j)`,
`ThreadInv(t)`, `FitInv(u)`; one lemma shows that a step of one job keeps those of
the others, and there is a lemma for each action. TLC has checked most of the inductive
invariants on the instances of the runs.

- `RateLimiterProofs`: `RateWindowBounds` are both window bounds,
  `RefusalsJustified` their converse. The bounds are about
  the log, of which the limiter only keeps a part, so they are not inductive
  alone. `RateInv` adds `QueuesAreRemainders`: each queue is the rest of its log
  after an expired prefix, and logs are in order. `TrimSpec` is what
  `Trim` returns: since the queue is ordered, dropping expired events from the
  front leaves exactly the unexpired ones. An admission then adds an event to a
  queue that is below its limit, so the event as many places back has expired; and
  a full queue has its limit of unexpired events (`FullQueueExhausts`).
- `WorkerProofs`: `WorkerSafety`, `RequestsKeepTheirTasks`, `ResultsGoWithStates`,
  `WorkerThreads` and `OnlyTimeoutsLeaveRunners` are the invariants of the run
  `worker`. `WorkerInv` adds to them how the position of an exec thread goes with
  the task's state, its outcome fields, its credentials and its runner
  (`ThreadsInv`), that at most one task is pending (`OnePending`), and that an
  audited task's thread has ended (`AuditInv`). Without `ThreadsInv` a step of an
  exec thread could write over an outcome; without `AuditInv` a later step could
  make a line untrue. `ThreadStep` is the lemma all steps of one task's threads
  share. `WorkerEndIsFinal` is the action property, from the same invariant.
  `WorkerImplementsLifecycle` is `Spec => TaskLifecycle!Spec` under the
  mapping `TaskStatus`: every step is a stutter or one step of one task.
- `RemoteTaskProofs`: the daemon, its client and the executor, composed.
  `WriterInv` says that whoever is writing an outcome has the daemon's lock and
  what is written so far, so that cancelling, expiring and publishing cannot meet.
  `Agrees`: what a request has read of a job that is over, with or without the
  lock, is still so when it is answered and when the client looks at it;
  `OutcomeInv` carries it into what the worker is told. `PlaceInv` is the life of a
  job through requests that are lost and daemons that die: a job is created at most
  once, and an answer about it means that it was. `CheckInv` ties the executor's
  verdict to the process it found first. From these come `OneOutcomeRecorded`,
  `NoLiveJobBlanked`, `VerdictsChecked`, `WorkerIsToldTheTruth`,
  `OnlyLossLeavesBehind` and the action property `RecordsAreFinal`.
- `VehicleInventoryProofs`: `RowsNeverOlder`, `AnswersFresh` and
  `CacheHoldsGoodFiles` are about the cache. `CallInv`
  says that a call looks at a file at least as new as the call and reads one at
  least as new as it looked at. `SoloInv` says that a reload that has met no other
  is the only one there is, and that what it has read serves the time stamp in the
  cache and everyone who is about to use it: without it, replacing the rows could
  take them from under a caller whose comparison has succeeded. `LookupsRight` is
  about the answers, and `LookupFits` about what the recursion of `Lookup` computes
  for any rows and fields. It needs no induction. Some function satisfies the recursion
  (`LookupVerdict` gives one, by the first field from each on in which a row
  matches), so the one that is chosen does, and the least field with the verdict of
  the first match can only be the first field.
- `NamespaceExecutorProofs`: `HookRunsOnce`, `ResultsTellTheTruth` and
  `SessionSeenBeforeOperation` follow from how far a job has come.
  `CredentialsAtTheirPrompts` relates a job's thread, the FIFO and the client:
  `LoginInv` says that, of the undisturbed job's script, the client has read a
  prefix (`ReadsAt`), that the rest is in the FIFO behind
  disconnects of earlier jobs, and that the menu is where that prefix takes it;
  `SoloInv` that no other job runs, `IdleInv` what is left between two logins.
- `VpnDoctorProofs`: `PathInv` says which part of the path stands at each step of a
  repair nothing interfered with, which is what `RepairsConnect` needs at the last
  step; `SettledInv` that a repair of what is healthy changes nothing, and with
  `VerdictInv` it gives `OldVerdictsGone`. `ToldInv` says at which steps the doctor
  has looked at the worker; `ToldTasksKeepTheNetwork`, an action property, follows.
  `LoginsJudgedAreOwn` rests on `Alone` (the lock), on `TaskInv` (a task the worker
  knows as running is the one it executes) and on `LoginInv`: from its canary to its
  judgement a doctor has the worker for itself and the users, and once its canary
  has ended it is the owner of the login.
- `AudioPlaybackProofs`: `StopIsNeverMissed` is the race of `_stop` with `_play`.
  `StopInv` says what of a cancelled job may still run: the process `_stop` has
  read and is about to signal, or a converter between `Popen` and the look at
  `cancelled`. That `_stop` reads the right process is `ChildInv` (`job.process`
  follows the children except between spawning and assigning), and that it cannot
  come between the two for the script is `LockInv`. `SlotInv` with `PollInv` is
  `OneJobForEachUser`: the slot found free is still free when it is taken under the second
  hold of the lock, because only the polling thread takes slots. `FilesInv` gives
  `EndedJobsAreClean`.
- `AudioSettingsProofs`: `FitInv` keeps the target in step with branch, settings and
  inventory; `SavingFiles` is the lemma all handlers that save share. Saving is their last
  step, which is why the file holds the memory (`FileIsUpToDate`).
  `RestartsGiveBack`, the action property, then needs that the branch in the file
  means itself (`OwnName`, `LoadedBranch`) and that `ParseTarget` gives a
  target that fits back (`ParsedAgain`). `OneQuestionAtATime` and `TargetsFit` follow at once.

Only model-checked: liveness (`TasksEnd`, `KnownJobsEndOrVanish`, `ClientReturns`,
`JobEnds`, `Recovers`, `StopEndsJob`), since fairness and ENABLED are out of the
prover's reach. The three violations are TLC's counterexamples and have nothing to
prove.

## Not modelled

Formats, texts and logging; authentication and routing of the two HTTP APIs
(requests they refuse have no effect); redaction and truncation of output;
container images, smoke tests and configuration. Reads that change nothing
(`get_task`, `health`, `capabilities`) appear only where their result is used. The
window in which the FIFO's path does not exist while the VPN container starts is
left out.

- `play_vehicle_audio.sh`: a dialogue of ssh commands with the vehicle; to the bot
  it is a process that runs, can be interrupted and ends, which `AudioPlayback`
  assumes of it.
- `tcp_proxy.py`, `proxy_connect.py`: one thread per connection moves bytes between
  two sockets; connections share nothing.
- `ArtifactStore`: writes each file under a fresh name; nobody calls its
  `cleanup_expired`.
- The doctor's log and state file, its check of the host's isolation (no step of
  `repair` acts on it) and of the ssh key.

## Plan

Done: rate limiter, worker and lifecycle, runner daemon with its client and both
executors, vehicle inventory, VPN doctor, playback, settings; proofs of all
their invariants and action properties.

Next, abstract specifications to refine and to prove, in this order:

1. `RemoteTask` as an implementation of a call that is answered at most once, with
   the end the daemon recorded: the daemon's side of `TaskLifecycle`.
2. `VehicleInventory` as an inventory that answers from some version between the
   call's begin and its end, under the exception `RowsNotOlder` names.
3. `AudioSettings` as a map of users to settings that a restart keeps.

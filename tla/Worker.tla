------------------------------- MODULE Worker -------------------------------
(***************************************************************************)
(* WorkerService of src/bo_vpn_agent/service.py: the HTTP threads that     *)
(* create tasks, and for each task the two threads that carry it out.      *)
(*                                                                         *)
(* _execute_task runs in the exec thread of the task.  It starts the       *)
(* runner thread, waits for it for timeout_sec at most, and writes how the *)
(* task ended.  A runner that is still alive then is not stopped: it keeps *)
(* running, and keeps calling _set_state, next to the runners of later     *)
(* tasks.  Everything between an acquisition of self.lock and its release  *)
(* is one step.                                                            *)
(***************************************************************************)
EXTENDS RateLimiter

CONSTANTS
    TaskIds,        \* the uuids that _build_task draws from
    RequestIds,     \* request_id values of the callers
    Payloads,       \* the request bodies the callers send
    Phases,         \* the states runners report, in the order they reach them
    RunnerUrl,      \* is config.runner_url set?
    MaxTime,        \* bound on the clock
    None            \* Python's None

(* A RunnerFailure carries a code of its own.  It may be "operation_timeout", *)
(* of a command or of a job that timed out; the rest are not told apart.      *)
FailureCodes == {"operation_timeout", "runner_failure"}
ErrorCodes == FailureCodes \cup {"internal_error"}

ASSUME WorkerAssumption ==
    /\ \A p \in Payloads : /\ p.request \in RequestIds
                           /\ p.user \in Users
                           /\ p.build \subseteq {"task", "error"}
                           /\ p.mode \in {"known", "unknown"}
    /\ RunnerUrl \in BOOLEAN
    /\ MaxTime \in Nat
    /\ None \notin TaskIds
    /\ None \notin Payloads
    /\ None \notin ErrorCodes

TerminalStates == {"finished", "failed", "timeout"}

PhaseStates == {Phases[i] : i \in 1 .. Len(Phases)}

TaskStates == {"created"} \cup PhaseStates \cup TerminalStates

(* Every runner reports (some of) the phases in order, and none twice.       *)
ASSUME PhasesAssumption ==
    /\ Phases \in Seq(STRING)
    /\ \A i, j \in 1 .. Len(Phases) : Phases[i] = Phases[j] => i = j
    /\ PhaseStates \cap ({"created", "absent"} \cup TerminalStates) = {}

VARIABLES
    tasksById,          \* keys of tasks_by_id
    tasksByRequest,     \* tasks_by_request_id
    secrets,            \* keys of secrets_by_task_id
    body,               \* Task fields fixed at creation: the payload
    state,              \* Task.state
    errorCode,          \* Task.error_code
    summary,            \* are Task.summary, data, artifacts filled in?
    exec,               \* where the exec thread of the task is
    runner,             \* the runner thread: not started, alive, or its outcome
    phase,              \* how far through Phases the runner itself has come
    auditLog,           \* the lines AuditLogger has appended
    reply               \* the last answer of create_task

taskVars == <<tasksById, tasksByRequest, secrets, body>>
execVars == <<state, errorCode, summary, exec, runner, phase, auditLog>>
vars == <<rateVars, taskVars, execVars, reply>>

ExecSteps == {"none", "spawned", "joining", "expired", "raised", "finally", "ended"}
AuditLines == [task : TaskIds, state : TaskStates, errorCode : ErrorCodes \cup {None}]
RunnerSteps == {"none", "alive", "result", "failure", "crash"}

(* An answer that names no task: an error.                                   *)
Error == [payload |-> None, task |-> None]

Init == /\ RateInit
        /\ tasksById = {}
        /\ tasksByRequest = [r \in RequestIds |-> None]
        /\ secrets = {}
        /\ body = [t \in TaskIds |-> None]
        /\ state = [t \in TaskIds |-> "created"]
        /\ errorCode = [t \in TaskIds |-> None]
        /\ summary = [t \in TaskIds |-> FALSE]
        /\ exec = [t \in TaskIds |-> "none"]
        /\ runner = [t \in TaskIds |-> "none"]
        /\ phase = [t \in TaskIds |-> 0]
        /\ auditLog = <<>>
        /\ reply = Error

Active == {t \in tasksById : state[t] \notin TerminalStates}

-----------------------------------------------------------------------------
(* create_task, one action for each way it answers.                          *)

Answer(p, t) == reply' = [payload |-> p, task |-> t]
Refuse == reply' = Error

(* Variant for mutation: only unfinished tasks are looked up.                *)
KnownUnfinished(p) == tasksByRequest[p.request] \in Active

Known(p) == tasksByRequest[p.request] # None

(* The request_id has been used.  The same body is answered with the task    *)
(* it made; another body (another fingerprint) is a conflict.  Neither takes *)
(* a token of the rate limiter.                                              *)
SameBody(p) == body[tasksByRequest[p.request]] = p

Replay(p) == /\ Known(p)
             /\ SameBody(p)
             /\ Answer(p, tasksByRequest[p.request])
             /\ UNCHANGED <<rateVars, taskVars, execVars>>

Conflict(p) == /\ Known(p)
               /\ ~ SameBody(p)
               /\ Refuse            \* request_id_conflict
               /\ UNCHANGED <<rateVars, taskVars, execVars>>

RateLimited(p) == /\ ~ Known(p)
                  /\ CheckRefuses(p.user)
                  /\ Refuse            \* rate_limited
                  /\ UNCHANGED <<taskVars, execVars>>

(* The token has been taken when the worker finds that it is busy, and when  *)
(* _build_task finds that the payload is no good.                            *)
Busy(p) == /\ ~ Known(p)
           /\ CheckAdmits(p.user)
           /\ Active # {}
           /\ Refuse            \* worker_busy
           /\ UNCHANGED <<taskVars, execVars>>

Rejected(p) == /\ ~ Known(p)
               /\ CheckAdmits(p.user)
               /\ Active = {}
               /\ "error" \in p.build
               /\ Refuse            \* rejected
               /\ UNCHANGED <<taskVars, execVars>>

(* Variant for mutation: _active_task is not asked.                          *)
CanCreateWhileBusy(p) == /\ ~ Known(p)
                         /\ CheckAdmits(p.user)
                         /\ "task" \in p.build

(* The task is registered, with its credentials, and its exec thread starts. *)
CanCreate(p) == /\ ~ Known(p)
                /\ CheckAdmits(p.user)
                /\ Active = {}
                /\ "task" \in p.build

Register(p, t) ==
    /\ t \in TaskIds \ tasksById
    /\ tasksById' = tasksById \cup {t}
    /\ tasksByRequest' = [tasksByRequest EXCEPT ![p.request] = t]
    /\ secrets' = secrets \cup {t}
    /\ body' = [body EXCEPT ![t] = p]
    /\ exec' = [exec EXCEPT ![t] = "spawned"]
    /\ Answer(p, t)
    /\ UNCHANGED <<state, errorCode, summary, runner, phase, auditLog>>

Created(p) == CanCreate(p) /\ \E t \in TaskIds : Register(p, t)

CreateTask(p) == \/ Replay(p)
                 \/ Conflict(p)
                 \/ RateLimited(p)
                 \/ Busy(p)
                 \/ Rejected(p)
                 \/ Created(p)

-----------------------------------------------------------------------------
(* The runner thread: runner.run with the set_state callback.                *)

(* Variant for mutation: _set_state does not look at the state first.        *)
SetStateAlways(t, s) == state' = [state EXCEPT ![t] = s]

(* _set_state: a report about a task that has ended is dropped.              *)
SetState(t, s) ==
    state' = [state EXCEPT ![t] = IF @ \in TerminalStates THEN @ ELSE s]

RunnerReports(t) ==
    /\ runner[t] = "alive"
    /\ \E i \in 1 .. Len(Phases) :
           /\ i >= phase[t]
           /\ phase' = [phase EXCEPT ![t] = i]
           /\ SetState(t, Phases[i])
    /\ UNCHANGED <<rateVars, taskVars, errorCode, summary, exec, runner, auditLog, reply>>

(* run_runner leaves a result, a RunnerFailure or another exception in its   *)
(* holder, whether or not somebody still waits for it.                       *)
RunnerEnds(t) ==
    /\ runner[t] = "alive"
    /\ \E outcome \in {"result", "failure", "crash"} :
           runner' = [runner EXCEPT ![t] = outcome]
    /\ UNCHANGED <<rateVars, taskVars, state, errorCode, summary, exec, phase, auditLog, reply>>

-----------------------------------------------------------------------------
(* The exec thread: _execute_task.                                           *)

ExecMoves(t, from, to) == /\ exec[t] = from
                          /\ exec' = [exec EXCEPT ![t] = to]

(* create_runner knows every mode when it talks to a runner-daemon.          *)
RunnerExists(t) == RunnerUrl \/ body[t].mode = "known"

(* Read the task and its credentials, make the runner, start its thread.     *)
StartRunner(t) ==
    /\ t \in secrets
    /\ RunnerExists(t)
    /\ ExecMoves(t, "spawned", "joining")
    /\ runner' = [runner EXCEPT ![t] = "alive"]
    /\ UNCHANGED <<rateVars, taskVars, state, errorCode, summary, phase, auditLog, reply>>

(* No credentials, or create_runner raises ValueError: to the except clause. *)
StartFails(t) ==
    /\ ~ (t \in secrets /\ RunnerExists(t))
    /\ ExecMoves(t, "spawned", "raised")
    /\ UNCHANGED <<rateVars, taskVars, state, errorCode, summary, runner, phase, auditLog, reply>>

(* Variants for mutation: join has no timeout; and a timeout is treated as   *)
(* any other exception.                                                      *)
JoinForever(t) == FALSE /\ UNCHANGED vars

JoinRaises(t) ==
    /\ runner[t] = "alive"
    /\ ExecMoves(t, "joining", "raised")
    /\ UNCHANGED <<rateVars, taskVars, state, errorCode, summary, runner, phase, auditLog, reply>>

(* join(timeout_sec) returns and is_alive() is true.  The lock is taken only *)
(* after that: the runner may still report, or end, in between.              *)
JoinExpires(t) ==
    /\ runner[t] = "alive"
    /\ ExecMoves(t, "joining", "expired")
    /\ UNCHANGED <<rateVars, taskVars, state, errorCode, summary, runner, phase, auditLog, reply>>

(* set_state("cleanup") and set_state(s) under one hold of the lock.         *)
EndTask(t, s, code) ==
    /\ state' = [state EXCEPT ![t] = s]
    /\ errorCode' = [errorCode EXCEPT ![t] = code]
    /\ UNCHANGED <<rateVars, taskVars, runner, phase, auditLog, reply>>

(* Variant for mutation: a result that has come in late is kept.             *)
WriteTimeoutAndResult(t) == /\ ExecMoves(t, "expired", "finally")
                            /\ EndTask(t, "timeout", "operation_timeout")
                            /\ summary' = [summary EXCEPT ![t] = runner[t] = "result"]

WriteTimeout(t) == /\ ExecMoves(t, "expired", "finally")
                   /\ EndTask(t, "timeout", "operation_timeout")
                   /\ UNCHANGED summary

(* The runner ended in time; its holder says how.                            *)
WriteFailure(t) == /\ runner[t] = "failure"
                   /\ ExecMoves(t, "joining", "finally")
                   /\ \E code \in FailureCodes : EndTask(t, "failed", code)
                   /\ UNCHANGED summary

WriteResult(t) == /\ runner[t] = "result"
                  /\ ExecMoves(t, "joining", "finally")
                  /\ EndTask(t, "finished", errorCode[t])
                  /\ summary' = [summary EXCEPT ![t] = TRUE]

Reraise(t) == /\ runner[t] = "crash"
              /\ ExecMoves(t, "joining", "raised")
              /\ UNCHANGED <<rateVars, taskVars, state, errorCode, summary, runner, phase, auditLog, reply>>

(* except BaseException.                                                     *)
WriteInternalError(t) == /\ ExecMoves(t, "raised", "finally")
                         /\ EndTask(t, "failed", "internal_error")
                         /\ UNCHANGED summary

(* The finally clause: the credentials go first, then the fallback for a     *)
(* task that has not ended, then the audit line.  Writing it can fail with   *)
(* an OSError, which ends the thread.                                        *)
Finally(t) ==
    /\ ExecMoves(t, "finally", "ended")
    /\ secrets' = secrets \ {t}
    /\ SetState(t, "failed")
    /\ \/ auditLog' = Append(auditLog, [task |-> t, state |-> state'[t], errorCode |-> errorCode[t]])
       \/ UNCHANGED auditLog
    /\ UNCHANGED <<rateVars, tasksById, tasksByRequest, body, errorCode, summary, runner, phase, reply>>

ExecStep(t) == \/ StartRunner(t)
               \/ StartFails(t)
               \/ JoinExpires(t)
               \/ WriteTimeout(t)
               \/ WriteFailure(t)
               \/ WriteResult(t)
               \/ Reraise(t)
               \/ WriteInternalError(t)
               \/ Finally(t)

-----------------------------------------------------------------------------
Tick == /\ now < MaxTime
        /\ Advance(1)
        /\ UNCHANGED <<taskVars, execVars, reply>>

Next == \/ \E p \in Payloads : CreateTask(p)
        \/ \E t \in TaskIds : RunnerReports(t) \/ RunnerEnds(t) \/ ExecStep(t)
        \/ Tick

Spec == Init /\ [][Next]_vars

(* An exec thread is an ordinary thread: it is scheduled, and its join       *)
(* returns after timeout_sec at the latest.  Nothing is assumed of the       *)
(* runners, which may hang for ever, nor of the callers.                     *)
FairSpec == Spec /\ \A t \in TaskIds : WF_vars(ExecStep(t))

-----------------------------------------------------------------------------
(* Properties.                                                               *)

(* Every variable holds a value of its kind.                                 *)
TypeOK ==
    /\ now \in Nat
    /\ globalEvents \in Seq(Nat)
    /\ userEvents \in [Users -> Seq(Nat)]
    /\ tasksById \subseteq TaskIds
    /\ tasksByRequest \in [RequestIds -> TaskIds \cup {None}]
    /\ secrets \subseteq TaskIds
    /\ body \in [TaskIds -> Payloads \cup {None}]
    /\ state \in [TaskIds -> TaskStates]
    /\ errorCode \in [TaskIds -> ErrorCodes \cup {None}]
    /\ summary \in [TaskIds -> BOOLEAN]
    /\ exec \in [TaskIds -> ExecSteps]
    /\ runner \in [TaskIds -> RunnerSteps]
    /\ phase \in [TaskIds -> 0 .. Len(Phases)]
    /\ auditLog \in Seq(AuditLines)
    /\ reply \in [payload : Payloads \cup {None}, task : TaskIds \cup {None}]

(* service.py:78 and 242: whatever the callers, timeouts and late runners    *)
(* do, no two tasks are unfinished at once.                                  *)
OneActiveTask == \A t, u \in Active : t = u

(* service.py:68-72 and 83-84: the two dictionaries agree.  A task is found  *)
(* under its own request_id, a request_id leads to a task that was made from *)
(* it, and the task a caller was told of is the one its body made.           *)
RequestsBound ==
    /\ \A t \in tasksById : body[t] # None /\ tasksByRequest[body[t].request] = t
    /\ \A r \in RequestIds :
           tasksByRequest[r] # None => /\ tasksByRequest[r] \in tasksById
                                       /\ body[tasksByRequest[r]].request = r
    /\ reply.task # None => /\ tasksByRequest[reply.payload.request] = reply.task
                            /\ body[reply.task] = reply.payload

(* service.py:189-225: a task has a result exactly when it finished, and an  *)
(* error code exactly when it failed or timed out, "operation_timeout" in    *)
(* the latter case: a result that arrives late is never mixed in.            *)
OutcomeConsistent ==
    \A t \in tasksById :
        /\ summary[t] <=> state[t] = "finished"
        /\ (errorCode[t] # None) <=> state[t] \in {"failed", "timeout"}
        /\ state[t] = "timeout" => errorCode[t] = "operation_timeout"

(* service.py:85, 172 and 229: an unfinished task has its credentials (the   *)
(* branch for missing ones is never taken), and they are held only while its *)
(* exec thread lives.                                                        *)
Executing == {t \in TaskIds : exec[t] \notin {"none", "ended"}}
SecretsHeldWhileExecuting == Active \subseteq secrets /\ secrets = Executing

(* service.py:188-196: threads of several runners may run side by side, but  *)
(* a runner outlives its task only when the task timed out.  At most one     *)
(* runner works for a task that is not over.                                 *)
OnlyTimedOutRunnersLinger ==
    \A t \in TaskIds : runner[t] = "alive" => t \in Active \/ state[t] = "timeout"

(* service.py:227-233 with audit.py:16-33: a task is audited once at most,   *)
(* after it ended, and the line stays true: it says how the task ended.      *)
AuditFaithful ==
    \A i \in 1 .. Len(auditLog) :
        LET line == auditLog[i]
        IN /\ line.state \in TerminalStates
           /\ line.state = state[line.task]
           /\ line.errorCode = errorCode[line.task]
           /\ \A j \in 1 .. Len(auditLog) : auditLog[j].task = line.task => i = j

(* service.py:235-240: the end of a task is final.  No late report, late     *)
(* result or replayed request changes its state, its error or its result,    *)
(* and it never loses its request_id.                                        *)
EndIsFinal ==
    [][\A t \in tasksById :
           /\ t \in tasksById'
           /\ tasksByRequest'[body[t].request] = t
           /\ state[t] \in TerminalStates =>
                  UNCHANGED <<state[t], errorCode[t], summary[t]>>]_vars

(* What a caller sees of a task: its state, once it exists.                  *)
TaskStatus == [t \in TaskIds |-> IF t \in tasksById THEN state[t] ELSE "absent"]
Lifecycle == INSTANCE TaskLifecycle WITH Final <- TerminalStates, status <- TaskStatus

(* models.py:8-22, docs/bot_worker_api.md: the worker implements the task    *)
(* lifecycle of the API.                                                     *)
FollowsLifecycle == Lifecycle!Spec

(* service.py:188 and 229: every task ends and its credentials are erased,   *)
(* even when its runner never returns and its audit line cannot be written.  *)
TasksEnd ==
    \A t \in TaskIds : (t \in tasksById) ~> (state[t] \in TerminalStates /\ t \notin secrets)
=============================================================================

----------------------------- MODULE RemoteTask -----------------------------
(***************************************************************************)
(* A task of the worker that runs as a job of the runner daemon:           *)
(* RunnerDaemonClient of src/bo_vpn_agent/runner.py on one side of the     *)
(* network, RunnerDaemon on the other, and behind it the executor of the   *)
(* existing_container mode.  Requests and answers can be late or lost, the *)
(* worker gives the task up after its timeout while the client goes on     *)
(* polling, and the daemon, which keeps its jobs in memory, is started     *)
(* again when it dies (restart: unless-stopped, docker-compose.full.yml).  *)
(***************************************************************************)
EXTENDS RunnerDaemon

CONSTANTS
    MaxIncarnation, \* how often the container of the executor is started
    MaxRestarts     \* how often the daemon is started again

ASSUME RemoteAssumption == MaxIncarnation \in Nat \ {0} /\ MaxRestarts \in Nat

VARIABLES
    client,         \* where RunnerDaemonClient.run is
    request,        \* is its POST on the way?
    view,           \* the job as the client has been told, until it looks at it
    outcome,        \* what run gave: "none", "result" or an error code
    task,           \* the task in the worker: running, timed out, or closed
    restarts,       \* how often the daemon was started again
    forgotten,      \* ghost: jobs that were lost with a daemon
    step, pid, verdict, routeSeen, ranIn,    \* of the executor
    container, tunnel

Executor == INSTANCE ExistingContainerExecutor

clientVars == <<client, request, view, outcome, task>>
execVars == <<step, pid, verdict, routeSeen, ranIn, container, tunnel>>
remoteVars == <<vars, clientVars, restarts, forgotten, execVars>>

ClientSteps == {"idle", "waiting", "evaluate", "get", "ended"}
Unanswered == {"runner_unavailable", "internal_error"}

RemoteInit ==
    /\ Init
    /\ Executor!Init
    /\ client = [j \in JobIds |-> "idle"]
    /\ request = [j \in JobIds |-> FALSE]
    /\ view = [j \in JobIds |-> NoResponse]
    /\ outcome = [j \in JobIds |-> "none"]
    /\ task = [j \in JobIds |-> "running"]
    /\ restarts = 0
    /\ forgotten = {}

-----------------------------------------------------------------------------
(* The client.                                                               *)

(* _create_job: POST /jobs is sent.                                          *)
Post(j) ==
    /\ client[j] = "idle"
    /\ client' = Put(client, j, "waiting")
    /\ request' = Put(request, j, TRUE)
    /\ UNCHANGED <<vars, view, outcome, task, restarts, forgotten, execVars>>

(* run is over; the worker closes the task unless it has timed out before.   *)
Return(j, what) ==
    /\ client' = Put(client, j, "ended")
    /\ outcome' = Put(outcome, j, what)
    /\ task' = IF task[j] = "running" THEN Put(task, j, "closed") ELSE task
    /\ view' = Put(view, j, NoResponse)

PostAnswered(j) ==
    /\ client[j] = "waiting"
    /\ post[j] = "answered"
    /\ client' = Put(client, j, "evaluate")
    /\ view' = Put(view, j, response[j])
    /\ post' = Put(post, j, "none")
    /\ response' = Put(response, j, NoResponse)
    /\ UNCHANGED <<jobs, mode, state, errorCode, summary, vpn, exec, runner, given, lock>>
    /\ UNCHANGED <<request, outcome, task, restarts, forgotten, execVars>>

(* _request: no answer within 10 seconds, a refused or broken connection; or *)
(* half an answer, an exception that is not one of those caught.             *)
NoAnswer(j) ==
    /\ client[j] \in {"waiting", "get"}
    /\ \E code \in Unanswered : Return(j, code)
    /\ UNCHANGED <<vars, request, restarts, forgotten, execVars>>

(* do_POST raises a WorkerError (the bearer token, the body) before there is *)
(* a job; its code reaches the worker.                                       *)
PostRefused(j) ==
    /\ client[j] = "waiting"
    /\ request[j]
    /\ request' = Put(request, j, FALSE)
    /\ Return(j, "refused")
    /\ UNCHANGED <<vars, restarts, forgotten, execVars>>

(* Variant for mutation: a job that has not begun is taken for a failed one. *)
EvaluateImpatient(j) ==
    /\ client[j] = "evaluate"
    /\ \/ view[j].state = "finished" /\ Return(j, "result")
       \/ view[j].state \in {"created", "failed", "timeout"} /\ Return(j, "runner_failed")
       \/ /\ view[j].state \in PhaseStates
          /\ client' = Put(client, j, "get")
          /\ view' = Put(view, j, NoResponse)
          /\ UNCHANGED <<outcome, task>>
    /\ UNCHANGED <<vars, request, restarts, forgotten, execVars>>

(* The loop of run: a job that is over ends it, any other is asked for again *)
(* after poll_interval_sec.                                                  *)
Evaluate(j) ==
    /\ client[j] = "evaluate"
    /\ \/ view[j].state = "finished" /\ Return(j, "result")
       \/ /\ view[j].state = "timeout"
          /\ Return(j, IF view[j].errorCode = None THEN "operation_timeout" ELSE view[j].errorCode)
       \/ /\ view[j].state = "failed"
          /\ Return(j, IF view[j].errorCode = None THEN "runner_failed" ELSE view[j].errorCode)
       \/ /\ view[j].state \notin TerminalStates
          /\ client' = Put(client, j, "get")
          /\ view' = Put(view, j, NoResponse)
          /\ UNCHANGED <<outcome, task>>
    /\ UNCHANGED <<vars, request, restarts, forgotten, execVars>>

(* Variant for mutation: the body of a 404 is taken for a job, which has no  *)
(* state yet.                                                                *)
GetAnsweredUnchecked(j) ==
    /\ client[j] = "get"
    /\ lock = None
    /\ client' = Put(client, j, "evaluate")
    /\ view' = Put(view, j, IF j \notin jobs THEN [NoResponse EXCEPT !.state = "created"]
                            ELSE [state |-> state[j], summary |-> summary[j],
                                  errorCode |-> errorCode[j]])
    /\ UNCHANGED <<vars, request, outcome, task, restarts, forgotten, execVars>>

(* GET /jobs/<id>: get_job answers under the lock of the daemon.             *)
GetAnswered(j) ==
    /\ client[j] = "get"
    /\ lock = None
    /\ \/ /\ j \in jobs
          /\ client' = Put(client, j, "evaluate")
          /\ view' = Put(view, j, [state |-> state[j], summary |-> summary[j],
                                   errorCode |-> errorCode[j]])
          /\ UNCHANGED <<outcome, task>>
       \/ j \notin jobs /\ Return(j, "job_not_found")
    /\ UNCHANGED <<vars, request, restarts, forgotten, execVars>>

(* service.py:188: join(timeout_sec) of the worker returns first.  The task  *)
(* is over; its client and its job are not told.                             *)
TaskTimesOut(j) ==
    /\ client[j] # "idle"
    /\ task[j] = "running"
    /\ task' = Put(task, j, "timeout")
    /\ UNCHANGED <<vars, client, request, view, outcome, restarts, forgotten, execVars>>

ClientStep(j) == \/ PostAnswered(j)
                 \/ PostRefused(j)
                 \/ NoAnswer(j)
                 \/ Evaluate(j)
                 \/ GetAnswered(j)

-----------------------------------------------------------------------------
(* The daemon.                                                               *)

(* The request may come in after the client has given it up.                 *)
Create(j) ==
    /\ request[j]
    /\ request' = Put(request, j, FALSE)
    /\ \E m \in Modes : CreateJob(j, m)
    /\ UNCHANGED <<client, view, outcome, task, restarts, forgotten, execVars>>

(* In the existing_container mode the runner thread runs the executor.       *)
Existing(j) == mode[j] = "existing_container"

ExecutorBegins(j) ==
    /\ Existing(j)
    /\ RunnerBegins(j)
    /\ Executor!Begin(j)
    /\ UNCHANGED <<clientVars, restarts, forgotten>>

ExecutorWorks(j) ==
    /\ runner[j] = "alive"
    /\ Executor!ExecutorStep(j)
    /\ UNCHANGED <<vars, clientVars, restarts, forgotten>>

ExecutorEnds(j) ==
    /\ Existing(j)
    /\ step[j] = "done"
    /\ RunnerEnds(j)
    /\ runner'[j] = IF verdict[j] = "ok" THEN "result"
                    ELSE IF verdict[j] = "raised" THEN "crash" ELSE "failure"
    /\ UNCHANGED <<clientVars, restarts, forgotten, execVars>>

OtherRunner(j) ==
    /\ ~ Existing(j)
    /\ RunnerBegins(j) \/ RunnerReports(j) \/ RunnerEnds(j)
    /\ UNCHANGED <<clientVars, restarts, forgotten, execVars>>

(* The code of a failed executor is the code of the job.                     *)
Execute(j) ==
    /\ ExecStep(j)
    /\ exec[j] = "joined" /\ Existing(j) /\ runner[j] = "failure" /\ errorCode'[j] # errorCode[j] =>
           (errorCode'[j] = "operation_timeout") = (verdict[j] = "operation_timeout")
    /\ UNCHANGED <<clientVars, restarts, forgotten, execVars>>

Cancel(j) == CancelFields(j) /\ UNCHANGED <<clientVars, restarts, forgotten, execVars>>

Serve(j) == HttpStep(j) /\ UNCHANGED <<clientVars, restarts, forgotten, execVars>>

(* The daemon dies with its threads, the connections to it and its jobs, and *)
(* is started again.  (The fields of a job that is forgotten keep what they  *)
(* were last, for the properties.)                                           *)
Restart ==
    /\ restarts < MaxRestarts
    /\ restarts' = restarts + 1
    /\ forgotten' = forgotten \cup jobs
    /\ jobs' = {}
    /\ exec' = [j \in JobIds |-> IF j \in jobs THEN "dead" ELSE exec[j]]
    /\ runner' = [j \in JobIds |-> "none"]
    /\ post' = [j \in JobIds |-> "none"]
    /\ request' = [j \in JobIds |-> FALSE]
    /\ step' = [j \in JobIds |-> IF step[j] = "idle" THEN "idle" ELSE "done"]
    /\ lock' = None
    /\ UNCHANGED <<mode, state, errorCode, summary, vpn, given, response, client, view, outcome,
                   task, pid, verdict, routeSeen, ranIn, container, tunnel>>

World == Executor!WorldStep /\ UNCHANGED <<vars, clientVars, restarts, forgotten>>

RemoteNext == \/ \E j \in JobIds : \/ Post(j)
                                   \/ ClientStep(j)
                                   \/ TaskTimesOut(j)
                                   \/ Create(j)
                                   \/ ExecutorBegins(j)
                                   \/ ExecutorWorks(j)
                                   \/ ExecutorEnds(j)
                                   \/ OtherRunner(j)
                                   \/ Execute(j)
                                   \/ Cancel(j)
                                   \/ Serve(j)
              \/ Restart
              \/ World

(* The threads of both processes are scheduled, and a request that gets no   *)
(* answer times out.  Nothing is assumed of a runner or of the container.    *)
RemoteSpec ==
    /\ RemoteInit /\ [][RemoteNext]_remoteVars
    /\ \A j \in JobIds : /\ WF_remoteVars(ClientStep(j))
                         /\ WF_remoteVars(Execute(j))
                         /\ WF_remoteVars(Serve(j))

-----------------------------------------------------------------------------
(* Properties.                                                               *)

(* The variables of the composition hold values of their kind.               *)
RemoteTypeOK ==
    /\ TypeOK
    /\ client \in [JobIds -> ClientSteps]
    /\ request \in [JobIds -> BOOLEAN]
    /\ \A j \in JobIds : view[j].state \in JobStates \cup {None}
    /\ outcome \in [JobIds -> {"none", "result", "refused", "runner_failed", "job_not_found"}
                                  \cup Unanswered \cup ErrorCodes]
    /\ task \in [JobIds -> {"running", "timeout", "closed"}]
    /\ restarts \in 0 .. MaxRestarts
    /\ forgotten \subseteq JobIds
    /\ step \in [JobIds -> Executor!ExecutorSteps]
    /\ verdict \in [JobIds -> Executor!Verdicts]

(* existing_container_executor.py:25-32.                                     *)
VerdictFromCheckedNamespace == Executor!VerdictFromCheckedNamespace

(* runner.py:141-160, 183-194: the worker is told what happened.  A result   *)
(* is the result of a job that finished, in the existing_container mode with *)
(* an operation that succeeded; an error of a job is the one the daemon      *)
(* recorded, whatever reports were still under way; "job_not_found" is said  *)
(* only of a job that went down with a daemon, and a request that is refused *)
(* leaves no job.                                                            *)
OutcomeTrue ==
    \A j \in JobIds :
        /\ outcome[j] = "result" =>
               state[j] = "finished" /\ summary[j] /\ (Existing(j) => verdict[j] = "ok")
        /\ outcome[j] \in ErrorCodes => Over(j) /\ errorCode[j] = outcome[j]
        /\ outcome[j] = "job_not_found" => j \in forgotten
        /\ outcome[j] = "refused" => mode[j] = None
        /\ outcome[j] # "runner_failed"

(* runner.py:132-194, service.py:188-196: there is no call by which the      *)
(* worker ends a job it has lost sight of.  A job that still runs while its  *)
(* client has ended was left behind by an answer that never came, and one    *)
(* whose task is over by that or by the timeout of the worker.               *)
LeftBehindByLoss ==
    \A j \in jobs :
        ~ Over(j) =>
            /\ client[j] = "ended" => outcome[j] \in Unanswered
            /\ task[j] # "running" => task[j] = "timeout" \/ outcome[j] \in Unanswered

(* runner_daemon.py:141-213: a job whose runner_mode the daemon knows is     *)
(* over in the end and its credentials blanked, even when its runner hangs,  *)
(* or they are gone with the daemon.                                         *)
KnownJobsEndOrVanish ==
    \A j \in JobIds :
        (j \in jobs /\ mode[j] # "unknown") ~> (j \notin jobs \/ (Over(j) /\ vpn[j] = "blank"))

(* runner.py:141-160: a client that has sent its request returns, through    *)
(* lost answers, cancelled and forgotten jobs - unless the daemon does not   *)
(* know the runner_mode: such a job is never over (runner_daemon.py:158) and *)
(* is polled for ever.                                                       *)
ClientReturns ==
    \A j \in JobIds : (client[j] # "idle") ~> (client[j] = "ended" \/ mode[j] = "unknown")
=============================================================================

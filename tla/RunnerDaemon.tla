---------------------------- MODULE RunnerDaemon ----------------------------
(***************************************************************************)
(* RunnerDaemonService of src/bo_vpn_agent/runner_daemon.py: HTTP threads  *)
(* that create, read and cancel jobs, and for each job an exec thread      *)
(* (_execute_job) and the runner thread it starts and waits for.           *)
(*                                                                         *)
(* create_job answers without the lock, so the answer is put together from *)
(* fields that other threads are writing.  The writers therefore take two  *)
(* steps, with the lock held in between: the fields of the outcome, then   *)
(* the state.                                                              *)
(***************************************************************************)
EXTENDS Integers, Sequences

CONSTANTS
    JobIds,         \* the uuids of _build_job
    Modes,          \* runner_mode values of the payloads that come in
    Phases,         \* the states runners report, in the order they reach them
    None            \* Python's None, and the owner of a free lock

TerminalStates == {"finished", "failed", "timeout"}
PhaseStates == {Phases[i] : i \in 1 .. Len(Phases)}
JobStates == {"created"} \cup PhaseStates \cup TerminalStates
ErrorCodes == {"operation_timeout", "operation_cancelled", "runner_failure",
               "runner_internal_error"}

ASSUME DaemonAssumption ==
    /\ Modes \subseteq {"existing_container", "other", "unknown"}
    /\ Phases \in Seq(STRING) /\ Len(Phases) > 0
    /\ PhaseStates \cap ({"created"} \cup TerminalStates) = {}
    /\ None \notin JobIds /\ None \notin ErrorCodes /\ None \notin JobStates
    /\ None \notin {"held", "blank"}

VARIABLES
    jobs,           \* keys of self.jobs
    mode,           \* job.task.runner_mode
    state,          \* job.state
    errorCode,      \* job.error_code (set together with job.message)
    summary,        \* are job.summary, data, artifacts filled in?
    vpn,            \* job.vpn: "held" until it is overwritten with blanks
    exec,           \* where the exec thread of the job is
    runner,         \* the runner thread: not started, alive, or its outcome
    given,          \* the credentials the runner was called with
    post,           \* how far create_job's to_response has come
    response,       \* what it has read
    lock            \* the job whose writer is inside the critical section

vars == <<jobs, mode, state, errorCode, summary, vpn, exec, runner, given, post, response, lock>>

ExecSteps == {"none", "spawned", "joining", "joined", "expiring", "publishing",
              "finally", "ended", "dead"}
Publishing == {"expiring", "publishing"}
RunnerSteps == {"none", "starting", "alive", "result", "failure", "crash"}
NoResponse == [state |-> None, summary |-> FALSE, errorCode |-> None]

Init == /\ jobs = {}
        /\ mode = [j \in JobIds |-> None]
        /\ state = [j \in JobIds |-> "created"]
        /\ errorCode = [j \in JobIds |-> None]
        /\ summary = [j \in JobIds |-> FALSE]
        /\ vpn = [j \in JobIds |-> "held"]
        /\ exec = [j \in JobIds |-> "none"]
        /\ runner = [j \in JobIds |-> "none"]
        /\ given = [j \in JobIds |-> None]
        /\ post = [j \in JobIds |-> "none"]
        /\ response = [j \in JobIds |-> NoResponse]
        /\ lock = None

Over(j) == state[j] \in TerminalStates
Put(f, j, v) == [f EXCEPT ![j] = v]

-----------------------------------------------------------------------------
(* HTTP threads.                                                             *)

(* create_job: the job is entered under the lock and its thread started.     *)
CreateJob(j, m) ==
    /\ j \notin jobs
    /\ lock = None
    /\ jobs' = jobs \cup {j}
    /\ mode' = Put(mode, j, m)
    /\ exec' = Put(exec, j, "spawned")
    /\ post' = Put(post, j, "state")
    /\ UNCHANGED <<state, errorCode, summary, vpn, runner, given, response, lock>>

(* to_response without the lock: state is read first, the rest after it.     *)
PostReadsState(j) ==
    /\ post[j] = "state"
    /\ post' = Put(post, j, "fields")
    /\ response' = Put(response, j, [NoResponse EXCEPT !.state = state[j]])
    /\ UNCHANGED <<jobs, mode, state, errorCode, summary, vpn, exec, runner, given, lock>>

(* Variant for mutation: to_response reads the state last.                   *)
PostReadsStateLast(j) ==
    /\ post[j] = "fields"
    /\ post' = Put(post, j, "answered")
    /\ response' = Put(response, j, [response[j] EXCEPT !.state = state[j]])
    /\ UNCHANGED <<jobs, mode, state, errorCode, summary, vpn, exec, runner, given, lock>>

PostReadsFields(j) ==
    /\ post[j] = "fields"
    /\ post' = Put(post, j, "answered")
    /\ response' = Put(response, j, [response[j] EXCEPT !.summary = summary[j],
                                                        !.errorCode = errorCode[j]])
    /\ UNCHANGED <<jobs, mode, state, errorCode, summary, vpn, exec, runner, given, lock>>

(* cancel_job of a job that is not over: code and message, then the state.   *)
(* It stops nobody: the exec thread and the runner go on.                    *)
CancelFields(j) ==
    /\ j \in jobs
    /\ lock = None
    /\ ~ Over(j)
    /\ lock' = j
    /\ errorCode' = Put(errorCode, j, "operation_cancelled")
    /\ UNCHANGED <<jobs, mode, state, summary, vpn, exec, runner, given, post, response>>

CancelState(j) ==
    /\ lock = j
    /\ exec[j] \notin Publishing
    /\ lock' = None
    /\ state' = Put(state, j, "failed")
    /\ UNCHANGED <<jobs, mode, errorCode, summary, vpn, exec, runner, given, post, response>>

-----------------------------------------------------------------------------
(* The runner thread: run_runner.                                            *)

(* Variant for mutation: set_state does not look at the state first.         *)
SetStateAlways(j, s) == lock = None /\ state' = Put(state, j, s)

(* set_state: reports about a job that is over are dropped.                  *)
SetState(j, s) == /\ lock = None
                  /\ state' = IF Over(j) THEN state ELSE Put(state, j, s)

(* The existing_container executor gets no credentials; the others are       *)
(* called with what job.vpn holds when the thread comes to the call.         *)
RunnerBegins(j) ==
    /\ runner[j] = "starting"
    /\ runner' = Put(runner, j, "alive")
    /\ \/ /\ mode[j] = "existing_container"
          /\ SetState(j, Phases[1])
          /\ UNCHANGED given
       \/ /\ mode[j] # "existing_container"
          /\ given' = Put(given, j, vpn[j])
          /\ UNCHANGED state
    /\ UNCHANGED <<jobs, mode, errorCode, summary, vpn, exec, post, response, lock>>

RunnerReports(j) ==
    /\ runner[j] = "alive"
    /\ mode[j] # "existing_container"
    /\ \E s \in PhaseStates : SetState(j, s)
    /\ UNCHANGED <<jobs, mode, errorCode, summary, vpn, exec, runner, given, post, response, lock>>

RunnerEnds(j) ==
    /\ runner[j] = "alive"
    /\ \E outcome \in {"result", "failure", "crash"} : runner' = Put(runner, j, outcome)
    /\ UNCHANGED <<jobs, mode, state, errorCode, summary, vpn, exec, given, post, response, lock>>

-----------------------------------------------------------------------------
(* The exec thread: _execute_job.                                            *)

(* Variant for mutation: the credentials are blanked once the runner thread  *)
(* has been started.                                                         *)
StartRunnerAndWipe(j) ==
    /\ exec[j] = "spawned"
    /\ lock = None
    /\ mode[j] # "unknown"
    /\ exec' = Put(exec, j, "joining")
    /\ runner' = Put(runner, j, "starting")
    /\ vpn' = Put(vpn, j, "blank")
    /\ UNCHANGED <<jobs, mode, state, errorCode, summary, given, post, response, lock>>

(* An executor or runner is made, and the runner thread started.             *)
StartRunner(j) ==
    /\ exec[j] = "spawned"
    /\ lock = None
    /\ mode[j] # "unknown"
    /\ exec' = Put(exec, j, "joining")
    /\ runner' = Put(runner, j, "starting")
    /\ UNCHANGED <<jobs, mode, state, errorCode, summary, vpn, given, post, response, lock>>

(* create_runner raises ValueError before the try block: nothing catches it  *)
(* and no finally clause runs.                                               *)
ThreadDies(j) ==
    /\ exec[j] = "spawned"
    /\ lock = None
    /\ mode[j] = "unknown"
    /\ exec' = Put(exec, j, "dead")
    /\ UNCHANGED <<jobs, mode, state, errorCode, summary, vpn, runner, given, post, response, lock>>

(* Variant for mutation: join has no timeout.                                *)
JoinForever(j) ==
    /\ exec[j] = "joining"
    /\ runner[j] \in {"result", "failure", "crash"}
    /\ exec' = Put(exec, j, "joined")
    /\ UNCHANGED <<jobs, mode, state, errorCode, summary, vpn, runner, given, post, response, lock>>

(* join(timeout_sec): the runner has ended, or the time is up.               *)
JoinReturns(j) ==
    /\ exec[j] = "joining"
    /\ exec' = Put(exec, j, "joined")
    /\ UNCHANGED <<jobs, mode, state, errorCode, summary, vpn, runner, given, post, response, lock>>

(* Under the lock: a job that was cancelled meanwhile is left as it is.      *)
LeaveCancelled(j) ==
    /\ exec[j] = "joined"
    /\ lock = None
    /\ Over(j)
    /\ exec' = Put(exec, j, "finally")
    /\ UNCHANGED <<jobs, mode, state, errorCode, summary, vpn, runner, given, post, response, lock>>

RunnerAlive(j) == runner[j] \in {"starting", "alive"}

(* The error code of a job without a result, by what the runner thread is    *)
(* and has left now.  A RunnerFailure brings its own, "operation_timeout"    *)
(* when a command timed out.                                                 *)
Outcomes(j) == CASE RunnerAlive(j) -> {"operation_timeout"}
                 [] runner[j] = "failure" -> {"runner_failure", "operation_timeout"}
                 [] OTHER -> {"runner_internal_error"}

PublishFields(j) ==
    /\ exec[j] = "joined"
    /\ lock = None
    /\ ~ Over(j)
    /\ lock' = j
    /\ exec' = Put(exec, j, IF RunnerAlive(j) THEN "expiring" ELSE "publishing")
    /\ IF runner[j] = "result"
       THEN summary' = Put(summary, j, TRUE) /\ UNCHANGED errorCode
       ELSE /\ \E code \in Outcomes(j) : errorCode' = Put(errorCode, j, code)
            /\ UNCHANGED summary
    /\ UNCHANGED <<jobs, mode, state, vpn, runner, given, post, response>>

PublishState(j) ==
    /\ exec[j] \in Publishing
    /\ lock' = None
    /\ exec' = Put(exec, j, "finally")
    /\ state' = Put(state, j, IF exec[j] = "expiring" THEN "timeout"
                              ELSE IF summary[j] THEN "finished"
                              ELSE "failed")
    /\ UNCHANGED <<jobs, mode, errorCode, summary, vpn, runner, given, post, response>>

(* finally: job.vpn is overwritten.                                          *)
Wipe(j) ==
    /\ exec[j] = "finally"
    /\ lock = None
    /\ exec' = Put(exec, j, "ended")
    /\ vpn' = Put(vpn, j, "blank")
    /\ UNCHANGED <<jobs, mode, state, errorCode, summary, runner, given, post, response, lock>>

ExecStep(j) == \/ StartRunner(j)
               \/ ThreadDies(j)
               \/ JoinReturns(j)
               \/ LeaveCancelled(j)
               \/ PublishFields(j)
               \/ PublishState(j)
               \/ Wipe(j)

HttpStep(j) == \/ PostReadsState(j)
               \/ PostReadsFields(j)
               \/ CancelState(j)

Next == \E j \in JobIds : \/ \E m \in Modes : CreateJob(j, m)
                          \/ CancelFields(j)
                          \/ RunnerBegins(j)
                          \/ RunnerReports(j)
                          \/ RunnerEnds(j)
                          \/ ExecStep(j)
                          \/ HttpStep(j)

Spec == Init /\ [][Next]_vars

(* Threads are scheduled, and whoever holds the lock lets it go;             *)
(* join returns when its time is up.  Nothing is assumed of a               *)
(* runner, which may hang.                                                   *)
FairSpec == Spec /\ \A j \in JobIds : WF_vars(ExecStep(j)) /\ WF_vars(HttpStep(j))

-----------------------------------------------------------------------------
(* Properties.                                                               *)

(* Every variable holds a value of its kind.                                 *)
TypeOK ==
    /\ jobs \subseteq JobIds
    /\ mode \in [JobIds -> Modes \cup {None}]
    /\ state \in [JobIds -> JobStates]
    /\ errorCode \in [JobIds -> ErrorCodes \cup {None}]
    /\ summary \in [JobIds -> BOOLEAN]
    /\ vpn \in [JobIds -> {"held", "blank"}]
    /\ exec \in [JobIds -> ExecSteps]
    /\ runner \in [JobIds -> RunnerSteps]
    /\ given \in [JobIds -> {"held", "blank", None}]
    /\ post \in [JobIds -> {"none", "state", "fields", "answered"}]
    /\ response \in [JobIds -> [state : JobStates \cup {None}, summary : BOOLEAN,
                                errorCode : ErrorCodes \cup {None}]]
    /\ lock \in JobIds \cup {None}

(* A finished job has a result and no error, a failed or timed-out one an    *)
(* error and no result.                                                      *)
Fits(s, done, code) ==
    /\ s = "finished" => done /\ code = None
    /\ s = "timeout" => ~ done /\ code = "operation_timeout"
    /\ s = "failed" => ~ done /\ code # None

(* runner_daemon.py:99, 188-210 and 85, 45-65: cancelling, timing out and    *)
(* finishing race, and exactly one of them is recorded: the result and the   *)
(* error of a job that is over go with its state.  So do those in the answer *)
(* to POST /jobs, which is read without the lock: the worker never takes a   *)
(* half-written job for a result (runner.py:147-157).                        *)
OutcomesFit ==
    \A j \in JobIds :
        /\ Fits(state[j], summary[j], errorCode[j])
        /\ post[j] = "answered" =>
               Fits(response[j].state, response[j].summary, response[j].errorCode)

(* runner_daemon.py:177-181 and 213: a runner may come to its call so late   *)
(* that the credentials have been blanked, but only of a job that is over:   *)
(* no live job is run with blank credentials.                                *)
BlankOnlyWhenOver ==
    \A j \in JobIds : vpn[j] = "blank" \/ given[j] = "blank" => Over(j)

(* runner_daemon.py:160-165, 188: what a caller saw of a job that is over    *)
(* never changes, whatever its runner still reports or returns.              *)
EndIsFinal ==
    [][\A j \in jobs : Over(j) => UNCHANGED <<state[j], errorCode[j], summary[j]>>]_vars

(* README.md:560: "VPN credentials are kept in in-memory task state only     *)
(* while the task runs."  Of every job the daemon accepted, then, they are   *)
(* blanked in the end.                                                       *)
CredentialsBlanked == \A j \in JobIds : (j \in jobs) ~> (vpn[j] = "blank")
=============================================================================

---------------------------- MODULE WorkerProofs ----------------------------
(***************************************************************************)
(* Worker's safety properties, for every set of callers, bodies and tasks. *)
(***************************************************************************)
EXTENDS Worker, TLAPS

(* The limiter inside the worker; its logs are not kept here.                *)
Rate == INSTANCE RateLimiterProofs
            WITH globalLog <- globalEvents, userLog <- userEvents, MaxTime <- 0, MaxStep <- 0

(* The exec thread has not yet written how its task ended.                   *)
Pending == {"spawned", "joining", "expired", "raised"}

(* How far the two threads of a task have come, and what of the task they    *)
(* have written by then.                                                     *)
ThreadInv(t) ==
    /\ exec[t] = "none" <=> t \notin tasksById
    /\ t \in secrets <=> exec[t] \notin {"none", "ended"}
    /\ exec[t] \in {"none", "spawned"} => runner[t] = "none" /\ phase[t] = 0
    /\ exec[t] \in {"joining", "expired"} => runner[t] # "none"
    /\ exec[t] = "raised" => runner[t] # "alive"
    /\ exec[t] \in {"none"} \cup Pending =>
           /\ state[t] \notin TerminalStates
           /\ errorCode[t] = None
           /\ ~ summary[t]
           /\ phase[t] = 0 => state[t] = "created"
           /\ phase[t] # 0 => state[t] = Phases[phase[t]]
    /\ exec[t] \in {"finally", "ended"} =>
           /\ state[t] \in TerminalStates
           /\ summary[t] <=> state[t] = "finished"
           /\ (errorCode[t] # None) <=> state[t] \in {"failed", "timeout"}
           /\ state[t] = "timeout" => errorCode[t] = "operation_timeout"
           /\ runner[t] = "alive" => state[t] = "timeout"

ThreadsInv == \A t \in TaskIds : ThreadInv(t)

(* At most one exec thread is pending: the others have let the worker go.    *)
OnePending == \A t, u \in TaskIds : exec[t] \in Pending /\ exec[u] \in Pending => t = u

(* Only the last step of an exec thread audits its task.                     *)
AuditInv == AuditFaithful /\ \A i \in 1 .. Len(auditLog) : exec[auditLog[i].task] = "ended"

WorkerInv == TypeOK /\ RequestsBound /\ ThreadsInv /\ OnePending /\ AuditInv

-----------------------------------------------------------------------------
(* The rate limiter keeps its types, whatever check() answers.               *)
RateTypeOK == /\ now \in Nat
              /\ globalEvents \in Seq(Nat)
              /\ userEvents \in [Users -> Seq(Nat)]

LEMMA RateTypes ==
    ASSUME RateTypeOK,
           NEW u \in Users,
           CheckAdmits(u) \/ CheckRefuses(u)
    PROVE  RateTypeOK'
<1>1. now \in Nat /\ now' = now /\ now - Window \in Int
    BY RateAssumption DEF RateTypeOK, CheckAdmits, CheckRefuses
<1>2. \A q \in Seq(Nat) : Trim(q, now - Window) \in Seq(Nat)
    <2>1. ASSUME NEW q \in Seq(Nat) PROVE Rate!Trim(q, now - Window) \in Seq(Nat)
        BY <1>1, RateAssumption, Rate!TrimSpec
    <2> QED BY <2>1 DEF Trim, Expired, Rate!Trim, Rate!Expired
<1>3. TrimmedGlobal \in Seq(Nat) /\ TrimmedUser(u) \in Seq(Nat)
    BY <1>2 DEF RateTypeOK, TrimmedGlobal, TrimmedUser
<1>4. Append(TrimmedGlobal, now) \in Seq(Nat) /\ Append(TrimmedUser(u), now) \in Seq(Nat)
    BY <1>1, <1>3, RateAssumption, Rate!AppendSpec
<1>5. globalEvents' \in Seq(Nat)
    BY <1>3, <1>4 DEF CheckAdmits, CheckRefuses
<1>6. userEvents' \in [Users -> Seq(Nat)]
    BY <1>3, <1>4 DEF RateTypeOK, CheckAdmits, CheckRefuses
<1> QED BY <1>1, <1>5, <1>6 DEF RateTypeOK

(* A step of one of the threads of a task, as an update of that task alone:  *)
(* the values are of the right kind, they fit together, and a task that has  *)
(* been audited is left as it was.                                           *)
ThreadUpdate(t, st, ec, sm, ex, ru, ph) ==
    /\ UNCHANGED <<rateVars, taskVars, auditLog, reply>>
    /\ st \in TaskStates /\ state' = [state EXCEPT ![t] = st]
    /\ ec \in ErrorCodes \cup {None} /\ errorCode' = [errorCode EXCEPT ![t] = ec]
    /\ sm \in BOOLEAN /\ summary' = [summary EXCEPT ![t] = sm]
    /\ ex \in ExecSteps /\ exec' = [exec EXCEPT ![t] = ex]
    /\ ru \in RunnerSteps /\ runner' = [runner EXCEPT ![t] = ru]
    /\ ph \in 0 .. Len(Phases) /\ phase' = [phase EXCEPT ![t] = ph]
    /\ ThreadInv(t)'
    /\ ex \in Pending => exec[t] \in Pending
    /\ exec[t] = "ended" => ex = "ended" /\ st = state[t] /\ ec = errorCode[t]

(* Such an update keeps the invariant: the other tasks do not notice.        *)
LEMMA ThreadStep ==
    ASSUME WorkerInv, NEW t \in TaskIds,
           NEW st, NEW ec, NEW sm, NEW ex, NEW ru, NEW ph,
           ThreadUpdate(t, st, ec, sm, ex, ru, ph)
    PROVE  WorkerInv'
<1> USE DEF ThreadUpdate
<1>1. TypeOK' BY DEF WorkerInv, TypeOK, rateVars, taskVars
<1>2. RequestsBound' BY DEF WorkerInv, RequestsBound, taskVars
<1>3. ASSUME NEW u \in TaskIds, u # t PROVE ThreadInv(u)'
    <2>1. ThreadInv(u) BY DEF WorkerInv, ThreadsInv
    <2>2. /\ state'[u] = state[u] /\ errorCode'[u] = errorCode[u] /\ summary'[u] = summary[u]
          /\ exec'[u] = exec[u] /\ runner'[u] = runner[u] /\ phase'[u] = phase[u]
          /\ tasksById' = tasksById /\ secrets' = secrets
        BY <1>3 DEF WorkerInv, TypeOK, taskVars
    <2> QED BY <2>1, <2>2 DEF ThreadInv
<1>4. ThreadsInv' BY <1>3 DEF ThreadsInv
<1>5. OnePending' BY DEF WorkerInv, OnePending, TypeOK
<1>6. AuditInv'
    <2>1. ASSUME NEW u \in TaskIds, exec[u] = "ended"
          PROVE  exec'[u] = "ended" /\ state'[u] = state[u] /\ errorCode'[u] = errorCode[u]
        BY <2>1 DEF WorkerInv, TypeOK
    <2>2. \A i \in 1 .. Len(auditLog) : auditLog[i].task \in TaskIds
        <3>1. ASSUME NEW i \in 1 .. Len(auditLog) PROVE auditLog[i] \in AuditLines
            BY DEF WorkerInv, TypeOK
        <3> QED BY <3>1 DEF AuditLines
    <2>3. auditLog' = auditLog OBVIOUS
    <2> QED BY <2>1, <2>2, <2>3 DEF WorkerInv, AuditInv, AuditFaithful
<1> QED BY <1>1, <1>2, <1>4, <1>5, <1>6 DEF WorkerInv

(* The values the invariant knows about the task a thread works on.          *)
LEMMA ThreadTypes ==
    ASSUME WorkerInv, NEW t \in TaskIds
    PROVE  /\ state \in [TaskIds -> TaskStates] /\ state[t] \in TaskStates
           /\ errorCode \in [TaskIds -> ErrorCodes \cup {None}]
           /\ errorCode[t] \in ErrorCodes \cup {None}
           /\ summary \in [TaskIds -> BOOLEAN] /\ summary[t] \in BOOLEAN
           /\ exec \in [TaskIds -> ExecSteps] /\ exec[t] \in ExecSteps
           /\ runner \in [TaskIds -> RunnerSteps] /\ runner[t] \in RunnerSteps
           /\ phase \in [TaskIds -> 0 .. Len(Phases)] /\ phase[t] \in 0 .. Len(Phases)
           /\ ThreadInv(t)
BY DEF WorkerInv, TypeOK, ThreadsInv

(* The runner thread reports a phase: an update of a live task, nothing      *)
(* after its end.                                                            *)
LEMMA RunnerReportsInv ==
    ASSUME WorkerInv, NEW t \in TaskIds, RunnerReports(t)
    PROVE  WorkerInv'
<1> USE ThreadTypes
<1>1. PICK i \in 1 .. Len(Phases) : /\ i >= phase[t]
                                    /\ phase' = [phase EXCEPT ![t] = i]
                                    /\ SetState(t, Phases[i])
    BY DEF RunnerReports
<1>2. PICK st \in TaskStates : /\ st = IF state[t] \in TerminalStates THEN state[t] ELSE Phases[i]
                               /\ state' = [state EXCEPT ![t] = st]
    <2>1. Phases[i] \in TaskStates BY PhasesAssumption DEF TaskStates, PhaseStates
    <2> QED BY <1>1, <2>1 DEF SetState
<1>3. /\ runner[t] = "alive"
      /\ UNCHANGED <<rateVars, taskVars, errorCode, summary, exec, runner, auditLog, reply>>
    BY DEF RunnerReports
<1>4. ThreadInv(t)'
    <2>1. /\ state'[t] = st /\ phase'[t] = i /\ i # 0
          /\ errorCode'[t] = errorCode[t] /\ summary'[t] = summary[t]
          /\ exec'[t] = exec[t] /\ runner'[t] = "alive"
          /\ tasksById' = tasksById /\ secrets' = secrets
        BY <1>1, <1>2, <1>3 DEF taskVars
    <2>2. Phases[i] \notin TerminalStates BY PhasesAssumption DEF PhaseStates
    <2>3. exec[t] \notin {"none", "spawned"} BY <1>3 DEF ThreadInv
    <2> QED BY <1>2, <1>3, <2>1, <2>2, <2>3 DEF ThreadInv, Pending
<1>5. /\ exec[t] = "ended" => st = state[t]
      /\ i \in 0 .. Len(Phases)
    BY <1>2, PhasesAssumption DEF ThreadInv
<1>6. /\ errorCode' = [errorCode EXCEPT ![t] = errorCode[t]]
      /\ summary' = [summary EXCEPT ![t] = summary[t]]
      /\ exec' = [exec EXCEPT ![t] = exec[t]]
      /\ runner' = [runner EXCEPT ![t] = runner[t]]
    BY <1>3
<1>7. ThreadUpdate(t, st, errorCode[t], summary[t], exec[t], runner[t], i)
    BY <1>1, <1>2, <1>3, <1>4, <1>5, <1>6 DEF ThreadUpdate
<1> QED BY <1>7, ThreadStep, Zenon

(* The runner thread ends.  Nobody but its exec thread looks at how.         *)
LEMMA RunnerEndsInv ==
    ASSUME WorkerInv, NEW t \in TaskIds, RunnerEnds(t)
    PROVE  WorkerInv'
<1> USE ThreadTypes
<1>1. PICK ru \in RunnerSteps : ru \notin {"none", "alive"} /\ runner' = [runner EXCEPT ![t] = ru]
    BY DEF RunnerEnds, RunnerSteps
<1>2. /\ runner[t] = "alive"
      /\ UNCHANGED <<rateVars, taskVars, state, errorCode, summary, exec, phase, auditLog, reply>>
    BY DEF RunnerEnds
<1>3. ThreadInv(t)'
    BY <1>1, <1>2 DEF ThreadInv, Pending, taskVars
<1>4. /\ state' = [state EXCEPT ![t] = state[t]]
      /\ errorCode' = [errorCode EXCEPT ![t] = errorCode[t]]
      /\ summary' = [summary EXCEPT ![t] = summary[t]]
      /\ exec' = [exec EXCEPT ![t] = exec[t]]
      /\ phase' = [phase EXCEPT ![t] = phase[t]]
    BY <1>2
<1>5. ThreadUpdate(t, state[t], errorCode[t], summary[t], exec[t], ru, phase[t])
    BY <1>1, <1>2, <1>3, <1>4 DEF ThreadUpdate
<1> QED BY <1>5, ThreadStep, Zenon

(* The steps of the exec thread that leave the task itself alone.            *)
LEMMA ExecMovesInv ==
    ASSUME WorkerInv, NEW t \in TaskIds,
           StartRunner(t) \/ StartFails(t) \/ JoinExpires(t) \/ Reraise(t)
    PROVE  WorkerInv'
<1> USE ThreadTypes
<1>1. PICK ex \in Pending : exec' = [exec EXCEPT ![t] = ex]
    BY DEF StartRunner, StartFails, JoinExpires, Reraise, ExecMoves, Pending
<1>2. PICK ru \in RunnerSteps : runner' = [runner EXCEPT ![t] = ru]
    <2>1. "alive" \in RunnerSteps BY DEF RunnerSteps
    <2> QED BY <2>1 DEF StartRunner, StartFails, JoinExpires, Reraise
<1>3. /\ UNCHANGED <<rateVars, taskVars, state, errorCode, summary, phase, auditLog, reply>>
      /\ exec[t] \in Pending
    BY DEF StartRunner, StartFails, JoinExpires, Reraise, ExecMoves, Pending
<1>4. ThreadInv(t)'
    <2>1. /\ exec'[t] = ex /\ runner'[t] = ru
          /\ UNCHANGED <<state, errorCode, summary, phase, tasksById, secrets>>
        BY <1>1, <1>2, <1>3 DEF taskVars
    <2>2. /\ ex \in {"joining", "expired"} => ru # "none"
          /\ ex = "raised" => ru # "alive"
          /\ ex # "spawned"
        BY <1>1, <1>2, <2>1 DEF StartRunner, StartFails, JoinExpires, Reraise, ExecMoves, ThreadInv
    <2> QED BY <1>3, <2>1, <2>2 DEF ThreadInv, Pending
<1>5. /\ state' = [state EXCEPT ![t] = state[t]]
      /\ errorCode' = [errorCode EXCEPT ![t] = errorCode[t]]
      /\ summary' = [summary EXCEPT ![t] = summary[t]]
      /\ phase' = [phase EXCEPT ![t] = phase[t]]
    BY <1>3
<1>6. ex \in ExecSteps /\ exec[t] # "ended" BY <1>1, <1>3 DEF ExecSteps, Pending
<1>7. ThreadUpdate(t, state[t], errorCode[t], summary[t], ex, ru, phase[t])
    BY <1>1, <1>2, <1>3, <1>4, <1>5, <1>6 DEF ThreadUpdate
<1> QED BY <1>7, ThreadStep, Zenon

(* The steps that write how the task ended.  Each writes a terminal state    *)
(* with the error code and the result that belong to it.                     *)
LEMMA EndTaskInv ==
    ASSUME WorkerInv, NEW t \in TaskIds,
           WriteTimeout(t) \/ WriteFailure(t) \/ WriteResult(t) \/ WriteInternalError(t)
    PROVE  WorkerInv'
<1> USE ThreadTypes
<1>1. /\ UNCHANGED <<rateVars, taskVars, runner, phase, auditLog, reply>>
      /\ exec[t] \in Pending
      /\ exec' = [exec EXCEPT ![t] = "finally"]
    BY DEF WriteTimeout, WriteFailure, WriteResult, WriteInternalError, EndTask, ExecMoves, Pending
<1>2. /\ errorCode[t] = None /\ ~ summary[t]
      /\ t \in tasksById /\ t \in secrets
    BY <1>1 DEF ThreadInv, Pending
<1>3. PICK st \in TerminalStates, ec \in ErrorCodes \cup {None}, sm \in BOOLEAN :
          /\ state' = [state EXCEPT ![t] = st]
          /\ errorCode' = [errorCode EXCEPT ![t] = ec]
          /\ summary' = [summary EXCEPT ![t] = sm]
          /\ sm <=> st = "finished"
          /\ ec # None <=> st \in {"failed", "timeout"}
          /\ st = "timeout" => ec = "operation_timeout"
          /\ runner[t] = "alive" => st = "timeout"
    <2> DEFINE Goal(st, ec, sm) ==
            /\ state' = [state EXCEPT ![t] = st]
            /\ errorCode' = [errorCode EXCEPT ![t] = ec]
            /\ summary' = [summary EXCEPT ![t] = sm]
            /\ sm <=> st = "finished"
            /\ ec # None <=> st \in {"failed", "timeout"}
            /\ st = "timeout" => ec = "operation_timeout"
            /\ runner[t] = "alive" => st = "timeout"
    <2>0. summary = [summary EXCEPT ![t] = FALSE]
        BY <1>2
    <2>1. CASE WriteTimeout(t)
        <3>1. Goal("timeout", "operation_timeout", FALSE)
            BY <2>0, <2>1, WorkerAssumption DEF WriteTimeout, EndTask, ErrorCodes, FailureCodes
        <3> QED BY <3>1 DEF TerminalStates, ErrorCodes, FailureCodes
    <2>2. CASE WriteFailure(t)
        <3>1. PICK code \in FailureCodes : EndTask(t, "failed", code)
            BY <2>2 DEF WriteFailure
        <3>2. Goal("failed", code, FALSE)
            BY <2>0, <2>2, <3>1, WorkerAssumption
               DEF WriteFailure, EndTask, ErrorCodes, FailureCodes
        <3> QED BY <3>2 DEF TerminalStates, ErrorCodes, FailureCodes
    <2>3. CASE WriteResult(t)
        <3>1. Goal("finished", None, TRUE)
            BY <1>2, <2>3, WorkerAssumption DEF WriteResult, EndTask, ErrorCodes, FailureCodes
        <3> QED BY <3>1 DEF TerminalStates
    <2>4. CASE WriteInternalError(t)
        <3>1. runner[t] # "alive" BY <2>4 DEF WriteInternalError, ExecMoves, ThreadInv
        <3>2. Goal("failed", "internal_error", FALSE)
            BY <2>0, <2>4, <3>1, WorkerAssumption DEF WriteInternalError, EndTask, ErrorCodes, FailureCodes
        <3> QED BY <3>2 DEF TerminalStates, ErrorCodes, FailureCodes
    <2> QED BY <2>1, <2>2, <2>3, <2>4
<1>4. ThreadInv(t)'
    <2>1. /\ state'[t] = st /\ errorCode'[t] = ec /\ summary'[t] = sm
          /\ exec'[t] = "finally" /\ runner'[t] = runner[t] /\ phase'[t] = phase[t]
          /\ tasksById' = tasksById /\ secrets' = secrets
        BY <1>1, <1>3 DEF taskVars
    <2> QED BY <1>2, <1>3, <2>1 DEF ThreadInv, Pending
<1>5. ThreadUpdate(t, st, ec, sm, "finally", runner[t], phase[t])
    <2>1. runner' = [runner EXCEPT ![t] = runner[t]] /\ phase' = [phase EXCEPT ![t] = phase[t]]
        BY <1>1
    <2>2. st \in TaskStates BY <1>3 DEF TaskStates
    <2>3. "finally" \in ExecSteps /\ "finally" \notin Pending /\ exec[t] # "ended"
        BY <1>1 DEF ExecSteps, Pending
    <2> QED BY <1>1, <1>3, <1>4, <2>1, <2>2, <2>3 DEF ThreadUpdate
<1> QED BY <1>5, ThreadStep, Zenon

(* The finally clause: the task has ended, so the fallback changes nothing;  *)
(* the audit line, if it is written, is the only one of its task.            *)
LEMMA FinallyInv ==
    ASSUME WorkerInv, NEW t \in TaskIds, Finally(t)
    PROVE  WorkerInv'
<1>0. /\ ThreadInv(t) /\ state \in [TaskIds -> TaskStates]
      /\ exec \in [TaskIds -> ExecSteps] /\ secrets \subseteq TaskIds
      /\ errorCode \in [TaskIds -> ErrorCodes \cup {None}]
      /\ auditLog \in Seq(AuditLines)
    BY DEF WorkerInv, TypeOK, ThreadsInv
<1>1. /\ exec[t] = "finally" /\ exec' = [exec EXCEPT ![t] = "ended"]
      /\ secrets' = secrets \ {t}
      /\ UNCHANGED <<rateVars, tasksById, tasksByRequest, body, errorCode, summary, runner, phase, reply>>
    BY DEF Finally, ExecMoves
<1>2. state[t] \in TerminalStates /\ t \in tasksById
    BY <1>0, <1>1 DEF ThreadInv
<1>3. state' = state
    BY <1>0, <1>2 DEF Finally, SetState
<1>4. PICK line \in AuditLines : line = [task |-> t, state |-> state[t], errorCode |-> errorCode[t]]
    BY <1>0 DEF AuditLines
<1>5. auditLog' = Append(auditLog, line) \/ auditLog' = auditLog
    BY <1>0, <1>3, <1>4 DEF Finally
<1>6. auditLog' \in Seq(AuditLines)
    BY <1>0, <1>4, <1>5
<1>7. TypeOK'
    <2>1. "ended" \in ExecSteps BY DEF ExecSteps
    <2> QED BY <1>1, <1>3, <1>6, <2>1 DEF WorkerInv, TypeOK, rateVars
<1>8. RequestsBound' BY <1>1 DEF WorkerInv, RequestsBound
<1>9. ASSUME NEW u \in TaskIds PROVE ThreadInv(u)'
    <2>1. ThreadInv(u) BY DEF WorkerInv, ThreadsInv
    <2>2. CASE u = t
        <3>1. exec'[t] = "ended" BY <1>0, <1>1
        <3> QED BY <1>0, <1>1, <1>3, <2>2, <3>1 DEF ThreadInv, Pending
    <2>3. CASE u # t
        <3>1. exec'[u] = exec[u] BY <1>0, <1>1, <2>3
        <3> QED BY <1>1, <1>3, <2>1, <2>3, <3>1 DEF ThreadInv, Pending
    <2> QED BY <2>2, <2>3
<1>10. ThreadsInv' BY <1>9 DEF ThreadsInv
<1>11. OnePending' BY <1>0, <1>1 DEF WorkerInv, OnePending, Pending
<1>12. ASSUME NEW i \in 1 .. Len(auditLog)
       PROVE  /\ auditLog[i].task \in TaskIds /\ auditLog[i].task # t
              /\ exec'[auditLog[i].task] = "ended"
    <2>1. auditLog[i] \in AuditLines BY <1>0
    <2>2. exec[auditLog[i].task] = "ended" BY DEF WorkerInv, AuditInv
    <2>3. auditLog[i].task \in TaskIds BY <2>1 DEF AuditLines
    <2> QED BY <1>0, <1>1, <2>2, <2>3
<1>13. AuditInv'
    <2>1. CASE auditLog' = auditLog
        BY <1>1, <1>3, <1>12, <2>1 DEF WorkerInv, AuditInv, AuditFaithful
    <2>2. CASE auditLog' = Append(auditLog, line)
        <3>1. /\ Len(auditLog) \in Nat /\ Len(auditLog') = Len(auditLog) + 1
              /\ auditLog'[Len(auditLog) + 1] = line
              /\ \A i \in 1 .. Len(auditLog) : auditLog'[i] = auditLog[i]
            BY <1>0, <1>4, <2>2
        <3>2. line.task = t /\ line.state = state[t] /\ line.errorCode = errorCode[t]
            BY <1>4
        <3>3. exec'[t] = "ended" BY <1>0, <1>1
        <3>4. ASSUME NEW i \in 1 .. Len(auditLog')
              PROVE  /\ auditLog'[i].state \in TerminalStates
                     /\ auditLog'[i].state = state[auditLog'[i].task]
                     /\ auditLog'[i].errorCode = errorCode[auditLog'[i].task]
                     /\ exec'[auditLog'[i].task] = "ended"
            <4>1. CASE i = Len(auditLog) + 1
                BY <1>2, <3>1, <3>2, <3>3, <4>1
            <4>2. CASE i \in 1 .. Len(auditLog)
                BY <1>12, <3>1, <4>2 DEF WorkerInv, AuditInv, AuditFaithful
            <4> QED BY <3>1, <4>1, <4>2
        <3>5. ASSUME NEW i \in 1 .. Len(auditLog'), NEW j \in 1 .. Len(auditLog'),
                     auditLog'[j].task = auditLog'[i].task
              PROVE  i = j
            <4>1. CASE i \in 1 .. Len(auditLog) /\ j \in 1 .. Len(auditLog)
                BY <3>1, <3>5, <4>1 DEF WorkerInv, AuditInv, AuditFaithful
            <4>2. CASE i = Len(auditLog) + 1 /\ j \in 1 .. Len(auditLog)
                BY <1>12, <3>1, <3>2, <3>5, <4>2
            <4>3. CASE j = Len(auditLog) + 1 /\ i \in 1 .. Len(auditLog)
                BY <1>12, <3>1, <3>2, <3>5, <4>3
            <4>4. CASE i = Len(auditLog) + 1 /\ j = Len(auditLog) + 1
                BY <4>4
            <4> QED BY <3>1, <4>1, <4>2, <4>3, <4>4
        <3> QED BY <1>1, <1>3, <3>4, <3>5 DEF AuditInv, AuditFaithful
    <2> QED BY <1>5, <2>1, <2>2
<1> QED BY <1>7, <1>8, <1>10, <1>11, <1>13 DEF WorkerInv

(* The answers of create_task that make no task.                             *)
LEMMA NoTaskInv ==
    ASSUME WorkerInv, UNCHANGED <<taskVars, execVars>>, RateTypeOK',
           \/ reply' = Error
           \/ \E p \in Payloads : Replay(p)
           \/ reply' = reply
    PROVE  WorkerInv'
<1>1. TypeOK'
    <2>1. reply' \in [payload : Payloads \cup {None}, task : TaskIds \cup {None}]
        <3>1. CASE reply' = Error BY <3>1 DEF Error
        <3>2. CASE reply' = reply BY <3>2 DEF WorkerInv, TypeOK
        <3>3. CASE \E p \in Payloads : Replay(p)
            <4>1. PICK p \in Payloads : reply' = [payload |-> p, task |-> tasksByRequest[p.request]]
                BY <3>3 DEF Replay, Answer
            <4>2. tasksByRequest[p.request] \in TaskIds \cup {None}
                BY WorkerAssumption DEF WorkerInv, TypeOK
            <4> QED BY <4>1, <4>2
        <3> QED BY <3>1, <3>2, <3>3
    <2> QED BY <2>1 DEF WorkerInv, TypeOK, RateTypeOK, taskVars, execVars
<1>2. RequestsBound'
    <2>1. UNCHANGED <<tasksById, tasksByRequest, body>> BY DEF taskVars
    <2>2. CASE reply' = Error BY <2>1, <2>2 DEF WorkerInv, RequestsBound, Error
    <2>3. CASE reply' = reply BY <2>1, <2>3 DEF WorkerInv, RequestsBound
    <2>4. CASE \E p \in Payloads : Replay(p)
        <3>1. PICK p \in Payloads : /\ body[tasksByRequest[p.request]] = p
                                    /\ reply' = [payload |-> p, task |-> tasksByRequest[p.request]]
            BY <2>4 DEF Replay, Answer, SameBody
        <3>2. /\ tasksByRequest'[reply'.payload.request] = reply'.task
              /\ body'[reply'.task] = reply'.payload
            BY <2>1, <3>1
        <3> QED BY <2>1, <3>2 DEF WorkerInv, RequestsBound
    <2> QED BY <2>2, <2>3, <2>4
<1>3. ThreadsInv' BY DEF WorkerInv, ThreadsInv, ThreadInv, taskVars, execVars
<1>4. OnePending' BY DEF WorkerInv, OnePending, execVars
<1>5. AuditInv' BY DEF WorkerInv, AuditInv, AuditFaithful, execVars
<1> QED BY <1>1, <1>2, <1>3, <1>4, <1>5 DEF WorkerInv

(* A task is registered when no other is active, hence when no other exec    *)
(* thread is pending.                                                        *)
LEMMA RegisterInv ==
    ASSUME WorkerInv, NEW p \in Payloads, NEW t \in TaskIds,
           CanCreate(p), Register(p, t)
    PROVE  WorkerInv'
<1>0. /\ ThreadInv(t) /\ t \notin tasksById /\ tasksByRequest[p.request] = None
      /\ tasksById \subseteq TaskIds /\ secrets \subseteq TaskIds
      /\ tasksByRequest \in [RequestIds -> TaskIds \cup {None}]
      /\ body \in [TaskIds -> Payloads \cup {None}]
      /\ exec \in [TaskIds -> ExecSteps]
      /\ p.request \in RequestIds
    BY WorkerAssumption DEF WorkerInv, TypeOK, ThreadsInv, CanCreate, Known, Register
<1>1. /\ tasksById' = tasksById \cup {t}
      /\ tasksByRequest' = [tasksByRequest EXCEPT ![p.request] = t]
      /\ secrets' = secrets \cup {t}
      /\ body' = [body EXCEPT ![t] = p]
      /\ exec' = [exec EXCEPT ![t] = "spawned"]
      /\ reply' = [payload |-> p, task |-> t]
      /\ UNCHANGED <<state, errorCode, summary, runner, phase, auditLog>>
    BY DEF Register, Answer
<1>2. RateTypeOK'
    <2>1. RateTypeOK /\ p.user \in Users
        BY WorkerAssumption DEF WorkerInv, TypeOK, RateTypeOK
    <2> QED BY <2>1, RateTypes DEF CanCreate
<1>3. TypeOK'
    <2>1. "spawned" \in ExecSteps BY DEF ExecSteps
    <2>2. reply' \in [payload : Payloads \cup {None}, task : TaskIds \cup {None}] BY <1>1
    <2>3. UNCHANGED <<state, errorCode, summary, runner, phase, auditLog>> BY <1>1
    <2> QED BY <1>0, <1>1, <1>2, <2>1, <2>2, <2>3 DEF WorkerInv, TypeOK, RateTypeOK
<1>4. RequestsBound'
    <2>1. ASSUME NEW u \in tasksById'
          PROVE  body'[u] # None /\ tasksByRequest'[body'[u].request] = u
        <3>1. CASE u = t
            <4>1. body'[u] = p /\ tasksByRequest'[p.request] = t BY <1>0, <1>1, <3>1
            <4> QED BY <3>1, <4>1, WorkerAssumption
        <3>2. CASE u # t
            <4>1. u \in tasksById /\ body'[u] = body[u] BY <1>0, <1>1, <3>2
            <4>2. body[u] # None /\ tasksByRequest[body[u].request] = u
                BY <4>1 DEF WorkerInv, RequestsBound
            <4>3. body[u] \in Payloads BY <1>0, <4>1, <4>2
            <4>4. body[u].request \in RequestIds BY <4>3, WorkerAssumption
            <4>5. body[u].request # p.request BY <1>0, <4>1, <4>2, WorkerAssumption
            <4> QED BY <1>0, <1>1, <4>1, <4>2, <4>4, <4>5
        <3> QED BY <3>1, <3>2
    <2>2. ASSUME NEW r \in RequestIds, tasksByRequest'[r] # None
          PROVE  /\ tasksByRequest'[r] \in tasksById'
                 /\ body'[tasksByRequest'[r]].request = r
        <3>1. CASE r = p.request BY <1>0, <1>1, <3>1
        <3>2. CASE r # p.request
            <4>1. tasksByRequest'[r] = tasksByRequest[r] BY <1>0, <1>1, <3>2
            <4>2. tasksByRequest[r] \in tasksById /\ body[tasksByRequest[r]].request = r
                BY <2>2, <4>1 DEF WorkerInv, RequestsBound
            <4>3. tasksByRequest[r] # t BY <1>0, <4>2
            <4> QED BY <1>0, <1>1, <4>1, <4>2, <4>3
        <3> QED BY <3>1, <3>2
    <2>3. /\ tasksByRequest'[reply'.payload.request] = reply'.task
          /\ body'[reply'.task] = reply'.payload
        BY <1>0, <1>1
    <2> QED BY <2>1, <2>2, <2>3 DEF RequestsBound
<1>5. ASSUME NEW u \in TaskIds PROVE ThreadInv(u)'
    <2>1. ThreadInv(u) BY DEF WorkerInv, ThreadsInv
    <2>2. CASE u = t
        <3>1. exec'[t] = "spawned" /\ t \in secrets' /\ t \in tasksById' BY <1>0, <1>1
        <3> QED BY <1>0, <1>1, <2>2, <3>1 DEF ThreadInv, Pending
    <2>3. CASE u # t
        <3>1. exec'[u] = exec[u] BY <1>0, <1>1, <2>3
        <3> QED BY <1>1, <2>1, <2>3, <3>1 DEF ThreadInv, Pending
    <2> QED BY <2>2, <2>3
<1>6. ThreadsInv' BY <1>5 DEF ThreadsInv
<1>7. ASSUME NEW u \in TaskIds PROVE exec[u] \notin Pending
    <2>1. ThreadInv(u) BY DEF WorkerInv, ThreadsInv
    <2>2. u \notin Active BY DEF CanCreate
    <2> QED BY <2>1, <2>2 DEF ThreadInv, Active, Pending
<1>8. OnePending' BY <1>0, <1>1, <1>7 DEF OnePending
<1>9. AuditInv'
    <2>1. exec[t] = "none" BY <1>0 DEF ThreadInv
    <2>2. ASSUME NEW i \in 1 .. Len(auditLog)
          PROVE  exec'[auditLog[i].task] = "ended"
        <3>1. auditLog[i] \in AuditLines BY DEF WorkerInv, TypeOK
        <3>2. auditLog[i].task \in TaskIds BY <3>1 DEF AuditLines
        <3>3. exec[auditLog[i].task] = "ended" BY DEF WorkerInv, AuditInv
        <3> QED BY <1>0, <1>1, <2>1, <3>2, <3>3
    <2> QED BY <1>1, <2>2 DEF WorkerInv, AuditInv, AuditFaithful
<1> QED BY <1>3, <1>4, <1>6, <1>8, <1>9 DEF WorkerInv

(* Nothing is registered and no thread runs when the service starts.         *)
LEMMA WorkerInvInit == Init => WorkerInv
<1> SUFFICES ASSUME Init PROVE WorkerInv OBVIOUS
<1>1. TypeOK
    BY PhasesAssumption DEF Init, RateInit, TypeOK, Error, TaskStates, ExecSteps, RunnerSteps
<1>2. RequestsBound BY DEF Init, RequestsBound, Error
<1>3. ThreadsInv
    BY DEF Init, ThreadsInv, ThreadInv, Pending, TerminalStates
<1>4. OnePending BY DEF Init, OnePending, Pending
<1>5. AuditInv BY DEF Init, AuditInv, AuditFaithful
<1> QED BY <1>1, <1>2, <1>3, <1>4, <1>5 DEF WorkerInv

(* Every step of every thread preserves the invariant.                       *)
LEMMA WorkerInvNext == WorkerInv /\ [Next]_vars => WorkerInv'
<1> SUFFICES ASSUME WorkerInv, [Next]_vars PROVE WorkerInv' OBVIOUS
<1>0. RateTypeOK BY DEF WorkerInv, TypeOK, RateTypeOK
<1>1. ASSUME NEW p \in Payloads, CreateTask(p) PROVE WorkerInv'
    <2>0. p.user \in Users BY WorkerAssumption
    <2>1. CASE Replay(p)
        <3>1. UNCHANGED <<taskVars, execVars>> /\ RateTypeOK'
            BY <1>0, <2>1 DEF Replay, rateVars, RateTypeOK
        <3> QED BY <2>1, <3>1, NoTaskInv
    <2>2. CASE Conflict(p)
        <3>1. UNCHANGED <<taskVars, execVars>> /\ RateTypeOK' /\ reply' = Error
            BY <1>0, <2>2 DEF Conflict, Refuse, rateVars, RateTypeOK
        <3> QED BY <3>1, NoTaskInv
    <2>3. CASE RateLimited(p) \/ Busy(p) \/ Rejected(p)
        <3>1. RateTypeOK'
            BY <1>0, <2>0, <2>3, RateTypes DEF RateLimited, Busy, Rejected
        <3>2. UNCHANGED <<taskVars, execVars>> /\ reply' = Error
            BY <2>3 DEF RateLimited, Busy, Rejected, Refuse
        <3> QED BY <3>1, <3>2, NoTaskInv
    <2>4. CASE Created(p) BY <2>4, RegisterInv DEF Created
    <2> QED BY <1>1, <2>1, <2>2, <2>3, <2>4 DEF CreateTask
<1>2. ASSUME NEW t \in TaskIds, RunnerReports(t) \/ RunnerEnds(t) \/ ExecStep(t)
      PROVE  WorkerInv'
    BY <1>2, RunnerReportsInv, RunnerEndsInv, ExecMovesInv, EndTaskInv, FinallyInv DEF ExecStep
<1>3. CASE Tick
    <2>1. RateTypeOK' BY <1>0, <1>3 DEF Tick, Advance, RateTypeOK
    <2>2. UNCHANGED <<taskVars, execVars>> /\ reply' = reply BY <1>3 DEF Tick
    <2> QED BY <2>1, <2>2, NoTaskInv
<1>4. CASE UNCHANGED vars
    <2>1. UNCHANGED <<taskVars, execVars>> /\ reply' = reply /\ RateTypeOK'
        BY <1>0, <1>4 DEF vars, rateVars, RateTypeOK
    <2> QED BY <2>1, NoTaskInv
<1> QED BY <1>1, <1>2, <1>3, <1>4 DEF Next

-----------------------------------------------------------------------------
(* service.py:64-246, for every set of callers, request bodies and tasks,    *)
(* and for any number of runners that outlive their tasks: one task is       *)
(* active at a time.                                                         *)
THEOREM WorkerSafety == Spec => [](TypeOK /\ OneActiveTask)
<1>1. Spec => []WorkerInv BY WorkerInvInit, WorkerInvNext, PTL DEF Spec
<1>2. WorkerInv => TypeOK BY DEF WorkerInv
<1>3. WorkerInv => OneActiveTask
    <2> SUFFICES ASSUME WorkerInv, NEW t \in Active, NEW u \in Active PROVE t = u
        BY DEF OneActiveTask
    <2>1. t \in TaskIds /\ u \in TaskIds BY DEF WorkerInv, TypeOK, Active
    <2>2. ThreadInv(t) /\ ThreadInv(u) /\ exec[t] \in ExecSteps /\ exec[u] \in ExecSteps
        BY <2>1 DEF WorkerInv, ThreadsInv, TypeOK
    <2>3. exec[t] \in Pending /\ exec[u] \in Pending
        BY <2>2 DEF ThreadInv, Active, Pending, ExecSteps
    <2> QED BY <2>1, <2>3 DEF WorkerInv, OnePending
<1> QED BY <1>1, <1>2, <1>3, PTL

(* service.py:69-95: a request_id stands for one task for ever, and whoever  *)
(* sends the body of that task again is answered with it.                    *)
THEOREM RequestsKeepTheirTasks == Spec => []RequestsBound
<1>1. Spec => []WorkerInv BY WorkerInvInit, WorkerInvNext, PTL DEF Spec
<1>2. WorkerInv => RequestsBound BY DEF WorkerInv
<1> QED BY <1>1, <1>2, PTL

(* service.py:189-225: a task has a result exactly when it finished and an   *)
(* error exactly when it failed or timed out, whatever its runner returns    *)
(* after the end.                                                            *)
THEOREM ResultsGoWithStates == Spec => []OutcomeConsistent
<1>1. Spec => []WorkerInv BY WorkerInvInit, WorkerInvNext, PTL DEF Spec
<1>2. WorkerInv => OutcomeConsistent
    <2> SUFFICES ASSUME WorkerInv, NEW t \in tasksById
                 PROVE  /\ summary[t] <=> state[t] = "finished"
                        /\ (errorCode[t] # None) <=> state[t] \in {"failed", "timeout"}
                        /\ state[t] = "timeout" => errorCode[t] = "operation_timeout"
        BY DEF OutcomeConsistent
    <2>1. t \in TaskIds /\ ThreadInv(t) /\ exec[t] \in ExecSteps
        BY DEF WorkerInv, ThreadsInv, TypeOK
    <2>2. CASE exec[t] \in Pending
        <3>1. None # "operation_timeout" BY WorkerAssumption DEF ErrorCodes, FailureCodes
        <3>2. state[t] \notin TerminalStates /\ errorCode[t] = None /\ ~ summary[t]
            BY <2>1, <2>2 DEF ThreadInv
        <3> QED BY <3>1, <3>2 DEF TerminalStates
    <2>3. CASE exec[t] \in {"finally", "ended"} BY <2>1, <2>3 DEF ThreadInv
    <2>4. exec[t] # "none" BY <2>1 DEF ThreadInv
    <2> QED BY <2>1, <2>2, <2>3, <2>4 DEF ExecSteps, Pending
<1> QED BY <1>1, <1>2, PTL

(* service.py:167-233: credentials are held while, and only while, the exec  *)
(* thread of their task lives; the audit log is true.                        *)
THEOREM WorkerThreads == Spec => [](SecretsHeldWhileExecuting /\ AuditFaithful)
<1>1. Spec => []WorkerInv BY WorkerInvInit, WorkerInvNext, PTL DEF Spec
<1>2. WorkerInv => SecretsHeldWhileExecuting
    <2> SUFFICES ASSUME WorkerInv PROVE SecretsHeldWhileExecuting OBVIOUS
    <2>1. secrets \subseteq TaskIds /\ tasksById \subseteq TaskIds
        BY DEF WorkerInv, TypeOK
    <2>2. ASSUME NEW t \in TaskIds
          PROVE  /\ t \in secrets <=> t \in Executing
                 /\ t \in Active => t \in secrets
        BY DEF WorkerInv, ThreadsInv, ThreadInv, Executing, Active
    <2>3. secrets = Executing BY <2>1, <2>2 DEF Executing
    <2>4. Active \subseteq secrets BY <2>1, <2>2 DEF Active
    <2> QED BY <2>3, <2>4 DEF SecretsHeldWhileExecuting
<1>3. WorkerInv => AuditFaithful BY DEF WorkerInv, AuditInv
<1> QED BY <1>1, <1>2, <1>3, PTL

(* service.py:188-196: only a task that timed out leaves a runner behind.    *)
THEOREM OnlyTimeoutsLeaveRunners == Spec => []OnlyTimedOutRunnersLinger
<1>1. Spec => []WorkerInv BY WorkerInvInit, WorkerInvNext, PTL DEF Spec
<1>2. WorkerInv => OnlyTimedOutRunnersLinger
    <2> SUFFICES ASSUME WorkerInv, NEW t \in TaskIds, runner[t] = "alive"
                 PROVE  t \in Active \/ state[t] = "timeout"
        BY DEF OnlyTimedOutRunnersLinger
    <2>1. ThreadInv(t) /\ exec[t] \in ExecSteps BY DEF WorkerInv, ThreadsInv, TypeOK
    <2> QED BY <2>1 DEF ThreadInv, Active, Pending, ExecSteps
<1> QED BY <1>1, <1>2, PTL

-----------------------------------------------------------------------------
(* What a step can do to the state of one task: nothing, unless the task is  *)
(* active; then a phase not before the one it is in, or its end.             *)
TaskStep(t) ==
    \/ UNCHANGED <<state, errorCode, summary>>
    \/ /\ t \in Active
       /\ \E st \in TaskStates :
              /\ state' = [state EXCEPT ![t] = st]
              /\ \/ st \in TerminalStates
                 \/ /\ UNCHANGED <<errorCode, summary>>
                    /\ \E i \in 1 .. Len(Phases) : i >= phase[t] /\ st = Phases[i]
              /\ \A u \in TaskIds \ {t} : /\ errorCode'[u] = errorCode[u]
                                          /\ summary'[u] = summary[u]

(* Each step of a thread is such a step of its task.                         *)
LEMMA ThreadTaskStep ==
    ASSUME WorkerInv, NEW t \in TaskIds,
           RunnerReports(t) \/ RunnerEnds(t) \/ ExecStep(t)
    PROVE  TaskStep(t) /\ UNCHANGED <<tasksById, tasksByRequest, body>>
<1> USE ThreadTypes
<1>1. CASE RunnerReports(t)
    <2>1. UNCHANGED <<tasksById, tasksByRequest, body, errorCode, summary>>
        BY <1>1 DEF RunnerReports, taskVars
    <2>2. PICK i \in 1 .. Len(Phases) :
              /\ i >= phase[t]
              /\ state' = [state EXCEPT ![t] = IF state[t] \in TerminalStates THEN state[t] ELSE Phases[i]]
        BY <1>1 DEF RunnerReports, SetState
    <2>3. Phases[i] \in TaskStates BY PhasesAssumption DEF TaskStates, PhaseStates
    <2>4. t \in tasksById BY <1>1 DEF RunnerReports, ThreadInv
    <2>5. CASE state[t] \in TerminalStates
        <3>1. state' = state BY <2>2, <2>5
        <3> QED BY <2>1, <3>1 DEF TaskStep
    <2>6. CASE state[t] \notin TerminalStates
        <3>1. t \in Active BY <2>4, <2>6 DEF Active
        <3>2. state' = [state EXCEPT ![t] = Phases[i]] BY <2>2, <2>6
        <3> QED BY <2>1, <2>2, <2>3, <3>1, <3>2 DEF TaskStep
    <2> QED BY <2>5, <2>6
<1>2. CASE RunnerEnds(t) \/ StartRunner(t) \/ StartFails(t) \/ JoinExpires(t) \/ Reraise(t)
    BY <1>2 DEF RunnerEnds, StartRunner, StartFails, JoinExpires, Reraise, TaskStep, taskVars
<1>3. CASE WriteTimeout(t) \/ WriteFailure(t) \/ WriteResult(t) \/ WriteInternalError(t)
    <2>1. UNCHANGED <<tasksById, tasksByRequest, body>> /\ exec[t] \in Pending
        BY <1>3 DEF WriteTimeout, WriteFailure, WriteResult, WriteInternalError, EndTask,
                    ExecMoves, Pending, taskVars
    <2>2. t \in Active BY <2>1 DEF ThreadInv, Active, Pending
    <2>3. PICK st \in TerminalStates : state' = [state EXCEPT ![t] = st]
        BY <1>3 DEF WriteTimeout, WriteFailure, WriteResult, WriteInternalError, EndTask,
                    TerminalStates
    <2>4. ASSUME NEW u \in TaskIds \ {t}
          PROVE  errorCode'[u] = errorCode[u] /\ summary'[u] = summary[u]
        BY <1>3 DEF WriteTimeout, WriteFailure, WriteResult, WriteInternalError, EndTask
    <2>5. st \in TaskStates BY DEF TaskStates
    <2> QED BY <2>1, <2>2, <2>3, <2>4, <2>5 DEF TaskStep
<1>4. CASE Finally(t)
    <2>1. UNCHANGED <<tasksById, tasksByRequest, body, errorCode, summary>> /\ exec[t] = "finally"
        BY <1>4 DEF Finally, ExecMoves
    <2>2. state[t] \in TerminalStates BY <2>1 DEF ThreadInv
    <2>3. state' = state BY <1>4, <2>2 DEF Finally, SetState
    <2> QED BY <2>1, <2>3 DEF TaskStep
<1> QED BY <1>1, <1>2, <1>3, <1>4 DEF ExecStep

(* Every step of the worker is a step of one task, the registration of a     *)
(* new one, or neither.                                                      *)
LEMMA StepKinds ==
    ASSUME WorkerInv, [Next]_vars
    PROVE  \/ UNCHANGED <<tasksById, tasksByRequest, body, state, errorCode, summary>>
           \/ \E p \in Payloads, t \in TaskIds : CanCreate(p) /\ Register(p, t)
           \/ \E t \in TaskIds : TaskStep(t) /\ UNCHANGED <<tasksById, tasksByRequest, body>>
<1>1. CASE \E p \in Payloads : CreateTask(p)
    BY <1>1 DEF CreateTask, Replay, Conflict, RateLimited, Busy, Rejected, Created,
                taskVars, execVars
<1>2. CASE \E t \in TaskIds : RunnerReports(t) \/ RunnerEnds(t) \/ ExecStep(t)
    BY <1>2, ThreadTaskStep
<1>3. CASE Tick \/ UNCHANGED vars
    BY <1>3 DEF Tick, vars, taskVars, execVars
<1> QED BY <1>1, <1>2, <1>3 DEF Next

(* service.py:235-240: for every worker, the end of a task is final.         *)
THEOREM WorkerEndIsFinal == Spec => EndIsFinal
<1> DEFINE Keeps == \A t \in tasksById :
                        /\ t \in tasksById'
                        /\ tasksByRequest'[body[t].request] = t
                        /\ state[t] \in TerminalStates =>
                               UNCHANGED <<state[t], errorCode[t], summary[t]>>
<1>1. ASSUME WorkerInv, WorkerInv', [Next]_vars PROVE Keeps
    <2>0. /\ tasksById \subseteq TaskIds /\ state \in [TaskIds -> TaskStates]
          /\ body \in [TaskIds -> Payloads \cup {None}]
        BY <1>1 DEF WorkerInv, TypeOK
    <2>1. CASE UNCHANGED <<tasksById, tasksByRequest, body, state, errorCode, summary>>
        BY <1>1, <2>1 DEF WorkerInv, RequestsBound
    <2>2. ASSUME NEW p \in Payloads, NEW t \in TaskIds, CanCreate(p), Register(p, t)
          PROVE  Keeps
        <3>1. /\ tasksById' = tasksById \cup {t} /\ t \notin tasksById
              /\ body' = [body EXCEPT ![t] = p]
              /\ UNCHANGED <<state, errorCode, summary>>
            BY <2>2 DEF Register
        <3>2. ASSUME NEW u \in tasksById PROVE body'[u] = body[u] /\ u \in tasksById'
            BY <2>0, <3>1
        <3>3. \A u \in tasksById' : tasksByRequest'[body'[u].request] = u
            BY <1>1 DEF WorkerInv, RequestsBound
        <3> QED BY <3>1, <3>2, <3>3
    <2>3. ASSUME NEW t \in TaskIds, TaskStep(t), UNCHANGED <<tasksById, tasksByRequest, body>>
          PROVE  Keeps
        <3>1. ASSUME NEW u \in tasksById, state[u] \in TerminalStates
              PROVE  UNCHANGED <<state[u], errorCode[u], summary[u]>>
            BY <2>0, <2>3, <3>1 DEF TaskStep, Active
        <3> QED BY <1>1, <2>3, <3>1 DEF WorkerInv, RequestsBound
    <2> QED BY <1>1, <2>1, <2>2, <2>3, StepKinds
<1>2. Spec => []WorkerInv BY WorkerInvInit, WorkerInvNext, PTL DEF Spec
<1> HIDE DEF Keeps
<1>3. Spec => [][Keeps]_vars BY <1>1, <1>2, PTL DEF Spec
<1> QED BY <1>3 DEF EndIsFinal, Keeps

(* The worker implements the lifecycle of the API: the initial states agree, *)
(* and every step is a step of one task's lifecycle or does not show.        *)
THEOREM WorkerImplementsLifecycle == Spec => FollowsLifecycle
<1>1. ASSUME Init PROVE Lifecycle!Init
    BY <1>1 DEF Init, TaskStatus, Lifecycle!Init
<1>2. ASSUME WorkerInv, WorkerInv', [Next]_vars
      PROVE  [Lifecycle!Next]_TaskStatus
    <2>0. /\ tasksById \subseteq TaskIds /\ state \in [TaskIds -> TaskStates]
          /\ OneActiveTask
        <3>1. WorkerInv => OneActiveTask
            <4> SUFFICES ASSUME NEW t \in Active, NEW u \in Active PROVE t = u
                BY DEF OneActiveTask
            <4>1. t \in TaskIds /\ u \in TaskIds BY <1>2 DEF WorkerInv, TypeOK, Active
            <4>2. ThreadInv(t) /\ ThreadInv(u) /\ exec[t] \in ExecSteps /\ exec[u] \in ExecSteps
                BY <1>2, <4>1 DEF WorkerInv, ThreadsInv, TypeOK
            <4>3. exec[t] \in Pending /\ exec[u] \in Pending
                BY <4>2 DEF ThreadInv, Active, Pending, ExecSteps
            <4> QED BY <1>2, <4>1, <4>3 DEF WorkerInv, OnePending
        <3> QED BY <1>2, <3>1 DEF WorkerInv, TypeOK
    <2>1. CASE UNCHANGED <<tasksById, tasksByRequest, body, state, errorCode, summary>>
        BY <2>1 DEF TaskStatus
    <2>2. ASSUME NEW p \in Payloads, NEW t \in TaskIds, CanCreate(p), Register(p, t)
          PROVE  Lifecycle!Next
        <3>1. /\ tasksById' = tasksById \cup {t} /\ t \notin tasksById /\ state' = state
              /\ Active = {}
            BY <2>2 DEF Register, CanCreate
        <3>2. state[t] = "created"
            <4>1. ThreadInv(t) BY <1>2 DEF WorkerInv, ThreadsInv
            <4> QED BY <3>1, <4>1 DEF ThreadInv
        <3>3. TaskStatus[t] = "absent" BY <3>1 DEF TaskStatus
        <3>4. Lifecycle!Open = {}
            BY <2>0, <3>1 DEF Lifecycle!Open, TaskStatus, Active
        <3>5. TaskStatus' = [TaskStatus EXCEPT ![t] = "created"]
            BY <2>0, <3>1, <3>2 DEF TaskStatus
        <3> QED BY <3>3, <3>4, <3>5 DEF Lifecycle!Next, Lifecycle!Submit
    <2>3. ASSUME NEW t \in TaskIds, TaskStep(t), UNCHANGED <<tasksById, tasksByRequest, body>>
          PROVE  [Lifecycle!Next]_TaskStatus
        <3>1. CASE UNCHANGED <<state, errorCode, summary>>
            BY <2>3, <3>1 DEF TaskStatus
        <3>2. ASSUME t \in Active, NEW st \in TaskStates, state' = [state EXCEPT ![t] = st]
              PROVE  /\ t \in Lifecycle!Open
                     /\ TaskStatus[t] = state[t]
                     /\ TaskStatus' = [TaskStatus EXCEPT ![t] = st]
            <4>1. t \in tasksById /\ state[t] \notin TerminalStates BY <3>2 DEF Active
            <4>2. state[t] # "absent"
                BY <2>0, PhasesAssumption, <4>1 DEF TaskStates, PhaseStates
            <4>3. TaskStatus[t] = state[t] BY <4>1 DEF TaskStatus
            <4>4. TaskStatus' = [TaskStatus EXCEPT ![t] = st]
                BY <2>0, <2>3, <3>2, <4>1 DEF TaskStatus
            <4> QED BY <4>1, <4>2, <4>3, <4>4 DEF Lifecycle!Open
        <3>3. ASSUME t \in Active, NEW st \in TerminalStates, state' = [state EXCEPT ![t] = st]
              PROVE  Lifecycle!Next
            <4>1. st \in TaskStates BY DEF TaskStates
            <4> QED BY <3>2, <3>3, <4>1 DEF Lifecycle!Next, Lifecycle!End
        <3>4. ASSUME t \in Active, NEW i \in 1 .. Len(Phases), i >= phase[t],
                     state' = [state EXCEPT ![t] = Phases[i]]
              PROVE  [Lifecycle!Next]_TaskStatus
            <4>0. Phases[i] \in TaskStates BY PhasesAssumption DEF TaskStates, PhaseStates
            <4>1. /\ phase[t] \in 0 .. Len(Phases)
                  /\ phase[t] = 0 => state[t] = "created"
                  /\ phase[t] # 0 => state[t] = Phases[phase[t]]
                <5>1. ThreadInv(t) /\ exec[t] \in ExecSteps /\ phase[t] \in 0 .. Len(Phases)
                    BY <1>2 DEF WorkerInv, ThreadsInv, TypeOK
                <5>2. exec[t] \in Pending
                    BY <3>4, <5>1 DEF ThreadInv, Active, Pending, ExecSteps
                <5> QED BY <5>1, <5>2 DEF ThreadInv
            <4>2. CASE phase[t] = i
                BY <2>0, <2>3, <3>4, <4>1, <4>2 DEF TaskStatus
            <4>3. CASE phase[t] < i
                <5>1. ASSUME NEW j \in i .. Len(Phases) PROVE state[t] # Phases[j]
                    <6>1. j \in 1 .. Len(Phases) /\ j # phase[t]
                        BY PhasesAssumption, <4>1, <4>3
                    <6>2. "created" # Phases[j] BY <6>1, PhasesAssumption DEF PhaseStates
                    <6> QED BY <4>1, <6>1, <6>2, PhasesAssumption
                <5> QED BY <3>2, <3>4, <4>0, <5>1 DEF Lifecycle!Next, Lifecycle!Progress
            <4> QED BY <3>4, <4>1, <4>2, <4>3, PhasesAssumption
        <3> QED BY <2>3, <3>1, <3>3, <3>4 DEF TaskStep
    <2> QED BY <1>2, <2>1, <2>2, <2>3, StepKinds
<1>3. Spec => []WorkerInv BY WorkerInvInit, WorkerInvNext, PTL DEF Spec
<1>4. Spec => Lifecycle!Init /\ [][Lifecycle!Next]_TaskStatus
    BY <1>1, <1>2, <1>3, PTL DEF Spec
<1> QED BY <1>4 DEF FollowsLifecycle, Lifecycle!Spec
=============================================================================

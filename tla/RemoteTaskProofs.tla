-------------------------- MODULE RemoteTaskProofs --------------------------
(***************************************************************************)
(* A task of the worker as a job of the runner daemon, for any number of   *)
(* tasks, runner modes, phases, restarts of the daemon and incarnations of *)
(* the container: what the daemon records, what the worker is told and     *)
(* what the executor has looked at.                                        *)
(***************************************************************************)
EXTENDS RemoteTask, TLAPS

-----------------------------------------------------------------------------
(* The inductive invariant.                                                  *)

Responses == [state : JobStates \cup {None}, summary : BOOLEAN,
              errorCode : ErrorCodes \cup {None}]

Shapes ==
    /\ TypeOK
    /\ client \in [JobIds -> ClientSteps]
    /\ request \in [JobIds -> BOOLEAN]
    /\ view \in [JobIds -> Responses]
    /\ outcome \in [JobIds -> {"none", "result", "refused", "runner_failed", "job_not_found"}
                                  \cup Unanswered \cup ErrorCodes]
    /\ task \in [JobIds -> {"running", "timeout", "closed"}]
    /\ restarts \in 0 .. MaxRestarts
    /\ forgotten \subseteq JobIds
    /\ step \in [JobIds -> Executor!ExecutorSteps]
    /\ verdict \in [JobIds -> Executor!Verdicts]
    /\ pid \in [JobIds -> Nat] /\ routeSeen \in [JobIds -> Nat] /\ ranIn \in [JobIds -> Nat]
    /\ container \in Nat \ {0}

(* A job is created once, by a request of its client, and forgotten once;    *)
(* nothing runs for one that does not exist.                                 *)
PlaceInv(j) ==
    /\ j \in jobs => j \notin forgotten /\ exec[j] # "none"
    /\ j \in jobs \cup forgotten => client[j] # "idle" /\ ~ request[j]
    /\ request[j] => client[j] # "idle"
    /\ client[j] \in {"evaluate", "get"} => j \in jobs \cup forgotten
    /\ j \notin jobs =>
           exec[j] \in {"none", "dead"} /\ runner[j] = "none" /\ post[j] = "none" /\ lock # j
    /\ j \notin jobs \cup forgotten => mode[j] = None /\ ~ Over(j) /\ vpn[j] # "blank"

(* Whoever is writing the outcome of a job holds the lock and the job is not *)
(* over; what it has written so far goes with the state it will write.  A    *)
(* daemon that dies in between leaves it so.                                 *)
WriterInv(j) ==
    /\ exec[j] \in Publishing => lock = j
    /\ lock = j => ~ Over(j)
    /\ exec[j] = "expiring" => ~ summary[j] /\ errorCode[j] = "operation_timeout"
    /\ exec[j] = "publishing" => (summary[j] <=> errorCode[j] = None)
    /\ lock = j /\ exec[j] \notin Publishing => ~ summary[j] /\ errorCode[j] # None
    /\ j \notin forgotten /\ lock # j /\ ~ Over(j) => ~ summary[j] /\ errorCode[j] = None
    /\ Fits(state[j], summary[j], errorCode[j])

(* Credentials are blanked by the last step of a job that is over.           *)
BlankInv(j) ==
    exec[j] \in {"finally", "ended"} \/ vpn[j] = "blank" \/ given[j] = "blank" => Over(j)

(* What was read of a job that is over is what it is.                        *)
Agrees(j, r) ==
    r.state \in TerminalStates =>
        r.state = state[j] /\ r.summary = summary[j] /\ r.errorCode = errorCode[j]

AnswerInv(j) ==
    /\ post[j] \in {"fields", "answered"} => response[j].state \in JobStates
    /\ post[j] = "fields" /\ response[j].state \in TerminalStates => response[j].state = state[j]
    /\ post[j] = "answered" => Agrees(j, response[j])

(* In the existing_container mode a result is that of the executor.          *)
ResultInv(j) ==
    Existing(j) /\ (runner[j] = "result" \/ summary[j]) => step[j] = "done" /\ verdict[j] = "ok"

(* The executor stays with the process it found.                             *)
CheckInv(j) ==
    /\ verdict[j] # "none" => step[j] = "done"
    /\ step[j] = "operate" => routeSeen[j] = pid[j] /\ pid[j] # 0
    /\ verdict[j] \in {"ok", "vehicle_unreachable"} => ranIn[j] # 0 /\ ranIn[j] = routeSeen[j]

(* What the client looks at, and what it has made of it.                     *)
ViewInv(j) == client[j] = "evaluate" => view[j].state \in JobStates /\ Agrees(j, view[j])

OutcomeInv(j) ==
    /\ client[j] = "ended" <=> outcome[j] # "none"
    /\ task[j] = "closed" => client[j] = "ended"
    /\ outcome[j] = "result" => state[j] = "finished"
    /\ outcome[j] \in ErrorCodes => Over(j) /\ errorCode[j] = outcome[j]
    /\ outcome[j] = "job_not_found" => j \in forgotten
    /\ outcome[j] = "refused" => j \notin jobs \cup forgotten /\ ~ request[j]
    /\ outcome[j] # "runner_failed"

JobInv(j) ==
    /\ PlaceInv(j)
    /\ WriterInv(j)
    /\ BlankInv(j)
    /\ AnswerInv(j)
    /\ ResultInv(j)
    /\ CheckInv(j)
    /\ ViewInv(j)
    /\ OutcomeInv(j)

Inv == Shapes /\ \A j \in JobIds : JobInv(j)

-----------------------------------------------------------------------------
(* Facts about steps.                                                        *)

(* A phase is no final state, and a final state is a state.                  *)
LEMMA PhasesAndEnds ==
    /\ \A s \in PhaseStates : s \notin TerminalStates /\ s \in JobStates
    /\ Phases[1] \in PhaseStates
    /\ "finished" \in JobStates /\ "failed" \in JobStates /\ "timeout" \in JobStates
    /\ "created" \in JobStates /\ "created" \notin TerminalStates
    /\ None \notin ErrorCodes /\ None \notin JobStates /\ None \notin TerminalStates
    /\ None \notin JobIds /\ None # "held" /\ None # "blank"
<1>1. PhaseStates \cap TerminalStates = {} /\ Phases[1] \in PhaseStates
  BY DaemonAssumption DEF PhaseStates
<1>2. /\ None \notin JobStates /\ None \notin ErrorCodes /\ None \notin JobIds
      /\ None # "held" /\ None # "blank"
  BY DaemonAssumption
<1>3. "finished" \in TerminalStates /\ "failed" \in TerminalStates /\ "timeout" \in TerminalStates
      /\ "created" \notin TerminalStates
  BY DEF TerminalStates
<1>4. PhaseStates \subseteq JobStates /\ TerminalStates \subseteq JobStates
      /\ "created" \in JobStates
  BY DEF JobStates
<1>5. QED
  BY <1>1, <1>2, <1>3, <1>4

(* The step does nothing to the job k, its client or its executor.           *)
Same(k) ==
    /\ UNCHANGED <<mode[k], state[k], errorCode[k], summary[k], vpn[k]>>
    /\ UNCHANGED <<exec[k], runner[k], given[k], post[k], response[k]>>
    /\ UNCHANGED <<client[k], request[k], view[k], outcome[k], task[k]>>
    /\ UNCHANGED <<step[k], pid[k], verdict[k], routeSeen[k], ranIn[k]>>
    /\ k \in jobs' <=> k \in jobs
    /\ k \in forgotten' <=> k \in forgotten
    /\ lock' = k <=> lock = k

(* What is said of a job stays true when nothing is done to it.              *)
LEMMA SameJob ==
    ASSUME NEW k \in JobIds, Same(k), JobInv(k)
    PROVE  JobInv(k)'
<1> USE DEF Same, JobInv, Over
<1>1. PlaceInv(k)'
  BY DEF PlaceInv
<1>2. WriterInv(k)'
  BY DEF WriterInv, Fits
<1>3. BlankInv(k)'
  BY DEF BlankInv
<1>4. AnswerInv(k)'
  BY DEF AnswerInv, Agrees
<1>5. ResultInv(k)' /\ CheckInv(k)'
  BY DEF ResultInv, CheckInv, Existing
<1>6. ViewInv(k)'
  BY DEF ViewInv, Agrees
<1>7. OutcomeInv(k)'
  BY DEF OutcomeInv
<1>8. QED
  BY <1>1, <1>2, <1>3, <1>4, <1>5, <1>6, <1>7

(* A step has to see to the one job it is about.                             *)
LEMMA OneJobStep ==
    ASSUME Inv, NEW j \in JobIds, Shapes',
           \A k \in JobIds : k # j => Same(k),
           JobInv(j)'
    PROVE  Inv'
  BY SameJob DEF Inv

(* No task has been posted.                                                  *)
LEMMA InitInv == RemoteInit => Inv
<1> SUFFICES ASSUME RemoteInit PROVE Inv
  OBVIOUS
<1> USE PhasesAndEnds DEF RemoteInit, Init, Executor!Init
<1>0. NoResponse \in Responses
  BY DEF Responses, NoResponse
<1>1. Shapes
  <2>1. /\ summary \in [JobIds -> BOOLEAN] /\ request \in [JobIds -> BOOLEAN]
    BY Zenon
  <2>2. response \in [JobIds -> Responses] /\ view \in [JobIds -> Responses]
    BY <1>0, Zenon
  <2>3. TypeOK
    BY <2>1, <2>2 DEF TypeOK, ExecSteps, RunnerSteps, Responses
  <2>4. QED
    BY <2>1, <2>2, <2>3, RemoteAssumption
       DEF Shapes, ClientSteps, Executor!ExecutorSteps, Executor!Verdicts, Executor!NoPid
<1>2. \A j \in JobIds : /\ state[j] = "created" /\ ~ summary[j] /\ errorCode[j] = None
                        /\ exec[j] = "none" /\ vpn[j] = "held" /\ given[j] = None /\ post[j] = "none"
                        /\ mode[j] = None /\ runner[j] = "none"
                        /\ client[j] = "idle" /\ ~ request[j] /\ outcome[j] = "none"
                        /\ task[j] = "running" /\ verdict[j] = "none" /\ step[j] = "idle"
                        /\ lock # j /\ j \notin jobs /\ j \notin forgotten /\ ~ Over(j)
  BY DEF Over
<1> HIDE DEF RemoteInit, Init, Executor!Init
<1>3. ASSUME NEW j \in JobIds PROVE JobInv(j)
  <2>1. PlaceInv(j)
    BY <1>2 DEF PlaceInv
  <2>2. WriterInv(j)
    <3>1. Fits(state[j], summary[j], errorCode[j])
      BY <1>2 DEF Fits
    <3>2. exec[j] \notin Publishing /\ exec[j] # "expiring" /\ exec[j] # "publishing"
      BY <1>2 DEF Publishing
    <3>3. QED
      BY <1>2, <3>1, <3>2 DEF WriterInv
  <2>7. BlankInv(j)
    BY <1>2 DEF BlankInv
  <2>3. AnswerInv(j) /\ ViewInv(j)
    BY <1>2 DEF AnswerInv, ViewInv
  <2>4. ResultInv(j) /\ CheckInv(j)
    BY <1>2 DEF ResultInv, CheckInv
  <2>5. OutcomeInv(j)
    BY <1>2 DEF OutcomeInv, ErrorCodes
  <2>6. QED
    BY <2>1, <2>2, <2>3, <2>4, <2>5, <2>7 DEF JobInv
<1>4. QED
  BY <1>1, <1>3 DEF Inv

-----------------------------------------------------------------------------
(* The client.                                                               *)

(* A step of the client leaves what the daemon and the executor hold true.   *)
LEMMA DaemonKept ==
    ASSUME NEW j \in JobIds, JobInv(j), UNCHANGED <<vars, forgotten, execVars>>
    PROVE  WriterInv(j)' /\ BlankInv(j)' /\ AnswerInv(j)' /\ ResultInv(j)' /\ CheckInv(j)'
<1> USE DEF JobInv, vars, execVars, Over
<1>1. WriterInv(j)' /\ BlankInv(j)'
  BY DEF WriterInv, BlankInv, Fits
<1>2. AnswerInv(j)'
  BY DEF AnswerInv, Agrees
<1>3. ResultInv(j)' /\ CheckInv(j)'
  BY DEF ResultInv, CheckInv, Existing
<1>4. QED
  BY <1>1, <1>2, <1>3

(* _create_job sends the request of a task that had no job.                  *)
LEMMA PostInv == ASSUME Inv, NEW j \in JobIds, Post(j) PROVE Inv'
<1> USE DEF Inv, Post, Put
<1>1. Shapes'
  BY DEF Shapes, TypeOK, ClientSteps, vars, execVars
<1>2. \A k \in JobIds : k # j => Same(k)
  BY DEF Shapes, TypeOK, Same, vars, execVars
<1>3. JobInv(j)'
  <2>1. client[j] = "idle" /\ client'[j] = "waiting" /\ request'[j]
    BY DEF Shapes
  <2>2. PlaceInv(j)'
    BY <2>1 DEF JobInv, PlaceInv, Over, vars
  <2>3. ViewInv(j)' /\ OutcomeInv(j)'
    BY <2>1 DEF JobInv, ViewInv, OutcomeInv, Over, vars
  <2>4. QED
    BY <2>2, <2>3, DaemonKept DEF JobInv
<1>4. QED
  BY <1>1, <1>2, <1>3, OneJobStep

(* run may return what is true of the job.                                   *)
LEMMA ReturnInv ==
    ASSUME Inv, NEW j \in JobIds, NEW what, client[j] \notin {"idle", "ended"}, Return(j, what),
           UNCHANGED <<vars, restarts, forgotten, execVars>>,
           \/ UNCHANGED request
           \/ request[j] /\ request' = Put(request, j, FALSE),
           what \in {"result", "refused", "job_not_found"} \cup Unanswered \cup ErrorCodes,
           what = "result" => state[j] = "finished",
           what \in ErrorCodes => Over(j) /\ errorCode[j] = what,
           what = "job_not_found" => j \in forgotten,
           what = "refused" => j \notin jobs \cup forgotten /\ ~ request'[j]
    PROVE  Inv'
<1> USE DEF Inv, Return, Put
<1>0. NoResponse \in Responses
  BY PhasesAndEnds DEF Responses, NoResponse
<1>1. Shapes'
  <2>1. request' \in [JobIds -> BOOLEAN]
    BY Zenon DEF Shapes
  <2>2. view' \in [JobIds -> Responses]
    BY <1>0, Zenon DEF Shapes
  <2>3. QED
    BY <2>1, <2>2 DEF Shapes, TypeOK, ClientSteps, Unanswered, vars, execVars
<1>2. \A k \in JobIds : k # j => Same(k)
  BY DEF Shapes, TypeOK, Same, vars, execVars
<1>3. JobInv(j)'
  <2>1. /\ client'[j] = "ended" /\ outcome'[j] = what
        /\ request'[j] => request[j]
        /\ what # "none" /\ what # "runner_failed"
    BY DEF Shapes, Unanswered, ErrorCodes
  <2>2. PlaceInv(j)'
    BY <2>1 DEF JobInv, PlaceInv, Over, vars
  <2>3. ViewInv(j)'
    BY <2>1 DEF ViewInv
  <2>4. OutcomeInv(j)'
    BY <2>1 DEF OutcomeInv, Over, vars
  <2>5. QED
    BY <2>2, <2>3, <2>4, DaemonKept DEF JobInv
<1>4. QED
  BY <1>1, <1>2, <1>3, OneJobStep

(* No answer comes, whatever the daemon has made of the request.             *)
LEMMA NoAnswerInv == ASSUME Inv, NEW j \in JobIds, NoAnswer(j) PROVE Inv'
<1>1. PICK code \in Unanswered : Return(j, code)
  BY DEF NoAnswer
<1>2. code \notin {"result", "refused", "job_not_found"} \cup ErrorCodes
  BY DEF Unanswered, ErrorCodes
<1>3. client[j] \notin {"idle", "ended"} /\ UNCHANGED <<vars, restarts, forgotten, execVars, request>>
  BY DEF NoAnswer
<1>4. QED
  BY <1>1, <1>2, <1>3, ReturnInv

(* The request is refused: no job was made of it.                            *)
LEMMA PostRefusedInv == ASSUME Inv, NEW j \in JobIds, PostRefused(j) PROVE Inv'
<1>1. /\ Return(j, "refused") /\ client[j] \notin {"idle", "ended"}
      /\ request[j] /\ request' = Put(request, j, FALSE)
      /\ UNCHANGED <<vars, restarts, forgotten, execVars>>
  BY DEF PostRefused
<1>2. j \notin jobs \cup forgotten
  BY <1>1 DEF Inv, JobInv, PlaceInv
<1>3. ~ request'[j]
  BY <1>1 DEF Inv, Shapes, Put
<1>4. "refused" \notin ErrorCodes
  BY DEF ErrorCodes
<1>5. QED
  BY <1>1, <1>2, <1>3, <1>4, ReturnInv

(* The loop of run returns what a job that is over has recorded.             *)
LEMMA EvaluateInv == ASSUME Inv, NEW j \in JobIds, Evaluate(j) PROVE Inv'
<1>1. /\ client[j] = "evaluate" /\ client[j] \notin {"idle", "ended"}
      /\ UNCHANGED <<vars, restarts, forgotten, execVars>> /\ UNCHANGED request
  BY DEF Evaluate
<1>2. view[j].state \in JobStates /\ Agrees(j, view[j]) /\ Fits(state[j], summary[j], errorCode[j])
  BY <1>1 DEF Inv, JobInv, ViewInv, WriterInv
<1>3. /\ errorCode[j] \in ErrorCodes \cup {None}
      /\ "result" \notin ErrorCodes /\ "refused" \notin ErrorCodes /\ "job_not_found" \notin ErrorCodes
  BY DEF Inv, Shapes, TypeOK, ErrorCodes
<1>4. CASE view[j].state = "finished" /\ Return(j, "result")
  <2>1. state[j] = "finished"
    BY <1>2, <1>4 DEF Agrees, TerminalStates
  <2>2. QED
    BY <1>1, <1>3, <1>4, <2>1, ReturnInv
<1>5. ASSUME view[j].state \in {"timeout", "failed"}, NEW code,
             Return(j, IF view[j].errorCode = None THEN code ELSE view[j].errorCode)
      PROVE  Inv'
  <2>1. state[j] = view[j].state /\ errorCode[j] = view[j].errorCode /\ errorCode[j] # None
    BY <1>2, <1>5, PhasesAndEnds DEF Agrees, TerminalStates, Fits, ErrorCodes
  <2>2. errorCode[j] \in ErrorCodes /\ Over(j)
    BY <1>3, <1>5, <2>1 DEF Over, TerminalStates
  <2>3. Return(j, errorCode[j])
    BY <1>5, <2>1
  <2>4. QED
    BY <1>1, <1>3, <2>2, <2>3, ReturnInv
<1>6. ASSUME view[j].state \notin TerminalStates, client' = Put(client, j, "get"),
             view' = Put(view, j, NoResponse), UNCHANGED <<outcome, task>>
      PROVE  Inv'
  <2> USE <1>1, <1>6 DEF Inv
  <2>1. Shapes'
    <3>1. NoResponse \in Responses
      BY PhasesAndEnds DEF Responses, NoResponse
    <3>2. view' \in [JobIds -> Responses]
      BY <3>1 DEF Shapes, Put
    <3>3. QED
      BY <3>2 DEF Shapes, TypeOK, ClientSteps, Put, vars, execVars
  <2>2. \A k \in JobIds : k # j => Same(k)
    BY DEF Shapes, TypeOK, Same, Put, vars, execVars
  <2>3. JobInv(j)'
    <3>1. client'[j] = "get"
      BY DEF Shapes, Put
    <3>2. PlaceInv(j)'
      BY <3>1 DEF JobInv, PlaceInv, Over, vars
    <3>3. ViewInv(j)' /\ OutcomeInv(j)'
      BY <3>1 DEF JobInv, ViewInv, OutcomeInv, Over, vars
    <3>4. QED
      BY <3>2, <3>3, DaemonKept DEF JobInv
  <2>4. QED
    BY <2>1, <2>2, <2>3, OneJobStep
<1>7. QED
  BY <1>4, <1>5, <1>6 DEF Evaluate

(* GET /jobs/<id> shows the job as it is, under the lock, or says that it is *)
(* not there any more.                                                       *)
LEMMA GetAnsweredInv == ASSUME Inv, NEW j \in JobIds, GetAnswered(j) PROVE Inv'
<1>1. /\ client[j] = "get" /\ client[j] \notin {"idle", "ended"}
      /\ UNCHANGED <<vars, restarts, forgotten, execVars>> /\ UNCHANGED request
  BY DEF GetAnswered
<1>2. CASE j \notin jobs /\ Return(j, "job_not_found")
  <2>1. j \in forgotten /\ "job_not_found" \notin ErrorCodes
    BY <1>1, <1>2 DEF Inv, JobInv, PlaceInv, ErrorCodes
  <2>2. QED
    BY <1>1, <1>2, <2>1, ReturnInv
<1>3. ASSUME j \in jobs, client' = Put(client, j, "evaluate"), UNCHANGED <<outcome, task>>,
             view' = Put(view, j, [state |-> state[j], summary |-> summary[j],
                                   errorCode |-> errorCode[j]])
      PROVE  Inv'
  <2> DEFINE r == [state |-> state[j], summary |-> summary[j], errorCode |-> errorCode[j]]
  <2> USE <1>1, <1>3 DEF Inv
  <2>1. Shapes'
    <3>1. r \in Responses
      BY DEF Shapes, TypeOK, Responses
    <3>2. view' \in [JobIds -> Responses]
      BY <3>1 DEF Shapes, Put
    <3>3. QED
      BY <3>2 DEF Shapes, TypeOK, ClientSteps, Put, vars, execVars
  <2>2. \A k \in JobIds : k # j => Same(k)
    BY DEF Shapes, TypeOK, Same, Put, vars, execVars
  <2>3. JobInv(j)'
    <3>1. client'[j] = "evaluate" /\ view'[j] = r
      BY DEF Shapes, Put
    <3>2. PlaceInv(j)'
      BY <3>1 DEF JobInv, PlaceInv, Over, vars
    <3>3. ViewInv(j)'
      BY <3>1 DEF Shapes, TypeOK, ViewInv, Agrees, vars
    <3>4. OutcomeInv(j)'
      BY <3>1 DEF JobInv, OutcomeInv, Over, vars
    <3>5. QED
      BY <3>2, <3>3, <3>4, DaemonKept DEF JobInv
  <2>4. QED
    BY <2>1, <2>2, <2>3, OneJobStep
<1>4. QED
  BY <1>2, <1>3 DEF GetAnswered

(* The answer to POST /jobs, read without the lock, comes in.                *)
LEMMA PostAnsweredInv == ASSUME Inv, NEW j \in JobIds, PostAnswered(j) PROVE Inv'
<1> USE DEF Inv, PostAnswered
<1>0. NoResponse \in Responses
  BY PhasesAndEnds DEF Responses, NoResponse
<1>1. Shapes'
  <2>1. view' \in [JobIds -> Responses] /\ response' \in [JobIds -> Responses]
    BY <1>0 DEF Shapes, TypeOK, Responses, Put
  <2>2. TypeOK'
    BY <2>1 DEF Shapes, TypeOK, Responses, Put
  <2>3. QED
    BY <2>1, <2>2 DEF Shapes, ClientSteps, Put, execVars
<1>2. \A k \in JobIds : k # j => Same(k)
  BY DEF Shapes, TypeOK, Same, Put, execVars
<1>3. JobInv(j)'
  <2>1. /\ client[j] = "waiting" /\ post[j] = "answered" /\ client'[j] = "evaluate"
        /\ view'[j] = response[j] /\ post'[j] = "none"
    BY DEF Shapes, TypeOK, Put
  <2>2. PlaceInv(j)'
    BY <2>1 DEF JobInv, PlaceInv, Over
  <2>3. WriterInv(j)' /\ BlankInv(j)'
    BY DEF JobInv, WriterInv, BlankInv, Fits, Over
  <2>4. AnswerInv(j)' /\ ViewInv(j)'
    BY <2>1 DEF JobInv, AnswerInv, ViewInv, Agrees
  <2>5. ResultInv(j)' /\ CheckInv(j)'
    BY DEF JobInv, ResultInv, CheckInv, Existing, execVars
  <2>6. OutcomeInv(j)'
    BY <2>1 DEF JobInv, OutcomeInv, Over
  <2>7. QED
    BY <2>2, <2>3, <2>4, <2>5, <2>6 DEF JobInv
<1>4. QED
  BY <1>1, <1>2, <1>3, OneJobStep

(* The worker gives the task up; nobody else is told.                        *)
LEMMA TaskTimesOutInv == ASSUME Inv, NEW j \in JobIds, TaskTimesOut(j) PROVE Inv'
<1> USE DEF Inv, TaskTimesOut
<1>1. Shapes'
  BY DEF Shapes, TypeOK, Put, vars, execVars
<1>2. \A k \in JobIds : k # j => Same(k)
  BY DEF Shapes, TypeOK, Same, Put, vars, execVars
<1>3. JobInv(j)'
  <2>1. PlaceInv(j)' /\ ViewInv(j)'
    BY DEF JobInv, PlaceInv, ViewInv, Agrees, Over, vars
  <2>2. OutcomeInv(j)'
    BY DEF JobInv, OutcomeInv, Over, vars, Put, Shapes
  <2>3. QED
    BY <2>1, <2>2, DaemonKept DEF JobInv
<1>4. QED
  BY <1>1, <1>2, <1>3, OneJobStep

-----------------------------------------------------------------------------
(* The daemon.                                                               *)

(* The record of a job that is over is left alone.                           *)
Final(j) == Over(j) => UNCHANGED <<state[j], errorCode[j], summary[j]>>

(* What the client has been told stays true ...                              *)
LEMMA ClientKept ==
    ASSUME NEW j \in JobIds, JobInv(j), Final(j), UNCHANGED <<client, view, outcome, task>>,
           jobs' = jobs \/ j \notin jobs, j \in jobs' => j \in jobs \/ request[j],
           forgotten' = forgotten, request'[j] => request[j]
    PROVE  ViewInv(j)' /\ OutcomeInv(j)'
<1> USE DEF JobInv, Final, Over
<1>1. ViewInv(j)'
  BY DEF ViewInv, Agrees
<1>2. OutcomeInv(j)'
  <2>1. outcome[j] = "result" => state'[j] = "finished"
    BY DEF OutcomeInv, TerminalStates
  <2>2. outcome[j] \in ErrorCodes => Over(j)' /\ errorCode'[j] = outcome[j]
    BY DEF OutcomeInv
  <2>3. outcome[j] = "refused" => j \notin jobs' \cup forgotten' /\ ~ request'[j]
    BY DEF OutcomeInv
  <2>4. QED
    BY <2>1, <2>2, <2>3 DEF OutcomeInv
<1>3. QED
  BY <1>1, <1>2

(* ... and so does what create_job has read.                                 *)
LEMMA AnswerKept ==
    ASSUME NEW j \in JobIds, JobInv(j), Final(j), UNCHANGED <<post, response>>
    PROVE  AnswerInv(j)'
<1>1. response[j].state \in TerminalStates /\ response[j].state = state[j] =>
          UNCHANGED <<state[j], errorCode[j], summary[j]>>
  BY DEF Final, Over
<1>2. QED
  BY <1>1 DEF JobInv, AnswerInv, Agrees

(* What a step of the daemon has to see to.                                  *)
LEMMA DaemonStep ==
    ASSUME Inv, NEW j \in jobs, UNCHANGED <<clientVars, jobs, forgotten>>,
           Shapes', \A k \in JobIds : k # j => Same(k), Final(j), exec'[j] # "none",
           WriterInv(j)', BlankInv(j)', AnswerInv(j)', ResultInv(j)', CheckInv(j)'
    PROVE  Inv' /\ \A k \in JobIds : Final(k)
<1>1. j \in JobIds
  BY DEF Inv, Shapes, TypeOK
<1>2. ViewInv(j)' /\ OutcomeInv(j)'
  BY <1>1, ClientKept DEF Inv, clientVars
<1>3. PlaceInv(j)'
  BY <1>1 DEF Inv, JobInv, PlaceInv, clientVars
<1>4. Inv'
  BY <1>1, <1>2, <1>3, OneJobStep DEF JobInv
<1>5. \A k \in JobIds : k # j => Final(k)
  BY DEF Same, Final
<1>6. QED
  BY <1>4, <1>5

(* A job is created: nothing was recorded of it before.                      *)
LEMMA CreateInv ==
    ASSUME Inv, NEW j \in JobIds, Create(j)
    PROVE  Inv' /\ \A k \in JobIds : Final(k)
<1>0. PICK m \in Modes : CreateJob(j, m)
  BY DEF Create
<1> USE <1>0 DEF Inv, Create, CreateJob
<1>1. Shapes'
  BY DEF Shapes, TypeOK, ExecSteps, Put, execVars
<1>2. \A k \in JobIds : k # j => Same(k)
  BY DEF Shapes, TypeOK, Same, Put, execVars
<1>3. /\ exec'[j] = "spawned" /\ post'[j] = "state" /\ ~ request'[j] /\ request[j] /\ j \notin jobs
      /\ exec[j] \in {"none", "dead"}
      /\ j \notin forgotten /\ jobs' = jobs \cup {j} /\ lock # j /\ runner[j] = "none"
  BY DEF Shapes, TypeOK, Put, JobInv, PlaceInv
<1>4. \A k \in JobIds : Final(k)
  BY DEF Final
<1>5. JobInv(j)'
  <2>1. PlaceInv(j)'
    BY <1>3 DEF JobInv, PlaceInv
  <2>2. WriterInv(j)'
    BY <1>3 DEF JobInv, WriterInv, Fits, Over, Publishing
  <2>3. BlankInv(j)'
    BY <1>3 DEF JobInv, BlankInv, Over
  <2>4. AnswerInv(j)'
    BY <1>3 DEF AnswerInv
  <2>5. CheckInv(j)'
    BY DEF JobInv, CheckInv, execVars
  <2>6. ResultInv(j)'
    <3>1. ~ summary[j]
      BY <1>3 DEF JobInv, WriterInv, PlaceInv
    <3>2. QED
      BY <1>3, <3>1 DEF ResultInv
  <2>7. ViewInv(j)' /\ OutcomeInv(j)'
    BY <1>3, <1>4, ClientKept
  <2>8. QED
    BY <2>1, <2>2, <2>3, <2>4, <2>5, <2>6, <2>7 DEF JobInv
<1>6. QED
  BY <1>1, <1>2, <1>4, <1>5, OneJobStep

(* set_state drops the report about a job that is over.                      *)
LEMMA ReportFinal ==
    ASSUME Inv, NEW j \in JobIds, NEW s \in PhaseStates, SetState(j, s)
    PROVE  /\ Over(j) => state'[j] = state[j]
           /\ Over(j)' <=> Over(j)
           /\ ~ Over(j) => state'[j] = s
           /\ state' \in [JobIds -> JobStates]
           /\ \A k \in JobIds : k # j => state'[k] = state[k]
  BY PhasesAndEnds DEF Inv, Shapes, TypeOK, SetState, Over, Put

(* What the runner thread does leaves the record of the job consistent, even *)
(* when the credentials it is called with have been blanked.                 *)
LEMMA RunnerThread ==
    ASSUME Inv, NEW j \in JobIds, RunnerBegins(j) \/ RunnerReports(j) \/ RunnerEnds(j),
           UNCHANGED forgotten
    PROVE  /\ j \in jobs /\ exec[j] # "none" /\ TypeOK' /\ Final(j)
           /\ WriterInv(j)' /\ BlankInv(j)' /\ AnswerInv(j)'
           /\ \A k \in JobIds : k # j => UNCHANGED <<state[k], runner[k], given[k]>>
           /\ UNCHANGED <<jobs, mode, errorCode, summary, vpn, exec, post, response, lock>>
<1> USE DEF Inv
<1>1. UNCHANGED <<jobs, mode, errorCode, summary, vpn, exec, post, response, lock>>
  BY DEF RunnerBegins, RunnerReports, RunnerEnds
<1>2. j \in jobs /\ exec[j] # "none"
  BY DEF RunnerBegins, RunnerReports, RunnerEnds, JobInv, PlaceInv
<1>3. /\ Over(j) => state'[j] = state[j]
      /\ Over(j)' <=> Over(j)
      /\ ~ Over(j) => state'[j] = state[j] \/ state'[j] \in PhaseStates
      /\ state' \in [JobIds -> JobStates]
      /\ \A k \in JobIds : k # j => state'[k] = state[k]
  <2>1. CASE UNCHANGED state
    BY <2>1 DEF Shapes, TypeOK, Over
  <2>2. CASE \E s \in PhaseStates : SetState(j, s)
    BY <2>2, ReportFinal
  <2>3. UNCHANGED state \/ \E s \in PhaseStates : SetState(j, s)
    BY PhasesAndEnds DEF RunnerBegins, RunnerReports, RunnerEnds
  <2>4. QED
    BY <2>1, <2>2, <2>3
<1>4. /\ given' \in [JobIds -> {"held", "blank", None}]
      /\ \A k \in JobIds : k # j => given'[k] = given[k]
      /\ given'[j] \in {given[j], vpn[j]}
  BY DEF RunnerBegins, RunnerReports, RunnerEnds, Shapes, TypeOK, Put
<1>5. runner' \in [JobIds -> RunnerSteps] /\ \A k \in JobIds : k # j => runner'[k] = runner[k]
  BY DEF RunnerBegins, RunnerReports, RunnerEnds, Shapes, TypeOK, Put, RunnerSteps
<1>6. TypeOK'
  BY <1>1, <1>3, <1>4, <1>5 DEF Shapes, TypeOK
<1>7. Final(j)
  BY <1>1, <1>3 DEF Final
<1>8. WriterInv(j)'
  <2>1. Fits(state[j], summary[j], errorCode[j])'
    <3>1. CASE Over(j)
      BY <1>1, <1>3, <3>1 DEF JobInv, WriterInv, Fits
    <3>2. CASE ~ Over(j)
      BY <1>3, <3>2 DEF Fits, Over, TerminalStates
    <3>3. QED
      BY <3>1, <3>2
  <2>2. QED
    BY <1>1, <1>3, <2>1 DEF JobInv, WriterInv
<1>9. BlankInv(j)'
  BY <1>1, <1>3, <1>4 DEF JobInv, BlankInv
<1>10. AnswerInv(j)'
  BY <1>1, <1>7, AnswerKept
<1>11. QED
  BY <1>1, <1>2, <1>3, <1>4, <1>5, <1>6, <1>7, <1>8, <1>9, <1>10

(* A runner of another mode.                                                 *)
LEMMA OtherRunnerInv ==
    ASSUME Inv, NEW j \in JobIds, OtherRunner(j)
    PROVE  Inv' /\ \A k \in JobIds : Final(k)
<1>1. /\ RunnerBegins(j) \/ RunnerReports(j) \/ RunnerEnds(j)
      /\ ~ Existing(j)
      /\ UNCHANGED <<clientVars, restarts, forgotten, execVars>>
  BY DEF OtherRunner
<1>2. /\ j \in jobs /\ exec[j] # "none" /\ TypeOK' /\ Final(j)
      /\ WriterInv(j)' /\ BlankInv(j)' /\ AnswerInv(j)'
      /\ \A k \in JobIds : k # j => UNCHANGED <<state[k], runner[k], given[k]>>
      /\ UNCHANGED <<jobs, mode, errorCode, summary, vpn, exec, post, response, lock>>
  BY <1>1, RunnerThread
<1>3. Shapes'
  BY <1>1, <1>2 DEF Inv, Shapes, clientVars, execVars
<1>4. \A k \in JobIds : k # j => Same(k)
  BY <1>1, <1>2 DEF Same, clientVars, execVars
<1>5. ResultInv(j)' /\ CheckInv(j)'
  BY <1>1, <1>2 DEF Inv, JobInv, ResultInv, CheckInv, Existing, execVars
<1>6. QED
  BY <1>1, <1>2, <1>3, <1>4, <1>5, DaemonStep

(* The executor of the existing_container mode is called.                    *)
LEMMA ExecutorBeginsInv ==
    ASSUME Inv, NEW j \in JobIds, ExecutorBegins(j)
    PROVE  Inv' /\ \A k \in JobIds : Final(k)
<1>1. RunnerBegins(j) /\ Executor!Begin(j) /\ UNCHANGED <<clientVars, restarts, forgotten>>
  BY DEF ExecutorBegins
<1>2. /\ j \in jobs /\ exec[j] # "none" /\ TypeOK' /\ Final(j)
      /\ WriterInv(j)' /\ BlankInv(j)' /\ AnswerInv(j)'
      /\ \A k \in JobIds : k # j => UNCHANGED <<state[k], runner[k], given[k]>>
      /\ UNCHANGED <<jobs, mode, errorCode, summary, vpn, exec, post, response, lock>>
  BY <1>1, RunnerThread
<1> USE DEF Inv, Executor!Begin, Executor!Goto, Executor!worldVars
<1>3. Shapes'
  BY <1>1, <1>2 DEF Shapes, clientVars, Executor!ExecutorSteps
<1>4. \A k \in JobIds : k # j => Same(k)
  BY <1>1, <1>2 DEF Shapes, Same, clientVars
<1>5. step[j] = "idle" /\ step'[j] = "inspect" /\ runner'[j] = "alive"
  BY <1>1 DEF Shapes, TypeOK, RunnerBegins, Put
<1>6. ResultInv(j)' /\ CheckInv(j)'
  BY <1>1, <1>2, <1>5 DEF JobInv, ResultInv, CheckInv, Existing
<1>7. QED
  BY <1>1, <1>2, <1>3, <1>4, <1>6, DaemonStep

(* What the executor ended with is what the runner thread ends with.         *)
LEMMA ExecutorEndsInv ==
    ASSUME Inv, NEW j \in JobIds, ExecutorEnds(j)
    PROVE  Inv' /\ \A k \in JobIds : Final(k)
<1>1. /\ RunnerEnds(j) /\ step[j] = "done" /\ UNCHANGED <<clientVars, restarts, forgotten, execVars>>
      /\ runner'[j] = "result" => verdict[j] = "ok"
  BY DEF ExecutorEnds
<1>2. /\ j \in jobs /\ exec[j] # "none" /\ TypeOK' /\ Final(j)
      /\ WriterInv(j)' /\ BlankInv(j)' /\ AnswerInv(j)'
      /\ \A k \in JobIds : k # j => UNCHANGED <<state[k], runner[k], given[k]>>
      /\ UNCHANGED <<jobs, mode, errorCode, summary, vpn, exec, post, response, lock>>
  BY <1>1, RunnerThread
<1>3. Shapes'
  BY <1>1, <1>2 DEF Inv, Shapes, clientVars, execVars
<1>4. \A k \in JobIds : k # j => Same(k)
  BY <1>1, <1>2 DEF Same, clientVars, execVars
<1>5. ResultInv(j)' /\ CheckInv(j)'
  BY <1>1, <1>2 DEF Inv, JobInv, ResultInv, CheckInv, Existing, execVars
<1>6. QED
  BY <1>1, <1>2, <1>3, <1>4, <1>5, DaemonStep

(* A command of the executor: the operation runs in the namespace of the     *)
(* process that was found first, or it does not run.                         *)
LEMMA ExecutorWorksInv ==
    ASSUME Inv, NEW j \in JobIds, ExecutorWorks(j)
    PROVE  Inv' /\ \A k \in JobIds : Final(k)
<1> USE DEF Inv
<1>1. /\ runner[j] = "alive" /\ Executor!ExecutorStep(j)
      /\ UNCHANGED <<vars, clientVars, restarts, forgotten>>
  BY DEF ExecutorWorks
<1>2. j \in jobs /\ exec[j] # "none"
  BY <1>1 DEF JobInv, PlaceInv
<1>3. /\ WriterInv(j)' /\ BlankInv(j)' /\ AnswerInv(j)' /\ Final(j)
  <2>1. WriterInv(j)' /\ BlankInv(j)'
    BY <1>1 DEF JobInv, WriterInv, BlankInv, Fits, Over, vars
  <2>2. Final(j)
    BY <1>1 DEF Final, vars
  <2>3. QED
    BY <1>1, <2>1, <2>2, AnswerKept DEF vars
<1> DEFINE Others == \A k \in JobIds : k # j =>
                         UNCHANGED <<step[k], pid[k], verdict[k], routeSeen[k], ranIn[k]>>
           Kinds == /\ step' \in [JobIds -> Executor!ExecutorSteps]
                    /\ verdict' \in [JobIds -> Executor!Verdicts]
                    /\ pid' \in [JobIds -> Nat] /\ routeSeen' \in [JobIds -> Nat]
                    /\ ranIn' \in [JobIds -> Nat] /\ container' \in Nat \ {0}
<1>4. step[j] \notin {"idle", "done"} /\ verdict[j] = "none" /\ ~ (Existing(j) /\ summary[j])
  <2>1. step[j] \notin {"idle", "done"}
    BY <1>1 DEF Executor!ExecutorStep, Executor!CommandFails, Executor!FindContainer,
                Executor!SeeInterface, Executor!SeeRoute, Executor!RefuseOperation,
                Executor!Reachability, Executor!BasicStatus
  <2>2. QED
    BY <2>1 DEF JobInv, CheckInv, ResultInv
<1>5. Kinds /\ Others /\ CheckInv(j)'
  <2> USE <1>4 DEF Shapes, JobInv, Executor!Goto, Executor!End, Executor!Entered, Executor!worldVars,
                   Executor!ExecutorSteps, Executor!Verdicts, CheckInv
  <2>1. CASE Executor!CommandFails(j)
    BY <2>1 DEF Executor!CommandFails
  <2>2. CASE Executor!FindContainer(j)
    BY <2>2 DEF Executor!FindContainer
  <2>3. CASE Executor!SeeInterface(j)
    BY <2>3 DEF Executor!SeeInterface
  <2>4. CASE Executor!SeeRoute(j)
    BY <2>4 DEF Executor!SeeRoute
  <2>5. CASE Executor!RefuseOperation(j)
    BY <2>5 DEF Executor!RefuseOperation
  <2>6. CASE Executor!Reachability(j)
    BY <2>6 DEF Executor!Reachability
  <2>7. CASE Executor!BasicStatus(j)
    BY <2>7 DEF Executor!BasicStatus
  <2>8. QED
    BY <1>1, <2>1, <2>2, <2>3, <2>4, <2>5, <2>6, <2>7 DEF Executor!ExecutorStep
<1>6. Shapes'
  BY <1>1, <1>5 DEF Shapes, TypeOK, vars, clientVars
<1>7. \A k \in JobIds : k # j => Same(k)
  BY <1>1, <1>5 DEF Same, vars, clientVars
<1>8. ResultInv(j)'
  BY <1>1, <1>4 DEF ResultInv, Existing, vars
<1>9. QED
  BY <1>1, <1>2, <1>3, <1>5, <1>6, <1>7, <1>8, DaemonStep DEF vars

(* The steps of the exec thread: one of cancelling, timing out and finishing *)
(* is recorded, and the credentials go last.                                 *)
LEMMA ExecuteInv ==
    ASSUME Inv, NEW j \in JobIds, Execute(j)
    PROVE  Inv' /\ \A k \in JobIds : Final(k)
<1> USE DEF Inv
<1>1. ExecStep(j) /\ UNCHANGED <<clientVars, restarts, forgotten, execVars>>
  BY DEF Execute
<1>2. /\ j \in jobs
      /\ UNCHANGED <<jobs, mode, given, post, response>>
  BY <1>1 DEF ExecStep, StartRunner, ThreadDies, JoinReturns, LeaveCancelled, PublishFields,
              PublishState, Wipe, Publishing, JobInv, PlaceInv
<1> DEFINE Kinds == /\ state' \in [JobIds -> JobStates]
                    /\ errorCode' \in [JobIds -> ErrorCodes \cup {None}]
                    /\ vpn' \in [JobIds -> {"held", "blank"}]
                    /\ exec' \in [JobIds -> ExecSteps]
                    /\ runner' \in [JobIds -> RunnerSteps]
                    /\ lock' \in JobIds \cup {None}
           Others == \A k \in JobIds : k # j =>
                         /\ UNCHANGED <<state[k], errorCode[k], summary[k], vpn[k], exec[k], runner[k]>>
                         /\ lock' = k <=> lock = k
           Done == /\ Final(j) /\ WriterInv(j)' /\ BlankInv(j)' /\ exec'[j] # "none"
                   /\ runner'[j] = "result" \/ summary'[j] => runner[j] = "result" \/ summary[j]
<1> HIDE DEF Kinds, Others, Done
<1>3. ASSUME UNCHANGED <<state, errorCode, summary, lock>>, StartRunner(j) \/ ThreadDies(j)
             \/ JoinReturns(j) \/ LeaveCancelled(j) \/ Wipe(j)
      PROVE  Kinds /\ Others /\ Done /\ summary' \in [JobIds -> BOOLEAN]
  <2>1. Kinds /\ Others
    <3>1. Kinds
      BY <1>3 DEF Kinds, StartRunner, ThreadDies, JoinReturns, LeaveCancelled, Wipe, Put, Shapes,
                  TypeOK, ExecSteps, RunnerSteps
    <3>2. Others
      BY <1>3 DEF Others, StartRunner, ThreadDies, JoinReturns, LeaveCancelled, Wipe, Put, Shapes,
                  TypeOK
    <3>3. QED
      BY <3>1, <3>2
  <2>2. /\ exec[j] \notin Publishing /\ exec'[j] \notin Publishing /\ exec'[j] # "none"
        /\ exec'[j] # "expiring" /\ exec'[j] # "publishing"
        /\ exec'[j] \in {"finally", "ended"} => Over(j)
        /\ vpn'[j] = "blank" => vpn[j] = "blank" \/ Over(j)
        /\ runner'[j] = "result" => runner[j] = "result"
    BY <1>3 DEF StartRunner, ThreadDies, JoinReturns, LeaveCancelled, Wipe, Put, Shapes, TypeOK,
                Publishing, JobInv, BlankInv
  <2>3. Final(j) /\ BlankInv(j)'
    BY <1>2, <1>3, <2>2 DEF Final, JobInv, BlankInv, Over
  <2>4. WriterInv(j)'
    BY <1>1, <1>3, <2>2 DEF JobInv, WriterInv, Over, Fits
  <2>5. Done
    BY <1>3, <2>2, <2>3, <2>4 DEF Done
  <2>6. QED
    BY <1>3, <2>1, <2>5 DEF Shapes, TypeOK
<1>4. ASSUME PublishFields(j) PROVE Kinds /\ Others /\ Done /\ summary' \in [JobIds -> BOOLEAN]
  <2>1. /\ lock = None /\ lock' = j /\ ~ Over(j) /\ ~ Over(j)' /\ exec[j] = "joined"
        /\ UNCHANGED <<state, vpn, runner>>
        /\ exec' = Put(exec, j, IF RunnerAlive(j) THEN "expiring" ELSE "publishing")
    BY <1>4 DEF PublishFields, Over
  <2>2. ~ summary[j] /\ errorCode[j] = None /\ vpn[j] # "blank" /\ given[j] # "blank"
    BY <1>2, <2>1, PhasesAndEnds DEF JobInv, PlaceInv, WriterInv, BlankInv
  <2>3. Outcomes(j) \subseteq ErrorCodes
        /\ (RunnerAlive(j) => runner[j] # "result" /\ Outcomes(j) = {"operation_timeout"})
    BY DEF Outcomes, RunnerAlive, ErrorCodes
  <2>4. \/ /\ runner[j] = "result" /\ summary' = Put(summary, j, TRUE) /\ UNCHANGED errorCode
           /\ ~ RunnerAlive(j)
        \/ /\ runner[j] # "result" /\ UNCHANGED summary
           /\ \E code \in ErrorCodes : /\ errorCode' = Put(errorCode, j, code)
                                       /\ RunnerAlive(j) => code = "operation_timeout"
    BY <1>4, <2>3 DEF PublishFields, RunnerAlive
  <2>5. summary' \in [JobIds -> BOOLEAN]
    BY <2>4, Zenon DEF Shapes, TypeOK, Put
  <2>6. Kinds /\ Others
    <3>1. \A k \in JobIds : k # j => /\ UNCHANGED <<errorCode[k], summary[k]>>
                                     /\ lock' # k /\ lock # k
      BY <2>1, <2>4, PhasesAndEnds DEF Shapes, TypeOK, Put
    <3>2. Others
      BY <2>1, <3>1 DEF Others, Shapes, TypeOK, Put
    <3>3. errorCode' \in [JobIds -> ErrorCodes \cup {None}]
      BY <2>4 DEF Shapes, TypeOK, Put
    <3>4. Kinds
      BY <2>1, <3>3 DEF Kinds, Shapes, TypeOK, Put, ExecSteps
    <3>5. QED
      BY <3>2, <3>4
  <2>7. /\ exec'[j] = IF RunnerAlive(j) THEN "expiring" ELSE "publishing"
        /\ RunnerAlive(j) => ~ summary'[j] /\ errorCode'[j] = "operation_timeout"
        /\ ~ RunnerAlive(j) => (summary'[j] <=> errorCode'[j] = None)
        /\ summary'[j] => runner[j] = "result"
    BY <2>1, <2>2, <2>4, PhasesAndEnds DEF Shapes, TypeOK, Put
  <2>8. Fits(state[j], summary[j], errorCode[j])'
    BY <2>1 DEF Fits, Over, TerminalStates
  <2>9. WriterInv(j)'
    BY <2>1, <2>7, <2>8 DEF WriterInv, Publishing
  <2>10. BlankInv(j)'
    BY <1>2, <2>1, <2>2, <2>7 DEF BlankInv
  <2>11. Done
    BY <2>1, <2>7, <2>9, <2>10 DEF Done, Final
  <2>12. QED
    BY <2>5, <2>6, <2>11
<1>5. ASSUME PublishState(j) PROVE Kinds /\ Others /\ Done /\ summary' \in [JobIds -> BOOLEAN]
  <2>1. /\ lock = j /\ lock' = None /\ exec' = Put(exec, j, "finally") /\ exec[j] \in Publishing
        /\ UNCHANGED <<errorCode, summary, vpn, runner>> /\ ~ Over(j)
        /\ state' = Put(state, j, IF exec[j] = "expiring" THEN "timeout"
                                  ELSE IF summary[j] THEN "finished" ELSE "failed")
    BY <1>5 DEF PublishState, JobInv, WriterInv
  <2>2. Kinds /\ Others /\ summary' \in [JobIds -> BOOLEAN]
    <3>1. Kinds
      BY <2>1, PhasesAndEnds DEF Kinds, Shapes, TypeOK, Put, ExecSteps
    <3>2. Others
      BY <2>1, PhasesAndEnds DEF Others, Shapes, TypeOK, Put
    <3>3. QED
      BY <2>1, <3>1, <3>2 DEF Shapes, TypeOK
  <2>3. /\ exec'[j] = "finally"
        /\ state'[j] = IF exec[j] = "expiring" THEN "timeout"
                       ELSE IF summary[j] THEN "finished" ELSE "failed"
    BY <2>1 DEF Shapes, TypeOK, Put
  <2>4. Fits(state[j], summary[j], errorCode[j])' /\ Over(j)'
    BY <2>1, <2>3 DEF JobInv, WriterInv, Fits, Over, TerminalStates, Publishing
  <2>5. WriterInv(j)' /\ BlankInv(j)'
    BY <2>1, <2>3, <2>4, PhasesAndEnds DEF WriterInv, BlankInv, Publishing
  <2>6. Done
    BY <2>1, <2>3, <2>5 DEF Done, Final
  <2>7. QED
    BY <2>2, <2>6
<1>6. Kinds /\ Others /\ Done /\ summary' \in [JobIds -> BOOLEAN]
  BY <1>1, <1>3, <1>4, <1>5
     DEF ExecStep, StartRunner, ThreadDies, JoinReturns, LeaveCancelled, Wipe
<1>7. Shapes'
  BY <1>1, <1>2, <1>6 DEF Kinds, Shapes, TypeOK, clientVars, execVars
<1>8. \A k \in JobIds : k # j => Same(k)
  BY <1>1, <1>2, <1>6 DEF Others, Same, clientVars, execVars
<1>9. ResultInv(j)' /\ CheckInv(j)'
  BY <1>1, <1>2, <1>6 DEF Done, JobInv, ResultInv, CheckInv, Existing, execVars
<1>10. AnswerInv(j)'
  BY <1>2, <1>6, AnswerKept DEF Done
<1>11. QED
  BY <1>1, <1>2, <1>6, <1>7, <1>8, <1>9, <1>10, DaemonStep DEF Done

(* cancel_job writes the code first, then the state.                         *)
LEMMA CancelInv ==
    ASSUME Inv, NEW j \in JobIds, Cancel(j) \/ (Serve(j) /\ CancelState(j))
    PROVE  Inv' /\ \A k \in JobIds : Final(k)
<1> USE DEF Inv
<1>1. /\ UNCHANGED <<clientVars, restarts, forgotten, execVars>>
      /\ UNCHANGED <<jobs, mode, summary, vpn, exec, runner, given, post, response>>
      /\ j \in jobs /\ exec[j] # "none" /\ ~ Over(j)
  BY DEF Cancel, Serve, CancelFields, CancelState, JobInv, PlaceInv, WriterInv
<1>2. /\ state' \in [JobIds -> JobStates]
      /\ errorCode' \in [JobIds -> ErrorCodes \cup {None}]
      /\ lock' \in JobIds \cup {None}
      /\ \A k \in JobIds : k # j => /\ UNCHANGED <<state[k], errorCode[k]>>
                                    /\ lock' = k <=> lock = k
  <2>1. CASE CancelFields(j)
    BY <2>1, PhasesAndEnds DEF CancelFields, Put, Shapes, TypeOK, ErrorCodes
  <2>2. CASE CancelState(j)
    BY <2>2, PhasesAndEnds DEF CancelState, Put, Shapes, TypeOK
  <2>3. QED
    BY <2>1, <2>2 DEF Cancel
<1>3. WriterInv(j)' /\ BlankInv(j)'
  <2>1. CASE CancelFields(j)
    <3>1. errorCode'[j] = "operation_cancelled" /\ lock' = j /\ lock = None /\ UNCHANGED state
      BY <2>1 DEF CancelFields, Put, Shapes, TypeOK
    <3>2. ~ summary[j] /\ exec[j] \notin Publishing /\ "operation_cancelled" # None
      BY <1>1, <3>1, PhasesAndEnds DEF JobInv, WriterInv, PlaceInv, ErrorCodes
    <3>3. QED
      BY <1>1, <3>1, <3>2
         DEF JobInv, WriterInv, BlankInv, Fits, Over, Publishing, TerminalStates
  <2>2. CASE CancelState(j)
    <3>1. /\ lock = j /\ lock' = None /\ exec[j] \notin Publishing /\ UNCHANGED errorCode
          /\ state'[j] = "failed"
      BY <2>2 DEF CancelState, Put, Shapes, TypeOK
    <3>2. ~ summary[j] /\ errorCode[j] # None
      BY <3>1 DEF JobInv, WriterInv
    <3>3. QED
      BY <1>1, <3>1, <3>2, PhasesAndEnds
         DEF WriterInv, BlankInv, Fits, Over, Publishing, TerminalStates
  <2>3. QED
    BY <2>1, <2>2 DEF Cancel
<1>4. Final(j)
  BY <1>1 DEF Final
<1>5. Shapes'
  BY <1>1, <1>2 DEF Shapes, TypeOK, clientVars, execVars
<1>6. \A k \in JobIds : k # j => Same(k)
  BY <1>1, <1>2 DEF Same, clientVars, execVars
<1>7. ResultInv(j)' /\ CheckInv(j)'
  BY <1>1 DEF JobInv, ResultInv, CheckInv, Existing, execVars
<1>8. AnswerInv(j)'
  BY <1>1, <1>4, AnswerKept
<1>9. QED
  BY <1>1, <1>3, <1>4, <1>5, <1>6, <1>7, <1>8, DaemonStep

(* create_job reads the state first: what it reads after a final state is    *)
(* the record that goes with it.                                             *)
LEMMA ServeInv ==
    ASSUME Inv, NEW j \in JobIds, Serve(j)
    PROVE  Inv' /\ \A k \in JobIds : Final(k)
<1> USE DEF Inv
<1>1. CASE PostReadsState(j) \/ PostReadsFields(j)
  <2>1. /\ UNCHANGED <<jobs, mode, state, errorCode, summary, vpn, exec, runner, given, lock>>
        /\ UNCHANGED <<clientVars, restarts, forgotten, execVars>>
        /\ j \in jobs /\ exec[j] # "none"
    BY <1>1 DEF Serve, PostReadsState, PostReadsFields, JobInv, PlaceInv
  <2>2. /\ response' \in [JobIds -> Responses] /\ AnswerInv(j)'
        /\ post' \in [JobIds -> {"none", "state", "fields", "answered"}]
        /\ \A k \in JobIds : k # j => UNCHANGED <<post[k], response[k]>>
    <3>1. CASE PostReadsState(j)
      <4>1. [NoResponse EXCEPT !.state = state[j]] \in Responses
        BY PhasesAndEnds DEF NoResponse, Responses, Shapes, TypeOK
      <4>2. /\ response'[j] = [NoResponse EXCEPT !.state = state[j]] /\ post'[j] = "fields"
            /\ response' \in [JobIds -> Responses]
            /\ post' \in [JobIds -> {"none", "state", "fields", "answered"}]
            /\ \A k \in JobIds : k # j => UNCHANGED <<post[k], response[k]>>
        BY <3>1, <4>1 DEF PostReadsState, Put, Shapes, TypeOK, Responses
      <4>3. response'[j].state = state[j] /\ state[j] \in JobStates
        BY <4>2 DEF NoResponse, Shapes, TypeOK
      <4>4. QED
        BY <2>1, <4>2, <4>3 DEF AnswerInv
    <3>2. CASE PostReadsFields(j)
      <4> DEFINE r == [response[j] EXCEPT !.summary = summary[j], !.errorCode = errorCode[j]]
      <4>1. /\ r \in Responses /\ r.state = response[j].state /\ r.summary = summary[j]
            /\ r.errorCode = errorCode[j]
        <5>1. /\ response[j] \in Responses /\ summary[j] \in BOOLEAN
              /\ errorCode[j] \in ErrorCodes \cup {None}
          BY DEF Responses, Shapes, TypeOK
        <5>2. QED
          BY <5>1, Zenon DEF Responses
      <4>2. /\ response'[j] = r /\ post'[j] = "answered" /\ post[j] = "fields"
            /\ response' \in [JobIds -> Responses]
            /\ post' \in [JobIds -> {"none", "state", "fields", "answered"}]
            /\ \A k \in JobIds : k # j => UNCHANGED <<post[k], response[k]>>
        BY <3>2, <4>1 DEF PostReadsFields, Put, Shapes, TypeOK, Responses
      <4> HIDE DEF r
      <4>3. QED
        BY <2>1, <4>1, <4>2 DEF JobInv, AnswerInv, Agrees
    <3>3. QED
      BY <1>1, <3>1, <3>2
  <2>3. WriterInv(j)' /\ BlankInv(j)' /\ Final(j)
    BY <2>1 DEF JobInv, WriterInv, BlankInv, Fits, Over, Final
  <2>4. ResultInv(j)' /\ CheckInv(j)'
    BY <2>1 DEF JobInv, ResultInv, CheckInv, Existing, execVars
  <2>5. Shapes'
    BY <2>1, <2>2 DEF Shapes, TypeOK, Responses, clientVars, execVars
  <2>6. \A k \in JobIds : k # j => Same(k)
    BY <2>1, <2>2 DEF Same, clientVars, execVars
  <2>7. QED
    BY <2>1, <2>2, <2>3, <2>4, <2>5, <2>6, DaemonStep
<1>2. CASE CancelState(j)
  BY <1>2, CancelInv
<1>3. QED
  BY <1>1, <1>2 DEF Serve, HttpStep

(* The daemon dies: its jobs keep their record and are answered for no more. *)
LEMMA RestartInv ==
    ASSUME Inv, Restart
    PROVE  Inv' /\ \A k \in JobIds : Final(k)
<1> USE DEF Inv
<1>1. \A k \in JobIds : Final(k)
  BY DEF Restart, Final
<1>2. Shapes'
  <2>1. request' \in [JobIds -> BOOLEAN]
    BY Zenon DEF Restart
  <2>2. TypeOK'
    BY DEF Shapes, TypeOK, Restart, ExecSteps, RunnerSteps
  <2>3. restarts' \in 0 .. MaxRestarts /\ forgotten' \subseteq JobIds
    BY RemoteAssumption DEF Shapes, TypeOK, Restart
  <2>4. step' \in [JobIds -> Executor!ExecutorSteps]
    BY DEF Restart, Executor!ExecutorSteps
  <2>5. QED
    BY <2>1, <2>2, <2>3, <2>4 DEF Shapes, Restart
<1>3. ASSUME NEW j \in JobIds PROVE JobInv(j)'
  <2>1. /\ j \notin jobs' /\ runner'[j] = "none" /\ post'[j] = "none" /\ ~ request'[j] /\ lock' # j
        /\ exec'[j] \in {"none", "dead"}
        /\ step[j] = "done" => step'[j] = "done"
        /\ step'[j] # "operate"
        /\ j \in forgotten' <=> j \in jobs \cup forgotten
    BY PhasesAndEnds DEF Restart, JobInv, PlaceInv
  <2>2. UNCHANGED <<mode, state, errorCode, summary, vpn, given, response, client, view, outcome,
                    task, pid, verdict, routeSeen, ranIn>>
    BY DEF Restart
  <2>3. PlaceInv(j)'
    BY <2>1, <2>2 DEF JobInv, PlaceInv, Over
  <2>4. WriterInv(j)'
    BY <2>1, <2>2 DEF JobInv, PlaceInv, WriterInv, Fits, Over, Publishing
  <2>5. BlankInv(j)' /\ AnswerInv(j)'
    BY <2>1, <2>2 DEF JobInv, BlankInv, AnswerInv, Over
  <2>6. ResultInv(j)' /\ CheckInv(j)'
    BY <2>1, <2>2 DEF JobInv, ResultInv, CheckInv, Existing
  <2>7. ViewInv(j)' /\ OutcomeInv(j)'
    BY <2>1, <2>2 DEF JobInv, ViewInv, Agrees, OutcomeInv, Over
  <2>8. QED
    BY <2>3, <2>4, <2>5, <2>6, <2>7 DEF JobInv
<1>4. QED
  BY <1>1, <1>2, <1>3

(* The container is started again or its tunnel changes.                     *)
LEMMA WorldInv ==
    ASSUME Inv, World
    PROVE  Inv' /\ \A k \in JobIds : Final(k)
<1> USE DEF Inv, World
<1>1. /\ UNCHANGED <<step, pid, verdict, routeSeen, ranIn>>
      /\ container' \in Nat \ {0}
  BY DEF Executor!WorldStep, Executor!ContainerRestarts, Executor!TunnelChanges, Executor!execVars,
         Shapes
<1>2. Shapes'
  BY <1>1 DEF Shapes, TypeOK, vars, clientVars
<1>3. \A k \in JobIds : Same(k)
  BY <1>1 DEF Same, vars, clientVars
<1>4. \A k \in JobIds : Final(k)
  BY DEF Final, vars
<1>5. QED
  BY <1>2, <1>3, <1>4, SameJob

(* A step of a client leaves every record alone.                             *)
LEMMA ClientFinal ==
    ASSUME NEW j \in JobIds, Post(j) \/ ClientStep(j) \/ TaskTimesOut(j)
    PROVE  \A k \in JobIds : Final(k)
<1>1. UNCHANGED <<state, errorCode, summary>>
  BY DEF Post, ClientStep, PostAnswered, PostRefused, NoAnswer, Evaluate, GetAnswered,
         TaskTimesOut, vars
<1>2. QED
  BY <1>1 DEF Final

(* Every step keeps the invariant and the records of the jobs that are over. *)
LEMMA NextInv ==
    ASSUME Inv, RemoteNext
    PROVE  Inv' /\ \A k \in JobIds : Final(k)
<1>1. ASSUME NEW j \in JobIds, Post(j) \/ ClientStep(j) \/ TaskTimesOut(j)
      PROVE  Inv' /\ \A k \in JobIds : Final(k)
  BY <1>1, ClientFinal, PostInv, PostAnsweredInv, PostRefusedInv, NoAnswerInv, EvaluateInv,
     GetAnsweredInv, TaskTimesOutInv DEF ClientStep
<1>2. ASSUME NEW j \in JobIds, \/ Create(j) \/ ExecutorBegins(j) \/ ExecutorWorks(j)
                               \/ ExecutorEnds(j) \/ OtherRunner(j) \/ Execute(j)
                               \/ Cancel(j) \/ Serve(j)
      PROVE  Inv' /\ \A k \in JobIds : Final(k)
  BY <1>2, CreateInv, ExecutorBeginsInv, ExecutorWorksInv, ExecutorEndsInv, OtherRunnerInv,
     ExecuteInv, CancelInv, ServeInv
<1>3. QED
  BY <1>1, <1>2, RestartInv, WorldInv DEF RemoteNext

(* Nothing happens.                                                          *)
LEMMA StutterInv ==
    ASSUME Inv, UNCHANGED remoteVars
    PROVE  Inv'
<1> USE DEF Inv, remoteVars, vars, clientVars, execVars
<1>1. Shapes'
  BY DEF Shapes, TypeOK
<1>2. \A k \in JobIds : Same(k)
  BY DEF Same
<1>3. QED
  BY <1>1, <1>2, SameJob

(* The invariant holds of every run.                                         *)
LEMMA InvHolds == RemoteSpec => []Inv
<1>1. Inv /\ [RemoteNext]_remoteVars => Inv'
  BY NextInv, StutterInv
<1>2. QED
  BY <1>1, InitInv, PTL DEF RemoteSpec

-----------------------------------------------------------------------------
(* The theorems.                                                             *)

(* Every variable of the composition holds a value of its kind.              *)
THEOREM TypesHold == RemoteSpec => []RemoteTypeOK
<1>1. Inv => RemoteTypeOK
  <2>1. Inv => \A j \in JobIds : view[j].state \in JobStates \cup {None}
    BY DEF Inv, Shapes, Responses
  <2>2. QED
    BY <2>1 DEF Inv, Shapes, RemoteTypeOK
<1>2. QED
  BY <1>1, InvHolds, PTL

(* runner_daemon.py:99, 188-210: cancelling, timing out and finishing race,  *)
(* and the record of a job that is over goes with its state; so does what    *)
(* create_job answers without the lock, however many jobs and modes there    *)
(* are and whenever the daemon is started again.                             *)
THEOREM OneOutcomeRecorded == RemoteSpec => []OutcomesFit
<1>1. Inv => OutcomesFit
  <2> SUFFICES ASSUME Inv, NEW j \in JobIds
               PROVE  /\ Fits(state[j], summary[j], errorCode[j])
                      /\ post[j] = "answered" =>
                            Fits(response[j].state, response[j].summary, response[j].errorCode)
    BY DEF OutcomesFit
  <2>1. Fits(state[j], summary[j], errorCode[j])
    BY DEF Inv, JobInv, WriterInv
  <2>2. ASSUME post[j] = "answered"
        PROVE  Fits(response[j].state, response[j].summary, response[j].errorCode)
    <3>1. Agrees(j, response[j])
      BY <2>2 DEF Inv, JobInv, AnswerInv
    <3>2. CASE response[j].state \in TerminalStates
      BY <2>1, <3>1, <3>2 DEF Agrees
    <3>3. CASE response[j].state \notin TerminalStates
      BY <3>3 DEF Fits, TerminalStates
    <3>4. QED
      BY <3>2, <3>3
  <2>3. QED
    BY <2>1, <2>2
<1>2. QED
  BY <1>1, InvHolds, PTL

(* runner_daemon.py:177-181, 213: no live job is run with blank credentials. *)
THEOREM NoLiveJobBlanked == RemoteSpec => []BlankOnlyWhenOver
<1>1. Inv => BlankOnlyWhenOver
  BY DEF Inv, JobInv, BlankInv, BlankOnlyWhenOver
<1>2. QED
  BY <1>1, InvHolds, PTL

(* existing_container_executor.py:25-32: a verdict about the vehicle comes   *)
(* from the incarnation of the container in which the route was seen,        *)
(* however often the container is started.                                   *)
THEOREM VerdictsChecked == RemoteSpec => []VerdictFromCheckedNamespace
<1>1. Inv => VerdictFromCheckedNamespace
  BY DEF Inv, JobInv, CheckInv, VerdictFromCheckedNamespace, Executor!VerdictFromCheckedNamespace,
         Executor!NoPid
<1>2. QED
  BY <1>1, InvHolds, PTL

(* runner.py:141-160, 183-194: what the worker is told of a job is what the  *)
(* daemon recorded of it, and in the existing_container mode what the        *)
(* executor found.                                                           *)
THEOREM WorkerIsToldTheTruth == RemoteSpec => []OutcomeTrue
<1>1. Inv => OutcomeTrue
  <2> SUFFICES ASSUME Inv, NEW j \in JobIds
               PROVE  /\ outcome[j] = "result" => /\ state[j] = "finished" /\ summary[j]
                                                  /\ Existing(j) => verdict[j] = "ok"
                      /\ outcome[j] \in ErrorCodes => Over(j) /\ errorCode[j] = outcome[j]
                      /\ outcome[j] = "job_not_found" => j \in forgotten
                      /\ outcome[j] = "refused" => mode[j] = None
                      /\ outcome[j] # "runner_failed"
    BY DEF OutcomeTrue
  <2>1. outcome[j] = "result" => state[j] = "finished" /\ summary[j]
    BY DEF Inv, JobInv, OutcomeInv, WriterInv, Fits
  <2>2. QED
    BY <2>1 DEF Inv, JobInv, OutcomeInv, ResultInv, PlaceInv
<1>2. QED
  BY <1>1, InvHolds, PTL

(* runner.py:132-194: a job that still runs though its client or its task is *)
(* over was left behind by a lost answer or by the timeout of the worker.    *)
THEOREM OnlyLossLeavesBehind == RemoteSpec => []LeftBehindByLoss
<1>1. Inv => LeftBehindByLoss
  <2> SUFFICES ASSUME Inv, NEW j \in jobs, ~ Over(j)
               PROVE  /\ client[j] = "ended" => outcome[j] \in Unanswered
                      /\ task[j] # "running" => task[j] = "timeout" \/ outcome[j] \in Unanswered
    BY DEF LeftBehindByLoss
  <2>1. j \in JobIds
    BY DEF Inv, Shapes, TypeOK
  <2>2. client[j] = "ended" => outcome[j] \in Unanswered
    <3>1. j \notin forgotten
      BY <2>1 DEF Inv, JobInv, PlaceInv
    <3>2. /\ client[j] = "ended" => outcome[j] # "none"
          /\ outcome[j] \notin {"result", "job_not_found", "refused", "runner_failed"} \cup ErrorCodes
      BY <2>1, <3>1 DEF Inv, JobInv, OutcomeInv, Over, TerminalStates
    <3>3. QED
      BY <2>1, <3>2 DEF Inv, Shapes
  <2>3. task[j] \in {"running", "timeout"} \/ client[j] = "ended"
    BY <2>1 DEF Inv, Shapes, JobInv, OutcomeInv
  <2>4. QED
    BY <2>2, <2>3
<1>2. QED
  BY <1>1, InvHolds, PTL

(* runner_daemon.py:160-165, 188: what a caller saw of a job that is over    *)
(* never changes, whatever its runner still reports or returns.              *)
THEOREM RecordsAreFinal == RemoteSpec => EndIsFinal
<1>1. Inv /\ [RemoteNext]_remoteVars =>
          [\A j \in jobs : Over(j) => UNCHANGED <<state[j], errorCode[j], summary[j]>>]_vars
  <2> SUFFICES ASSUME Inv, [RemoteNext]_remoteVars, ~ UNCHANGED vars, NEW j \in jobs, Over(j)
               PROVE  UNCHANGED <<state[j], errorCode[j], summary[j]>>
    OBVIOUS
  <2>1. RemoteNext
    BY DEF remoteVars
  <2>2. j \in JobIds
    BY DEF Inv, Shapes, TypeOK
  <2>3. QED
    BY <2>1, <2>2, NextInv DEF Final
<1>2. QED
  BY <1>1, InvHolds, PTL DEF RemoteSpec, EndIsFinal
=============================================================================

--------------------------- MODULE AudioPlayback ---------------------------
(***************************************************************************)
(* Playback in src/bo_vpn_agent/telegram_audio_bot.py.                     *)
(*                                                                         *)
(* One thread polls Telegram and handles the updates one after another: it *)
(* admits audio messages and carries out /stop.  Every admitted message    *)
(* has a thread of its own (_play) that downloads the file, converts it    *)
(* with ffmpeg, checks the vehicle and runs play_vehicle_audio.sh.         *)
(*                                                                         *)
(* A PlaybackJob is shared by both.  _play writes job.process under the    *)
(* lock for the script but without it for ffmpeg, and stop_all writes      *)
(* job.cancelled without it, so the statements between which another       *)
(* thread can come are steps of their own, lock held or not.               *)
(***************************************************************************)
EXTENDS Integers

CONSTANTS
    Users,          \* allowed_users
    JobIds,         \* PlaybackJob objects
    Attempts,       \* attempts in _ensure_vehicle_ready
    OsFails,        \* may starting a thread or removing a file fail?
    None            \* Python's None, and the owner of a free lock

ASSUME PlaybackAssumption ==
    /\ Attempts \in Nat \ {0} /\ OsFails \in BOOLEAN
    /\ None \notin Users /\ None \notin JobIds /\ "poll" \notin JobIds
    /\ None \notin {"poll", "ffmpeg", "script"}

VARIABLES
    jobs,           \* self.jobs: the job of each user
    owner,          \* the user_id that _play of the job was given
    cancelled,      \* job.cancelled
    process,        \* job.process: the kind of Popen object it refers to
    child,          \* the ffmpeg and script processes of the job
    files,          \* which of local_file, prepared_file exist
    attempt,        \* attempt in _ensure_vehicle_ready
    pc,             \* where _play is
    lock,           \* who holds self.lock over several steps
    poll            \* where the polling thread is, and its local variables

jobVars == <<jobs, owner>>
vars == <<jobs, owner, cancelled, process, child, files, attempt, pc, lock, poll>>

Children == {"ffmpeg", "script"}
PlaySteps == {"none", "download", "downloaded", "convert", "spawned", "assigned",
              "waiting", "converted", "ready", "checked", "launch", "launching",
              "launched", "reading", "finally", "pop", "done", "lost", "killed"}
PollSteps == {"idle", "admit", "stopping", "signal", "listed", "exited"}
Idle == [step |-> "idle", user |-> None, job |-> None, process |-> None, pending |-> {}]

Init == /\ jobs = [u \in Users |-> None]
        /\ owner = [j \in JobIds |-> None]
        /\ cancelled = [j \in JobIds |-> FALSE]
        /\ process = [j \in JobIds |-> None]
        /\ child = [j \in JobIds |-> [c \in Children |-> "none"]]
        /\ files = [j \in JobIds |-> {}]
        /\ attempt = [j \in JobIds |-> 1]
        /\ pc = [j \in JobIds |-> "none"]
        /\ lock = None
        /\ poll = Idle

Alive(j, c) == child[j][c] \in {"running", "interrupted"}

-----------------------------------------------------------------------------
(* The polling thread.                                                       *)

(* Variant for mutation: an active job is not looked for.                    *)
MediaAlwaysAdmitted(u) ==
    /\ poll.step = "idle"
    /\ lock = None
    /\ poll' = [Idle EXCEPT !.step = "admit", !.user = u]
    /\ UNCHANGED <<jobs, owner, cancelled, process, child, files, attempt, pc, lock>>

(* handle_message with a medium and a target: the lock is taken to look for  *)
(* an active job, and again to enter the new one and start its thread.       *)
MediaAdmitted(u) ==
    /\ poll.step = "idle"
    /\ lock = None
    /\ jobs[u] = None
    /\ poll' = [Idle EXCEPT !.step = "admit", !.user = u]
    /\ UNCHANGED <<jobs, owner, cancelled, process, child, files, attempt, pc, lock>>

Enter(j, step) ==
    /\ poll.step = "admit"
    /\ lock = None
    /\ owner[j] = None
    /\ jobs' = [jobs EXCEPT ![poll.user] = j]
    /\ owner' = [owner EXCEPT ![j] = poll.user]
    /\ pc' = [pc EXCEPT ![j] = step]
    /\ poll' = Idle
    /\ UNCHANGED <<cancelled, process, child, files, attempt, lock>>

MediaStarts(j) == Enter(j, "download")

(* Thread.start raises: run goes on, and nobody is there to leave the slot.  *)
MediaStartFails(j) == OsFails /\ Enter(j, "lost")

(* _stop: cancelled is set before job.process is read, and the signal goes   *)
(* to what was read once the lock is free.                                   *)
StopCancels(u) ==
    /\ poll.step = "idle"
    /\ lock = None
    /\ jobs[u] # None
    /\ cancelled' = [cancelled EXCEPT ![jobs[u]] = TRUE]
    /\ lock' = "poll"
    /\ poll' = [Idle EXCEPT !.step = "stopping", !.job = jobs[u]]
    /\ UNCHANGED <<jobs, owner, process, child, files, attempt, pc>>

StopReads ==
    /\ poll.step = "stopping"
    /\ lock' = None
    /\ poll' = [poll EXCEPT !.step = "signal", !.process = process[poll.job]]
    /\ UNCHANGED <<jobs, owner, cancelled, process, child, files, attempt, pc>>

(* killpg(SIGINT) when the process is there and has not ended.               *)
Interrupted(j, c) ==
    IF c = None THEN child
    ELSE [child EXCEPT ![j][c] = IF @ = "running" THEN "interrupted" ELSE @]

(* Variant for mutation: _stop only signals a converter.                     *)
StopSignalsConverter ==
    /\ poll.step = "signal"
    /\ child' = IF poll.process = "ffmpeg" THEN Interrupted(poll.job, "ffmpeg") ELSE child
    /\ poll' = Idle
    /\ UNCHANGED <<jobs, owner, cancelled, process, files, attempt, pc, lock>>

StopSignals ==
    /\ poll.step = "signal"
    /\ child' = Interrupted(poll.job, poll.process)
    /\ poll' = Idle
    /\ UNCHANGED <<jobs, owner, cancelled, process, files, attempt, pc, lock>>

(* SIGTERM or SIGINT: stop_handler runs in this thread, wherever it is.  The *)
(* lock is re-entrant, so holding it already does not matter.  Jobs are then *)
(* cancelled and signalled one by one without it; job.process is read once   *)
(* to see whether there is a process and again to signal it.                 *)
ShutdownLists ==
    /\ poll.step \notin {"listed", "exited"}
    /\ lock \in {None, "poll"}
    /\ poll' = [Idle EXCEPT !.step = "listed",
                            !.pending = {jobs[u] : u \in {v \in Users : jobs[v] # None}}]
    /\ UNCHANGED <<jobs, owner, cancelled, process, child, files, attempt, pc, lock>>

ShutdownCancels(j) ==
    /\ poll.step = "listed"
    /\ poll.job = None
    /\ j \in poll.pending
    /\ cancelled' = [cancelled EXCEPT ![j] = TRUE]
    /\ poll' = [poll EXCEPT !.job = j]
    /\ UNCHANGED <<jobs, owner, process, child, files, attempt, pc, lock>>

ShutdownLooks(j) ==
    /\ poll.step = "listed"
    /\ poll.job = j
    /\ poll.process = None
    /\ poll' = IF process[j] = None
               THEN [poll EXCEPT !.job = None, !.pending = @ \ {j}]
               ELSE [poll EXCEPT !.process = process[j]]
    /\ UNCHANGED <<jobs, owner, cancelled, process, child, files, attempt, pc, lock>>

ShutdownSignals(j) ==
    /\ poll.step = "listed"
    /\ poll.job = j
    /\ poll.process # None
    /\ process[j] # None
    /\ child' = Interrupted(j, process[j])
    /\ poll' = [poll EXCEPT !.job = None, !.process = None, !.pending = @ \ {j}]
    /\ UNCHANGED <<jobs, owner, cancelled, process, files, attempt, pc, lock>>

(* The interpreter ends, and with it the daemon threads, without their       *)
(* finally clauses.  The children live in sessions of their own.             *)
InterpreterEnds ==
    /\ poll' = [Idle EXCEPT !.step = "exited"]
    /\ pc' = [j \in JobIds |-> IF pc[j] \in {"none", "done", "lost"} THEN pc[j] ELSE "killed"]
    /\ lock' = None
    /\ UNCHANGED <<jobs, owner, cancelled, process, child, files, attempt>>

(* SystemExit; or, when _prepare_audio has reset job.process in between, an  *)
(* AttributeError that nothing catches, and the jobs that are left are not   *)
(* cancelled.                                                                *)
Exit == poll.step = "listed" /\ poll.pending = {} /\ InterpreterEnds

ShutdownBreaks(j) ==
    /\ poll.step = "listed"
    /\ poll.job = j
    /\ poll.process # None
    /\ process[j] = None
    /\ InterpreterEnds

ShutdownStep(j) == \/ ShutdownCancels(j) \/ ShutdownLooks(j)
                   \/ ShutdownSignals(j) \/ ShutdownBreaks(j)

PollStep == StopReads \/ StopSignals \/ Exit \/ \E j \in JobIds : ShutdownStep(j)

-----------------------------------------------------------------------------
(* The _play thread of job j.                                                *)

PlayMoves(j, from, to) == /\ pc[j] = from
                          /\ pc' = [pc EXCEPT ![j] = to]

Download(j) ==
    /\ PlayMoves(j, "download", "downloaded")
    /\ files' = [files EXCEPT ![j] = @ \cup {"local"}]
    /\ UNCHANGED <<jobs, owner, cancelled, process, child, attempt, lock, poll>>

(* "if job.cancelled: ... return", between two stages.                       *)
Proceed(j, from, to) ==
    /\ PlayMoves(j, from, IF cancelled[j] THEN "finally" ELSE to)
    /\ UNCHANGED <<jobs, owner, cancelled, process, child, files, attempt, lock, poll>>

ProceedStep(j) == \/ Proceed(j, "downloaded", "convert")
                  \/ Proceed(j, "converted", "ready")
                  \/ Proceed(j, "checked", "launch")

(* _prepare_audio: Popen, job.process = process, then look at cancelled.     *)
Convert(j) ==
    /\ PlayMoves(j, "convert", "spawned")
    /\ child' = [child EXCEPT ![j]["ffmpeg"] = "running"]
    /\ files' = [files EXCEPT ![j] = @ \cup {"prepared"}]
    /\ UNCHANGED <<jobs, owner, cancelled, process, attempt, lock, poll>>

ConvertAssigns(j) ==
    /\ PlayMoves(j, "spawned", "assigned")
    /\ process' = [process EXCEPT ![j] = "ffmpeg"]
    /\ UNCHANGED <<jobs, owner, cancelled, child, files, attempt, lock, poll>>

ConvertLooks(j) ==
    /\ PlayMoves(j, "assigned", "waiting")
    /\ child' = IF cancelled[j] THEN Interrupted(j, "ffmpeg") ELSE child
    /\ UNCHANGED <<jobs, owner, cancelled, process, files, attempt, lock, poll>>

(* wait(timeout=120): ffmpeg has ended, and a bad exit status is an error    *)
(* unless the job was cancelled; or the time is up and it is killed.         *)
ConvertEnds(j) ==
    /\ child[j]["ffmpeg"] = "ended"
    /\ \/ PlayMoves(j, "waiting", "converted")
       \/ ~ cancelled[j] /\ PlayMoves(j, "waiting", "finally")
    /\ process' = [process EXCEPT ![j] = None]
    /\ UNCHANGED <<jobs, owner, cancelled, child, files, attempt, lock, poll>>

(* Variant for mutation: the converter is not killed.                        *)
ConvertAbandoned(j) ==
    /\ Alive(j, "ffmpeg")
    /\ PlayMoves(j, "waiting", "finally")
    /\ process' = [process EXCEPT ![j] = None]
    /\ UNCHANGED <<jobs, owner, cancelled, child, files, attempt, lock, poll>>

ConvertExpires(j) ==
    /\ Alive(j, "ffmpeg")
    /\ PlayMoves(j, "waiting", "finally")
    /\ child' = [child EXCEPT ![j]["ffmpeg"] = "ended"]
    /\ process' = [process EXCEPT ![j] = None]
    /\ UNCHANGED <<jobs, owner, cancelled, files, attempt, lock, poll>>

(* _ensure_vehicle_ready: vehicle_unreachable is tried again.  The count is  *)
(* a local variable, gone when the function returns or raises.               *)
VehicleReady(j) ==
    /\ PlayMoves(j, "ready", "checked")
    /\ attempt' = [attempt EXCEPT ![j] = 1]
    /\ UNCHANGED <<jobs, owner, cancelled, process, child, files, lock, poll>>

VehicleUnreachable(j) ==
    /\ pc[j] = "ready"
    /\ attempt[j] < Attempts
    /\ attempt' = [attempt EXCEPT ![j] = @ + 1]
    /\ UNCHANGED <<jobs, owner, cancelled, process, child, files, pc, lock, poll>>

(* Variant for mutation: cancelled is not looked at under the lock.          *)
LaunchBlindly(j) ==
    /\ lock = None
    /\ PlayMoves(j, "launch", "launching")
    /\ lock' = j
    /\ UNCHANGED <<jobs, owner, cancelled, process, child, files, attempt, poll>>

(* Under the lock: look at cancelled once more, Popen, job.process = process.*)
Launch(j) ==
    /\ lock = None
    /\ \/ cancelled[j] /\ PlayMoves(j, "launch", "finally") /\ UNCHANGED lock
       \/ ~ cancelled[j] /\ PlayMoves(j, "launch", "launching") /\ lock' = j
    /\ UNCHANGED <<jobs, owner, cancelled, process, child, files, attempt, poll>>

LaunchSpawns(j) ==
    /\ PlayMoves(j, "launching", "launched")
    /\ child' = [child EXCEPT ![j]["script"] = "running"]
    /\ UNCHANGED <<jobs, owner, cancelled, process, files, attempt, lock, poll>>

LaunchAssigns(j) ==
    /\ PlayMoves(j, "launched", "reading")
    /\ process' = [process EXCEPT ![j] = "script"]
    /\ lock' = None
    /\ UNCHANGED <<jobs, owner, cancelled, child, files, attempt, poll>>

(* The script's output ends, and wait() returns.                             *)
PlaybackEnds(j) ==
    /\ child[j]["script"] = "ended"
    /\ PlayMoves(j, "reading", "finally")
    /\ UNCHANGED <<jobs, owner, cancelled, process, child, files, attempt, lock, poll>>

(* Telegram, the worker or Popen raises.  The except clause reports it and   *)
(* touches nothing.  A download that fails may leave its file.               *)
Raises(j) ==
    /\ pc[j] \in {"download", "downloaded", "convert", "converted", "ready", "checked",
                  "launch", "launching", "reading"}
    /\ pc' = [pc EXCEPT ![j] = "finally"]
    /\ \/ UNCHANGED files
       \/ pc[j] = "download" /\ files' = [files EXCEPT ![j] = @ \cup {"local"}]
    /\ lock' = IF lock = j THEN None ELSE lock
    /\ attempt' = [attempt EXCEPT ![j] = 1]
    /\ UNCHANGED <<jobs, owner, cancelled, process, child, poll>>

(* finally: unlink both files; under the lock, leave self.jobs.              *)
Unlink(j) ==
    /\ PlayMoves(j, "finally", "pop")
    /\ files' = [files EXCEPT ![j] = {}]
    /\ UNCHANGED <<jobs, owner, cancelled, process, child, attempt, lock, poll>>

(* An unlink raises: the thread ends with the file in place, and in its slot.*)
UnlinkFails(j) ==
    /\ OsFails
    /\ PlayMoves(j, "finally", "lost")
    /\ \E kept \in {files[j], files[j] \ {"local"}} : files' = [files EXCEPT ![j] = kept]
    /\ UNCHANGED <<jobs, owner, cancelled, process, child, attempt, lock, poll>>

Pop(j) ==
    /\ lock = None
    /\ PlayMoves(j, "pop", "done")
    /\ jobs' = [u \in Users |-> IF u = owner[j] /\ jobs[u] = j THEN None ELSE jobs[u]]
    /\ UNCHANGED <<owner, cancelled, process, child, files, attempt, lock, poll>>

PlayStep(j) == \/ Download(j) \/ ProceedStep(j)
               \/ Convert(j) \/ ConvertAssigns(j) \/ ConvertLooks(j)
               \/ ConvertEnds(j) \/ ConvertExpires(j)
               \/ VehicleReady(j) \/ VehicleUnreachable(j)
               \/ Launch(j) \/ LaunchSpawns(j) \/ LaunchAssigns(j) \/ PlaybackEnds(j)
               \/ Raises(j) \/ Unlink(j) \/ UnlinkFails(j) \/ Pop(j)

(* ffmpeg and the script end by themselves or because of a signal.           *)
ChildEnds(j, c) ==
    /\ Alive(j, c)
    /\ child' = [child EXCEPT ![j][c] = "ended"]
    /\ UNCHANGED <<jobs, owner, cancelled, process, files, attempt, pc, lock, poll>>

-----------------------------------------------------------------------------
Next == \/ \E u \in Users : MediaAdmitted(u) \/ StopCancels(u)
        \/ \E j \in JobIds : MediaStarts(j) \/ MediaStartFails(j) \/ PlayStep(j)
        \/ \E j \in JobIds, c \in Children : ChildEnds(j, c)
        \/ ShutdownLists
        \/ PollStep

Spec == Init /\ [][Next]_vars

(* Every thread is scheduled, every call it makes to Telegram and to the     *)
(* worker has a timeout (those it makes while it holds the lock, to say that *)
(* there is nothing to stop or that the task was cancelled, among them), so  *)
(* a thread that waits for the lock gets it: strong fairness for _play.  A   *)
(* script that was interrupted ends; nothing is assumed of others.           *)
InterruptedEnds(j) == child[j]["script"] = "interrupted" /\ ChildEnds(j, "script")

FairSpec == /\ Spec
            /\ WF_vars(PollStep)
            /\ \A j \in JobIds : SF_vars(PlayStep(j)) /\ WF_vars(InterruptedEnds(j))

-----------------------------------------------------------------------------
(* Properties.                                                               *)

(* Every variable holds a value of its kind.                                 *)
TypeOK ==
    /\ jobs \in [Users -> JobIds \cup {None}]
    /\ owner \in [JobIds -> Users \cup {None}]
    /\ cancelled \in [JobIds -> BOOLEAN]
    /\ process \in [JobIds -> Children \cup {None}]
    /\ child \in [JobIds -> [Children -> {"none", "running", "interrupted", "ended"}]]
    /\ files \in [JobIds -> SUBSET {"local", "prepared"}]
    /\ attempt \in [JobIds -> 1 .. Attempts]
    /\ pc \in [JobIds -> PlaySteps]
    /\ lock \in JobIds \cup {None, "poll"}
    /\ poll \in [step : PollSteps, user : Users \cup {None}, job : JobIds \cup {None},
                 process : Children \cup {None}, pending : SUBSET JobIds]

Serving == poll.step \notin {"listed", "exited"}
Working(j) == pc[j] \notin {"none", "done", "lost", "killed"}
StopUnderWay(j) == poll.step \in {"stopping", "signal"} /\ poll.job = j

(* telegram_audio_bot.py:220-233 and 700-702: a user's slot is taken exactly *)
(* as long as the thread of that job works, so no user has two of them - and *)
(* for as long as the bot runs when the thread could not be started or could *)
(* not remove a file.                                                        *)
OneJobPerUser ==
    \A j \in JobIds, u \in Users :
        jobs[u] = j <=> owner[j] = u /\ (Working(j) \/ pc[j] \in {"lost", "killed"})

(* telegram_audio_bot.py:599-603, 649-660 and 775-787: once /stop has been   *)
(* carried out, no script and no converter of that job goes on and none      *)
(* starts, whichever of the two threads came first.  job.process is written  *)
(* without the lock, yet either _stop sees the process or _prepare_audio     *)
(* sees that the job was cancelled.                                          *)
StopReachesProcesses ==
    Serving => \A j \in JobIds : cancelled[j] =>
        /\ child[j]["script"] = "running" => StopUnderWay(j)
        /\ child[j]["ffmpeg"] = "running" => StopUnderWay(j) \/ pc[j] \in {"spawned", "assigned"}

(* telegram_audio_bot.py:604-613 and 697-702: a job that has ended, however  *)
(* it ended, leaves no file and no converter behind (one whose file cannot   *)
(* be removed does not leave its slot either).                               *)
NothingLeftBehind ==
    \A j \in JobIds : pc[j] = "done" => files[j] = {} /\ ~ Alive(j, "ffmpeg")

(* telegram_audio_bot.py:775-790: a job that was stopped is over in the end, *)
(* its slot is free and its script has ended (or the bot itself shuts down); *)
(* of a job that lost its thread only the script ends, and the slot stays.   *)
StopEndsJob ==
    \A j \in JobIds :
        cancelled[j] ~> \/ pc[j] \in {"done", "lost"} /\ ~ Alive(j, "script")
                        \/ ~ Serving

(* docs/audio_bot_usage.md:14: "Use **Stop** to cancel preparation or stop   *)
(* playback."  For that a script that plays must belong to a job that /stop  *)
(* finds in self.jobs.                                                       *)
StopFindsPlayback ==
    Serving => \A j \in JobIds : child[j]["script"] = "running" => jobs[owner[j]] = j

(* docs/audio_bot_usage.md:38: "Both downloaded and prepared files are       *)
(* removed after completion, cancellation or failure."                       *)
FilesRemoved == \A j \in JobIds : cancelled[j] ~> files[j] = {}
=============================================================================

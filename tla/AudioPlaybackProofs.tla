------------------------ MODULE AudioPlaybackProofs ------------------------
(***************************************************************************)
(* AudioPlayback's safety properties, for every set of users and jobs and  *)
(* every number of attempts.                                               *)
(***************************************************************************)
EXTENDS AudioPlayback, TLAPS

(* The steps of _play before its script can exist, and those after the       *)
(* script has been spawned if it ever is.                                    *)
BeforeScript == {"none", "download", "downloaded", "convert", "spawned", "assigned",
                 "waiting", "converted", "ready", "checked", "launch", "launching"}

(* A job has its user's slot from its admission until it is popped.          *)
SlotInv(j) ==
    /\ owner[j] = None <=> pc[j] = "none"
    /\ \A u \in Users : jobs[u] = j <=> owner[j] = u /\ pc[j] \notin {"none", "done"}

(* _play holds the lock from its last look at cancelled until job.process is *)
(* the script.                                                               *)
LockInv(j) == lock = j <=> pc[j] \in {"launching", "launched"}

(* job.process follows the children: it is ffmpeg while _play waits for it,  *)
(* and from the end of the launch on it is the script, if there is one.      *)
ChildInv(j) ==
    /\ Alive(j, "ffmpeg") => pc[j] \in {"spawned", "assigned", "waiting", "killed"}
    /\ pc[j] \in {"assigned", "waiting"} => process[j] = "ffmpeg"
    /\ pc[j] \in BeforeScript => child[j]["script"] = "none"
    /\ child[j]["script"] # "none" /\ pc[j] \notin {"launched", "killed"} => process[j] = "script"

FilesInv(j) == pc[j] \in {"pop", "done"} => files[j] = {}

(* What a cancelled job may still run: the process _stop is about to signal, *)
(* having seen it, or a converter whose cancellation _prepare_audio has yet  *)
(* to look at.  A job that is being launched is not cancelled: both need the *)
(* lock.                                                                     *)
StopInv(j) ==
    Serving =>
        /\ pc[j] # "killed"
        /\ pc[j] \in {"launching", "launched"} => ~ cancelled[j]
        /\ cancelled[j] /\ child[j]["script"] = "running" =>
               StopUnderWay(j) /\ (poll.step = "signal" => poll.process = "script")
        /\ cancelled[j] /\ child[j]["ffmpeg"] = "running" =>
               \/ pc[j] \in {"spawned", "assigned"}
               \/ StopUnderWay(j) /\ (poll.step = "signal" => poll.process = "ffmpeg")

JobInv(j) == SlotInv(j) /\ LockInv(j) /\ ChildInv(j) /\ FilesInv(j) /\ StopInv(j)

(* The polling thread knows whom it admits and whom it stops.                *)
PollInv ==
    /\ poll.step = "admit" => poll.user \in Users /\ jobs[poll.user] = None
    /\ poll.step \in {"stopping", "signal"} => poll.job \in JobIds
    /\ poll.step = "stopping" => lock = "poll"

Inv == TypeOK /\ PollInv /\ \A j \in JobIds : JobInv(j)

-----------------------------------------------------------------------------
(* A step leaves the other jobs alone.                                       *)

(* Nothing of job k changes, as far as the invariant looks at it.            *)
Apart(k) ==
    /\ owner'[k] = owner[k] /\ pc'[k] = pc[k] /\ cancelled'[k] = cancelled[k]
    /\ process'[k] = process[k] /\ child'[k] = child[k] /\ files'[k] = files[k]
    /\ lock' = k <=> lock = k
    /\ \A u \in Users : jobs'[u] = k <=> jobs[u] = k

(* A /stop of job k that is under way stays so, and has read the same.       *)
StopApart(k) ==
    Serving' =>
        /\ Serving
        /\ StopUnderWay(k) =>
               /\ StopUnderWay(k)'
               /\ poll'.step = poll.step
               /\ poll'.process = poll.process

LEMMA ElsewhereKeeps ==
    ASSUME NEW k \in JobIds, JobInv(k), Apart(k), StopApart(k)
    PROVE  JobInv(k)'
<1>1. SlotInv(k)' BY DEF JobInv, Apart, SlotInv
<1>2. LockInv(k)' BY DEF JobInv, Apart, LockInv
<1>3. ChildInv(k)' BY DEF JobInv, Apart, ChildInv, Alive
<1>4. FilesInv(k)' BY DEF JobInv, Apart, FilesInv
<1>5. StopInv(k)' BY DEF JobInv, Apart, StopApart, StopInv
<1> QED BY <1>1, <1>2, <1>3, <1>4, <1>5 DEF JobInv

(* A step of the _play thread of job j, or of its children.                  *)
LEMMA PlayKeeps ==
    ASSUME Inv, TypeOK', NEW j \in JobIds,
           poll' = poll,
           lock = "poll" => lock' = "poll",
           \A u \in Users : jobs[u] = None => jobs'[u] = None,
           \A k \in JobIds \ {j} : Apart(k),
           JobInv(j)'
    PROVE  Inv'
<1>1. PollInv' BY DEF Inv, PollInv
<1>2. ASSUME NEW k \in JobIds \ {j} PROVE JobInv(k)'
    <2>1. StopApart(k) BY DEF StopApart, Serving, StopUnderWay
    <2> QED BY <2>1, ElsewhereKeeps DEF Inv
<1> QED BY <1>1, <1>2 DEF Inv

(* A step of _play that moves on and touches neither children nor files.     *)
LEMMA MoveKeeps ==
    ASSUME Inv, NEW j \in JobIds, NEW to \in PlaySteps,
           pc' = [pc EXCEPT ![j] = to],
           attempt' \in [JobIds -> 1 .. Attempts],
           UNCHANGED <<jobs, owner, cancelled, process, child, files, lock, poll>>,
           pc[j] \notin {"none", "spawned", "assigned", "waiting", "launching", "launched",
                         "pop", "done", "lost", "killed"},
           to \in BeforeScript => pc[j] \in BeforeScript,
           to \in {"downloaded", "convert", "converted", "ready", "checked", "launch", "finally"}
    PROVE  Inv'
<1>1. TypeOK' BY DEF Inv, TypeOK
<1>2. \A k \in JobIds \ {j} : Apart(k) BY DEF Inv, TypeOK, Apart
<1>3. pc'[j] = to BY DEF Inv, TypeOK
<1>4. JobInv(j)'
    <2>1. JobInv(j) BY DEF Inv
    <2>2. SlotInv(j)' BY <1>3, <2>1 DEF JobInv, SlotInv
    <2>3. LockInv(j)' BY <1>3, <2>1 DEF JobInv, LockInv
    <2>4. ChildInv(j)' BY <1>3, <2>1 DEF JobInv, ChildInv, Alive, BeforeScript
    <2>5. FilesInv(j)' BY <1>3 DEF FilesInv
    <2>6. StopInv(j)'
        BY <1>3, <2>1 DEF JobInv, StopInv, Serving, StopUnderWay
    <2> QED BY <2>2, <2>3, <2>4, <2>5, <2>6 DEF JobInv
<1> QED BY <1>1, <1>2, <1>4, PlayKeeps

LEMMA MovingStepsKeep ==
    ASSUME Inv, NEW j \in JobIds,
           ProceedStep(j) \/ VehicleReady(j) \/ VehicleUnreachable(j) \/ PlaybackEnds(j)
    PROVE  Inv'
<1>1. attempt \in [JobIds -> 1 .. Attempts] /\ pc \in [JobIds -> PlaySteps] /\ Attempts \in Nat
    BY PlaybackAssumption DEF Inv, TypeOK
<1>2. ASSUME NEW from, NEW to, Proceed(j, from, to),
             \/ from = "downloaded" /\ to = "convert"
             \/ from = "converted" /\ to = "ready"
             \/ from = "checked" /\ to = "launch"
      PROVE  Inv'
    <2>1. PICK next : next = IF cancelled[j] THEN "finally" ELSE to OBVIOUS
    <2>2. pc[j] = from /\ pc' = [pc EXCEPT ![j] = next]
        BY <1>2, <2>1 DEF Proceed, PlayMoves
    <2>3. /\ attempt' \in [JobIds -> 1 .. Attempts]
          /\ UNCHANGED <<jobs, owner, cancelled, process, child, files, lock, poll>>
        BY <1>1, <1>2 DEF Proceed
    <2>4. next \in PlaySteps /\ next \in {"convert", "ready", "launch", "finally"}
        BY <1>2, <2>1 DEF PlaySteps
    <2> QED BY <1>2, <2>2, <2>3, <2>4, MoveKeeps DEF BeforeScript
<1>3. CASE ProceedStep(j) BY <1>2, <1>3 DEF ProceedStep
<1>4. CASE VehicleReady(j)
    <2>1. attempt' \in [JobIds -> 1 .. Attempts]
        BY <1>1, <1>4, PlaybackAssumption DEF VehicleReady
    <2> QED BY <1>1, <1>4, <2>1, MoveKeeps DEF VehicleReady, PlayMoves, BeforeScript, PlaySteps
<1>5. CASE VehicleUnreachable(j)
    <2>1. attempt' \in [JobIds -> 1 .. Attempts] BY <1>1, <1>5 DEF VehicleUnreachable
    <2>2. pc' = [pc EXCEPT ![j] = "ready"] BY <1>1, <1>5 DEF VehicleUnreachable
    <2> QED BY <1>5, <2>1, <2>2, MoveKeeps DEF VehicleUnreachable, BeforeScript, PlaySteps
<1>6. CASE PlaybackEnds(j)
    BY <1>1, <1>6, MoveKeeps DEF PlaybackEnds, PlayMoves, BeforeScript, PlaySteps
<1> QED BY <1>3, <1>4, <1>5, <1>6

-----------------------------------------------------------------------------
(* The steps of _play that touch files, children, job.process or the lock.   *)

LEMMA DownloadKeeps ==
    ASSUME Inv, NEW j \in JobIds, Download(j)
    PROVE  Inv'
<1> USE DEF Download, PlayMoves
<1>1. TypeOK' BY DEF Inv, TypeOK, PlaySteps
<1>2. \A k \in JobIds \ {j} : Apart(k) BY DEF Inv, TypeOK, Apart
<1>3. pc[j] = "download" /\ pc'[j] = "downloaded" BY DEF Inv, TypeOK
<1>4. JobInv(j)'
    <2>1. JobInv(j) BY DEF Inv
    <2>2. SlotInv(j)' BY <1>3, <2>1 DEF JobInv, SlotInv
    <2>3. LockInv(j)' BY <1>3, <2>1 DEF JobInv, LockInv
    <2>4. ChildInv(j)' BY <1>3, <2>1 DEF JobInv, ChildInv, Alive, BeforeScript
    <2>5. FilesInv(j)' BY <1>3 DEF FilesInv
    <2>6. StopInv(j)' BY <1>3, <2>1 DEF JobInv, StopInv, Serving, StopUnderWay
    <2> QED BY <2>2, <2>3, <2>4, <2>5, <2>6 DEF JobInv
<1> QED BY <1>1, <1>2, <1>4, PlayKeeps

LEMMA ConvertKeeps ==
    ASSUME Inv, NEW j \in JobIds, Convert(j)
    PROVE  Inv'
<1> USE DEF Convert, PlayMoves
<1>1. TypeOK' BY DEF Inv, TypeOK, PlaySteps, Children
<1>2. \A k \in JobIds \ {j} : Apart(k) BY DEF Inv, TypeOK, Apart
<1>3. /\ pc[j] = "convert" /\ pc'[j] = "spawned"
      /\ child'[j]["ffmpeg"] = "running" /\ child'[j]["script"] = child[j]["script"]
    BY DEF Inv, TypeOK, Children
<1>4. JobInv(j)'
    <2>1. JobInv(j) BY DEF Inv
    <2>2. SlotInv(j)' BY <1>3, <2>1 DEF JobInv, SlotInv
    <2>3. LockInv(j)' BY <1>3, <2>1 DEF JobInv, LockInv
    <2>4. ChildInv(j)' BY <1>3, <2>1 DEF JobInv, ChildInv, Alive, BeforeScript
    <2>5. FilesInv(j)' BY <1>3 DEF FilesInv
    <2>6. StopInv(j)' BY <1>3, <2>1 DEF JobInv, StopInv, Serving, StopUnderWay
    <2> QED BY <2>2, <2>3, <2>4, <2>5, <2>6 DEF JobInv
<1> QED BY <1>1, <1>2, <1>4, PlayKeeps

LEMMA ConvertAssignsKeeps ==
    ASSUME Inv, NEW j \in JobIds, ConvertAssigns(j)
    PROVE  Inv'
<1> USE DEF ConvertAssigns, PlayMoves
<1>1. TypeOK' BY DEF Inv, TypeOK, PlaySteps, Children
<1>2. \A k \in JobIds \ {j} : Apart(k) BY DEF Inv, TypeOK, Apart
<1>3. pc[j] = "spawned" /\ pc'[j] = "assigned" /\ process'[j] = "ffmpeg"
    BY DEF Inv, TypeOK
<1>4. JobInv(j)'
    <2>1. JobInv(j) BY DEF Inv
    <2>2. SlotInv(j)' BY <1>3, <2>1 DEF JobInv, SlotInv
    <2>3. LockInv(j)' BY <1>3, <2>1 DEF JobInv, LockInv
    <2>4. ChildInv(j)' BY <1>3, <2>1 DEF JobInv, ChildInv, Alive, BeforeScript
    <2>5. FilesInv(j)' BY <1>3 DEF FilesInv
    <2>6. StopInv(j)' BY <1>3, <2>1 DEF JobInv, StopInv, Serving, StopUnderWay
    <2> QED BY <2>2, <2>3, <2>4, <2>5, <2>6 DEF JobInv
<1> QED BY <1>1, <1>2, <1>4, PlayKeeps

(* What a signal does to the children of a job.                              *)
LEMMA InterruptedSpec ==
    ASSUME TypeOK, NEW j \in JobIds, NEW c \in Children \cup {None}
    PROVE  /\ Interrupted(j, c) \in
                  [JobIds -> [Children -> {"none", "running", "interrupted", "ended"}]]
           /\ \A k \in JobIds \ {j} : Interrupted(j, c)[k] = child[k]
           /\ \A d \in Children :
                  /\ Interrupted(j, c)[j][d] = "running" <=> child[j][d] = "running" /\ d # c
                  /\ Interrupted(j, c)[j][d] = "none" <=> child[j][d] = "none"
                  /\ Interrupted(j, c)[j][d] \in {"running", "interrupted"} <=> Alive(j, d)
<1>1. None \notin Children BY PlaybackAssumption DEF Children
<1>2. CASE c = None BY <1>1, <1>2 DEF TypeOK, Interrupted, Alive
<1>3. CASE c \in Children
    <2>1. Interrupted(j, c) = [child EXCEPT ![j][c] = IF @ = "running" THEN "interrupted" ELSE @]
        BY <1>1, <1>3 DEF Interrupted
    <2> QED BY <1>3, <2>1 DEF TypeOK, Alive
<1> QED BY <1>2, <1>3

LEMMA ConvertLooksKeeps ==
    ASSUME Inv, NEW j \in JobIds, ConvertLooks(j)
    PROVE  Inv'
<1> USE DEF ConvertLooks, PlayMoves
<1>0. "ffmpeg" \in Children /\ "script" \in Children /\ TypeOK BY DEF Inv, Children
<1>1. PICK c \in Children \cup {None} : /\ child' = Interrupted(j, c)
                                        /\ cancelled[j] => c = "ffmpeg"
                                        /\ c \in {"ffmpeg", None}
    <2>1. Interrupted(j, None) = child BY DEF Interrupted
    <2> QED BY <1>0, <2>1
<1>2. /\ child' \in [JobIds -> [Children -> {"none", "running", "interrupted", "ended"}]]
      /\ \A k \in JobIds \ {j} : child'[k] = child[k]
      /\ \A d \in Children :
             /\ child'[j][d] = "running" <=> child[j][d] = "running" /\ d # c
             /\ child'[j][d] = "none" <=> child[j][d] = "none"
             /\ child'[j][d] \in {"running", "interrupted"} <=> Alive(j, d)
    BY <1>0, <1>1, InterruptedSpec
<1>3. TypeOK' BY <1>2 DEF Inv, TypeOK, PlaySteps
<1>4. \A k \in JobIds \ {j} : Apart(k) BY <1>2 DEF Inv, TypeOK, Apart
<1>5. pc[j] = "assigned" /\ pc'[j] = "waiting" BY DEF Inv, TypeOK
<1>6. JobInv(j)'
    <2>1. JobInv(j) BY DEF Inv
    <2>2. SlotInv(j)' BY <1>5, <2>1 DEF JobInv, SlotInv
    <2>3. LockInv(j)' BY <1>5, <2>1 DEF JobInv, LockInv
    <2>4. ChildInv(j)' BY <1>0, <1>2, <1>5, <2>1 DEF JobInv, ChildInv, Alive, BeforeScript
    <2>5. FilesInv(j)' BY <1>5 DEF FilesInv
    <2>6. StopInv(j)'
        BY <1>0, <1>1, <1>2, <1>5, <2>1 DEF JobInv, StopInv, Serving, StopUnderWay
    <2> QED BY <2>2, <2>3, <2>4, <2>5, <2>6 DEF JobInv
<1> QED BY <1>3, <1>4, <1>6, PlayKeeps

(* ffmpeg has ended or is killed; job.process is None again.                 *)
LEMMA ConvertEndsKeeps ==
    ASSUME Inv, NEW j \in JobIds, ConvertEnds(j) \/ ConvertExpires(j)
    PROVE  Inv'
<1>1. /\ pc[j] = "waiting"
      /\ process' = [process EXCEPT ![j] = None]
      /\ UNCHANGED <<jobs, owner, cancelled, files, attempt, lock, poll>>
    BY DEF ConvertEnds, ConvertExpires, PlayMoves
<1>2. PICK to \in {"converted", "finally"} : pc' = [pc EXCEPT ![j] = to]
    BY DEF ConvertEnds, ConvertExpires, PlayMoves
<1>3. /\ child' \in [JobIds -> [Children -> {"none", "running", "interrupted", "ended"}]]
      /\ \A k \in JobIds \ {j} : child'[k] = child[k]
      /\ child'[j]["ffmpeg"] = "ended"
      /\ child'[j]["script"] = child[j]["script"]
    BY DEF ConvertEnds, ConvertExpires, Inv, TypeOK, Children
<1>4. TypeOK' BY <1>1, <1>2, <1>3 DEF Inv, TypeOK, PlaySteps
<1>5. \A k \in JobIds \ {j} : Apart(k) BY <1>1, <1>2, <1>3 DEF Inv, TypeOK, Apart
<1>6. pc'[j] = to BY <1>2 DEF Inv, TypeOK
<1>7. JobInv(j)'
    <2>1. JobInv(j) BY DEF Inv
    <2>2. SlotInv(j)' BY <1>1, <1>6, <2>1 DEF JobInv, SlotInv
    <2>3. LockInv(j)' BY <1>1, <1>6, <2>1 DEF JobInv, LockInv
    <2>4. ChildInv(j)'
        BY <1>1, <1>3, <1>6, <2>1 DEF JobInv, ChildInv, Alive, BeforeScript
    <2>5. FilesInv(j)' BY <1>6 DEF FilesInv
    <2>6. StopInv(j)'
        BY <1>1, <1>3, <1>6, <2>1 DEF JobInv, StopInv, Serving, StopUnderWay
    <2> QED BY <2>2, <2>3, <2>4, <2>5, <2>6 DEF JobInv
<1> QED BY <1>1, <1>4, <1>5, <1>7, PlayKeeps

(* The launch: looked at, spawned and assigned under the lock.               *)
LEMMA LaunchKeeps ==
    ASSUME Inv, NEW j \in JobIds, Launch(j)
    PROVE  Inv'
<1>1. /\ pc[j] = "launch" /\ lock = None
      /\ UNCHANGED <<jobs, owner, cancelled, process, child, files, attempt, poll>>
    BY DEF Launch, PlayMoves
<1>2. \/ cancelled[j] /\ pc' = [pc EXCEPT ![j] = "finally"] /\ lock' = lock
      \/ ~ cancelled[j] /\ pc' = [pc EXCEPT ![j] = "launching"] /\ lock' = j
    BY DEF Launch, PlayMoves
<1>3. None \notin JobIds /\ "poll" # None BY PlaybackAssumption
<1>4. TypeOK' BY <1>1, <1>2 DEF Inv, TypeOK, PlaySteps
<1>5. \A k \in JobIds \ {j} : Apart(k) BY <1>1, <1>2, <1>3 DEF Inv, TypeOK, Apart
<1>6. \/ cancelled[j] /\ pc'[j] = "finally"
      \/ ~ cancelled[j] /\ pc'[j] = "launching"
    BY <1>2 DEF Inv, TypeOK
<1>7. JobInv(j)'
    <2>1. JobInv(j) BY DEF Inv
    <2>2. SlotInv(j)' BY <1>1, <1>6, <2>1 DEF JobInv, SlotInv
    <2>3. LockInv(j)'
        <3>1. pc'[j] = "launching" => lock' = j BY <1>2, <1>6 DEF Inv, TypeOK
        <3>2. pc'[j] = "finally" => lock' # j BY <1>1, <1>2, <1>3, <1>6 DEF Inv, TypeOK
        <3> QED BY <1>6, <3>1, <3>2 DEF LockInv
    <2>4. ChildInv(j)' BY <1>1, <1>6, <2>1 DEF JobInv, ChildInv, Alive, BeforeScript
    <2>5. FilesInv(j)' BY <1>6 DEF FilesInv
    <2>6. StopInv(j)' BY <1>1, <1>6, <2>1 DEF JobInv, StopInv, Serving, StopUnderWay
    <2> QED BY <2>2, <2>3, <2>4, <2>5, <2>6 DEF JobInv
<1> QED BY <1>1, <1>3, <1>4, <1>5, <1>7, PlayKeeps

LEMMA LaunchSpawnsKeeps ==
    ASSUME Inv, NEW j \in JobIds, LaunchSpawns(j)
    PROVE  Inv'
<1> USE DEF LaunchSpawns, PlayMoves
<1>1. TypeOK' BY DEF Inv, TypeOK, PlaySteps, Children
<1>2. \A k \in JobIds \ {j} : Apart(k) BY DEF Inv, TypeOK, Apart
<1>3. /\ pc[j] = "launching" /\ pc'[j] = "launched"
      /\ child'[j]["ffmpeg"] = child[j]["ffmpeg"] /\ child'[j]["script"] = "running"
    BY DEF Inv, TypeOK, Children
<1>4. JobInv(j)'
    <2>1. JobInv(j) BY DEF Inv
    <2>2. SlotInv(j)' BY <1>3, <2>1 DEF JobInv, SlotInv
    <2>3. LockInv(j)' BY <1>3, <2>1 DEF JobInv, LockInv
    <2>4. ChildInv(j)' BY <1>3, <2>1 DEF JobInv, ChildInv, Alive, BeforeScript
    <2>5. FilesInv(j)' BY <1>3 DEF FilesInv
    <2>6. StopInv(j)' BY <1>3, <2>1 DEF JobInv, StopInv, Serving, StopUnderWay
    <2> QED BY <2>2, <2>3, <2>4, <2>5, <2>6 DEF JobInv
<1> QED BY <1>1, <1>2, <1>4, PlayKeeps

LEMMA LaunchAssignsKeeps ==
    ASSUME Inv, NEW j \in JobIds, LaunchAssigns(j)
    PROVE  Inv'
<1> USE DEF LaunchAssigns, PlayMoves
<1>0. None \notin JobIds /\ "poll" \notin JobIds BY PlaybackAssumption
<1>1. TypeOK' BY DEF Inv, TypeOK, PlaySteps, Children
<1>2. pc[j] = "launched" /\ pc'[j] = "reading" /\ process'[j] = "script"
    BY DEF Inv, TypeOK
<1>3. lock = j /\ lock' = None BY <1>2 DEF Inv, JobInv, LockInv
<1>4. \A k \in JobIds \ {j} : Apart(k) BY <1>0, <1>3 DEF Inv, TypeOK, Apart
<1>5. JobInv(j)'
    <2>1. JobInv(j) BY DEF Inv
    <2>2. SlotInv(j)' BY <1>2, <2>1 DEF JobInv, SlotInv
    <2>3. LockInv(j)' BY <1>0, <1>2, <1>3 DEF LockInv
    <2>4. ChildInv(j)' BY <1>2, <2>1 DEF JobInv, ChildInv, Alive, BeforeScript
    <2>5. FilesInv(j)' BY <1>2 DEF FilesInv
    <2>6. StopInv(j)' BY <1>2, <2>1 DEF JobInv, StopInv, Serving, StopUnderWay
    <2> QED BY <2>2, <2>3, <2>4, <2>5, <2>6 DEF JobInv
<1> QED BY <1>0, <1>1, <1>3, <1>4, <1>5, PlayKeeps

(* An exception, wherever one can come; the lock is let go on the way out.   *)
LEMMA RaisesKeeps ==
    ASSUME Inv, NEW j \in JobIds, Raises(j)
    PROVE  Inv'
<1>0. None \notin JobIds /\ "poll" \notin JobIds BY PlaybackAssumption
<1>1. /\ pc[j] \in {"download", "downloaded", "convert", "converted", "ready", "checked",
                    "launch", "launching", "reading"}
      /\ pc' = [pc EXCEPT ![j] = "finally"]
      /\ lock' = IF lock = j THEN None ELSE lock
      /\ UNCHANGED <<jobs, owner, cancelled, process, child, poll>>
    BY DEF Raises
<1>2. /\ files' \in [JobIds -> SUBSET {"local", "prepared"}]
      /\ \A k \in JobIds \ {j} : files'[k] = files[k]
      /\ attempt' \in [JobIds -> 1 .. Attempts]
    BY PlaybackAssumption DEF Raises, Inv, TypeOK
<1>3. TypeOK' BY <1>1, <1>2 DEF Inv, TypeOK, PlaySteps
<1>4. \A k \in JobIds \ {j} : Apart(k) BY <1>0, <1>1, <1>2 DEF Inv, TypeOK, Apart
<1>5. pc'[j] = "finally" /\ lock' # j BY <1>0, <1>1 DEF Inv, TypeOK
<1>6. JobInv(j)'
    <2>1. JobInv(j) BY DEF Inv
    <2>2. SlotInv(j)' BY <1>1, <1>5, <2>1 DEF JobInv, SlotInv
    <2>3. LockInv(j)' BY <1>5 DEF LockInv
    <2>4. ChildInv(j)' BY <1>1, <1>5, <2>1 DEF JobInv, ChildInv, Alive, BeforeScript
    <2>5. FilesInv(j)' BY <1>5 DEF FilesInv
    <2>6. StopInv(j)' BY <1>1, <1>5, <2>1 DEF JobInv, StopInv, Serving, StopUnderWay
    <2> QED BY <2>2, <2>3, <2>4, <2>5, <2>6 DEF JobInv
<1> QED BY <1>0, <1>1, <1>3, <1>4, <1>6, PlayKeeps

LEMMA UnlinkKeeps ==
    ASSUME Inv, NEW j \in JobIds, Unlink(j)
    PROVE  Inv'
<1> USE DEF Unlink, PlayMoves
<1>1. TypeOK' BY DEF Inv, TypeOK, PlaySteps
<1>2. \A k \in JobIds \ {j} : Apart(k) BY DEF Inv, TypeOK, Apart
<1>3. pc[j] = "finally" /\ pc'[j] = "pop" /\ files'[j] = {} BY DEF Inv, TypeOK
<1>4. JobInv(j)'
    <2>1. JobInv(j) BY DEF Inv
    <2>2. SlotInv(j)' BY <1>3, <2>1 DEF JobInv, SlotInv
    <2>3. LockInv(j)' BY <1>3, <2>1 DEF JobInv, LockInv
    <2>4. ChildInv(j)' BY <1>3, <2>1 DEF JobInv, ChildInv, Alive, BeforeScript
    <2>5. FilesInv(j)' BY <1>3 DEF FilesInv
    <2>6. StopInv(j)' BY <1>3, <2>1 DEF JobInv, StopInv, Serving, StopUnderWay
    <2> QED BY <2>2, <2>3, <2>4, <2>5, <2>6 DEF JobInv
<1> QED BY <1>1, <1>2, <1>4, PlayKeeps

(* A thread that ends in its finally clause keeps its slot and does no more. *)
LEMMA UnlinkFailsKeeps ==
    ASSUME Inv, NEW j \in JobIds, UnlinkFails(j)
    PROVE  Inv'
<1>1. PICK kept \in {files[j], files[j] \ {"local"}} : files' = [files EXCEPT ![j] = kept]
    BY DEF UnlinkFails
<1>2. /\ pc[j] = "finally" /\ pc' = [pc EXCEPT ![j] = "lost"]
      /\ UNCHANGED <<jobs, owner, cancelled, process, child, attempt, lock, poll>>
    BY DEF UnlinkFails, PlayMoves
<1>3. TypeOK' BY <1>1, <1>2 DEF Inv, TypeOK, PlaySteps
<1>4. \A k \in JobIds \ {j} : Apart(k) BY <1>1, <1>2 DEF Inv, TypeOK, Apart
<1>5. pc'[j] = "lost" BY <1>2 DEF Inv, TypeOK
<1>6. JobInv(j)'
    <2>1. JobInv(j) BY DEF Inv
    <2>2. SlotInv(j)' BY <1>2, <1>5, <2>1 DEF JobInv, SlotInv
    <2>3. LockInv(j)' BY <1>2, <1>5, <2>1 DEF JobInv, LockInv
    <2>4. ChildInv(j)' BY <1>2, <1>5, <2>1 DEF JobInv, ChildInv, Alive, BeforeScript
    <2>5. FilesInv(j)' BY <1>5 DEF FilesInv
    <2>6. StopInv(j)' BY <1>2, <1>5, <2>1 DEF JobInv, StopInv, Serving, StopUnderWay
    <2> QED BY <2>2, <2>3, <2>4, <2>5, <2>6 DEF JobInv
<1> QED BY <1>2, <1>3, <1>4, <1>6, PlayKeeps

LEMMA PopKeeps ==
    ASSUME Inv, NEW j \in JobIds, Pop(j)
    PROVE  Inv'
<1> USE DEF Pop, PlayMoves
<1>0. None \notin JobIds BY PlaybackAssumption
<1>1. TypeOK' BY DEF Inv, TypeOK, PlaySteps
<1>2. \A k \in JobIds \ {j} : Apart(k) BY <1>0 DEF Inv, TypeOK, Apart
<1>3. pc[j] = "pop" /\ pc'[j] = "done" BY DEF Inv, TypeOK
<1>4. JobInv(j)'
    <2>1. JobInv(j) BY DEF Inv
    <2>2. SlotInv(j)'
        <3>1. ASSUME NEW u \in Users PROVE jobs'[u] # j
            BY <1>0, <1>3, <2>1 DEF JobInv, SlotInv
        <3> QED BY <1>3, <2>1, <3>1 DEF JobInv, SlotInv
    <2>3. LockInv(j)' BY <1>3, <2>1 DEF JobInv, LockInv
    <2>4. ChildInv(j)' BY <1>3, <2>1 DEF JobInv, ChildInv, Alive, BeforeScript
    <2>5. FilesInv(j)' BY <1>3, <2>1 DEF JobInv, FilesInv
    <2>6. StopInv(j)' BY <1>3, <2>1 DEF JobInv, StopInv, Serving, StopUnderWay
    <2> QED BY <2>2, <2>3, <2>4, <2>5, <2>6 DEF JobInv
<1> QED BY <1>1, <1>2, <1>4, PlayKeeps

LEMMA ChildEndsKeeps ==
    ASSUME Inv, NEW j \in JobIds, NEW c \in Children, ChildEnds(j, c)
    PROVE  Inv'
<1> USE DEF ChildEnds
<1>1. TypeOK' BY DEF Inv, TypeOK
<1>2. \A k \in JobIds \ {j} : Apart(k) BY DEF Inv, TypeOK, Apart
<1>3. /\ child[j][c] \in {"running", "interrupted"}
      /\ child'[j][c] = "ended"
      /\ \A d \in Children \ {c} : child'[j][d] = child[j][d]
    BY DEF Inv, TypeOK, Alive
<1>4. JobInv(j)'
    <2>0. "ffmpeg" \in Children /\ "script" \in Children BY DEF Children
    <2>1. JobInv(j) BY DEF Inv
    <2>2. SlotInv(j)' BY <2>1 DEF JobInv, SlotInv
    <2>3. LockInv(j)' BY <2>1 DEF JobInv, LockInv
    <2>4. ChildInv(j)' BY <1>3, <2>0, <2>1 DEF JobInv, ChildInv, Alive, BeforeScript
    <2>5. FilesInv(j)' BY <2>1 DEF JobInv, FilesInv
    <2>6. StopInv(j)' BY <1>3, <2>0, <2>1 DEF JobInv, StopInv, Serving, StopUnderWay
    <2> QED BY <2>2, <2>3, <2>4, <2>5, <2>6 DEF JobInv
<1> QED BY <1>1, <1>2, <1>4, PlayKeeps

LEMMA PlayStepKeeps ==
    ASSUME Inv, NEW j \in JobIds, PlayStep(j)
    PROVE  Inv'
BY DownloadKeeps, ConvertKeeps, ConvertAssignsKeeps, ConvertLooksKeeps, ConvertEndsKeeps,
   MovingStepsKeep, LaunchKeeps, LaunchSpawnsKeeps, LaunchAssignsKeeps, RaisesKeeps,
   UnlinkKeeps, UnlinkFailsKeeps, PopKeeps
   DEF PlayStep

-----------------------------------------------------------------------------
(* The polling thread.                                                       *)

PollRecords == [step : PollSteps, user : Users \cup {None}, job : JobIds \cup {None},
                process : Children \cup {None}, pending : SUBSET JobIds]

LEMMA IdleType == Idle \in PollRecords
BY DEF Idle, PollRecords, PollSteps

(* A step that changes where the polling thread is and nothing else.         *)
LEMMA PollMoves ==
    ASSUME Inv, poll' \in PollRecords, PollInv',
           UNCHANGED <<jobs, owner, cancelled, process, child, files, attempt, pc, lock>>,
           \A k \in JobIds : StopApart(k)
    PROVE  Inv'
<1>1. TypeOK' BY DEF Inv, TypeOK, PollRecords
<1>2. ASSUME NEW k \in JobIds PROVE JobInv(k)'
    <2>1. Apart(k) BY DEF Apart
    <2> QED BY <2>1, ElsewhereKeeps DEF Inv
<1> QED BY <1>1, <1>2 DEF Inv

LEMMA MediaAdmittedKeeps ==
    ASSUME Inv, NEW u \in Users, MediaAdmitted(u)
    PROVE  Inv'
<1>1. /\ poll.step = "idle"
      /\ jobs[u] = None
      /\ poll' = [Idle EXCEPT !.step = "admit", !.user = u]
      /\ UNCHANGED <<jobs, owner, cancelled, process, child, files, attempt, pc, lock>>
    BY DEF MediaAdmitted
<1>2. poll' \in PollRecords /\ poll'.step = "admit" /\ poll'.user = u
    BY <1>1 DEF Idle, PollRecords, PollSteps
<1>3. PollInv' BY <1>1, <1>2 DEF PollInv
<1>4. \A k \in JobIds : StopApart(k) BY <1>1 DEF StopApart, Serving, StopUnderWay
<1> QED BY <1>1, <1>2, <1>3, <1>4, PollMoves

(* The new job takes the slot that was found free, and is still free, be its *)
(* thread started or not.                                                    *)
LEMMA EnterKeeps ==
    ASSUME Inv, NEW j \in JobIds, NEW step \in {"download", "lost"}, Enter(j, step)
    PROVE  Inv'
<1> DEFINE u == poll.user
<1>0. None \notin JobIds /\ None \notin Users BY PlaybackAssumption
<1>1. /\ poll.step = "admit"
      /\ lock = None
      /\ owner[j] = None
      /\ jobs' = [jobs EXCEPT ![u] = j]
      /\ owner' = [owner EXCEPT ![j] = u]
      /\ pc' = [pc EXCEPT ![j] = step]
      /\ poll' = Idle
      /\ UNCHANGED <<cancelled, process, child, files, attempt, lock>>
    BY DEF Enter
<1>2. u \in Users /\ jobs[u] = None BY <1>1 DEF Inv, PollInv
<1> HIDE DEF u
<1>3. TypeOK' BY <1>1, <1>2, IdleType DEF Inv, TypeOK, PlaySteps, PollRecords
<1>4. poll'.step = "idle" BY <1>1 DEF Idle
<1>5. PollInv' BY <1>4 DEF PollInv
<1>6. ASSUME NEW k \in JobIds \ {j} PROVE JobInv(k)'
    <2>1. Apart(k) BY <1>0, <1>1, <1>2 DEF Inv, TypeOK, Apart
    <2>2. StopApart(k) BY <1>1, <1>4 DEF StopApart, Serving, StopUnderWay
    <2> QED BY <2>1, <2>2, ElsewhereKeeps DEF Inv
<1>7. JobInv(j)'
    <2>1. JobInv(j) BY DEF Inv
    <2>2. pc[j] = "none" /\ pc'[j] = step /\ owner'[j] = u
        BY <1>1, <1>2, <2>1 DEF Inv, TypeOK, JobInv, SlotInv
    <2>3. SlotInv(j)'
        <3>1. ASSUME NEW v \in Users PROVE jobs'[v] = j <=> v = u
            <4>1. jobs[v] # j BY <2>1, <2>2 DEF JobInv, SlotInv
            <4> QED BY <1>1, <1>2, <4>1 DEF Inv, TypeOK
        <3> QED BY <1>0, <1>2, <2>2, <3>1 DEF SlotInv
    <2>4. LockInv(j)' BY <1>1, <2>1, <2>2 DEF JobInv, LockInv
    <2>5. ChildInv(j)' BY <1>1, <2>1, <2>2 DEF JobInv, ChildInv, Alive, BeforeScript
    <2>6. FilesInv(j)' BY <2>2 DEF FilesInv
    <2>7. StopInv(j)'
        <3>1. child[j]["script"] = "none" /\ ~ Alive(j, "ffmpeg")
            BY <2>1, <2>2 DEF JobInv, ChildInv, BeforeScript
        <3> QED BY <1>1, <2>2, <3>1 DEF StopInv, Alive
    <2> QED BY <2>3, <2>4, <2>5, <2>6, <2>7 DEF JobInv
<1> QED BY <1>3, <1>5, <1>6, <1>7 DEF Inv

(* /stop sets cancelled under the lock, so at no moment of a launch.         *)
LEMMA StopCancelsKeeps ==
    ASSUME Inv, NEW u \in Users, StopCancels(u)
    PROVE  Inv'
<1>0. None \notin JobIds /\ "poll" \notin JobIds BY PlaybackAssumption
<1>1. PICK j \in JobIds : j = jobs[u] BY DEF StopCancels, Inv, TypeOK
<1>2. /\ poll.step = "idle"
      /\ lock = None
      /\ cancelled' = [cancelled EXCEPT ![j] = TRUE]
      /\ lock' = "poll"
      /\ poll' = [Idle EXCEPT !.step = "stopping", !.job = j]
      /\ UNCHANGED <<jobs, owner, process, child, files, attempt, pc>>
    BY <1>1 DEF StopCancels
<1>3. poll' \in PollRecords /\ poll'.step = "stopping" /\ poll'.job = j
    BY <1>1, <1>2 DEF Idle, PollRecords, PollSteps
<1>4. cancelled' \in [JobIds -> BOOLEAN]
    BY <1>2, Zenon DEF Inv, TypeOK
<1>5. TypeOK' BY <1>2, <1>3, <1>4 DEF Inv, TypeOK, PollRecords
<1>6. PollInv' BY <1>1, <1>2, <1>3 DEF PollInv
<1>7. ASSUME NEW k \in JobIds \ {j} PROVE JobInv(k)'
    <2>1. Apart(k) BY <1>0, <1>2 DEF Inv, TypeOK, Apart
    <2>2. StopApart(k) BY <1>2 DEF StopApart, Serving, StopUnderWay
    <2> QED BY <2>1, <2>2, ElsewhereKeeps DEF Inv
<1>8. JobInv(j)'
    <2>1. JobInv(j) BY <1>1 DEF Inv
    <2>2. SlotInv(j)' BY <1>2, <2>1 DEF JobInv, SlotInv
    <2>3. pc[j] \notin {"launching", "launched"} BY <1>0, <1>1, <1>2, <2>1 DEF JobInv, LockInv
    <2>4. LockInv(j)' BY <1>0, <1>1, <1>2, <2>3 DEF LockInv
    <2>5. ChildInv(j)' BY <1>2, <2>1 DEF JobInv, ChildInv, Alive
    <2>6. FilesInv(j)' BY <1>2, <2>1 DEF JobInv, FilesInv
    <2>7. StopInv(j)'
        BY <1>2, <1>3, <2>1, <2>3 DEF JobInv, StopInv, Serving, StopUnderWay
    <2> QED BY <2>2, <2>4, <2>5, <2>6, <2>7 DEF JobInv
<1> QED BY <1>1, <1>5, <1>6, <1>7, <1>8 DEF Inv

(* _stop reads job.process: ffmpeg while _play waits for it, the script from *)
(* the end of the launch on.  So it sees what runs, unless a converter has   *)
(* been spawned and not assigned yet.                                        *)
LEMMA StopReadsKeeps ==
    ASSUME Inv, StopReads
    PROVE  Inv'
<1>0. "poll" \notin JobIds /\ None \notin JobIds BY PlaybackAssumption
<1>1. PICK j \in JobIds : j = poll.job /\ lock = "poll" BY DEF StopReads, Inv, PollInv
<1>2. /\ poll.step = "stopping"
      /\ lock' = None
      /\ poll' = [poll EXCEPT !.step = "signal", !.process = process[j]]
      /\ UNCHANGED <<jobs, owner, cancelled, process, child, files, attempt, pc>>
    BY <1>1 DEF StopReads
<1>3. process[j] \in Children \cup {None} /\ poll \in PollRecords
    BY <1>1 DEF Inv, TypeOK, PollRecords
<1>4. /\ poll' \in PollRecords /\ poll'.step = "signal"
      /\ poll'.job = j /\ poll'.process = process[j]
    BY <1>1, <1>2, <1>3 DEF PollRecords, PollSteps
<1>5. TypeOK' BY <1>2, <1>4 DEF Inv, TypeOK, PollRecords
<1>6. PollInv' BY <1>1, <1>4 DEF PollInv
<1>7. ASSUME NEW k \in JobIds \ {j} PROVE JobInv(k)'
    <2>1. Apart(k) BY <1>0, <1>1, <1>2 DEF Inv, TypeOK, Apart
    <2>2. ~ StopUnderWay(k) BY <1>1, <1>7 DEF StopUnderWay
    <2>3. StopApart(k) BY <1>2, <2>2 DEF StopApart, Serving
    <2> QED BY <2>1, <2>3, ElsewhereKeeps DEF Inv
<1>8. JobInv(j)'
    <2>1. JobInv(j) BY <1>1 DEF Inv
    <2>2. SlotInv(j)' BY <1>2, <2>1 DEF JobInv, SlotInv
    <2>3. pc[j] \notin {"launching", "launched"} BY <1>0, <1>1, <2>1 DEF JobInv, LockInv
    <2>4. LockInv(j)' BY <1>0, <1>1, <1>2, <2>3 DEF LockInv
    <2>5. ChildInv(j)' BY <1>2, <2>1 DEF JobInv, ChildInv, Alive
    <2>6. FilesInv(j)' BY <1>2, <2>1 DEF JobInv, FilesInv
    <2>7. StopInv(j)'
        <3>1. Serving /\ pc[j] # "killed" BY <1>2, <2>1 DEF Serving, JobInv, StopInv
        <3>2. StopUnderWay(j)' BY <1>4 DEF StopUnderWay
        <3>3. child[j]["script"] = "running" => process[j] = "script"
            BY <2>1, <2>3, <3>1 DEF JobInv, ChildInv
        <3>4. child[j]["ffmpeg"] = "running" =>
                  pc[j] \in {"spawned", "assigned"} \/ process[j] = "ffmpeg"
            BY <2>1, <3>1 DEF JobInv, ChildInv, Alive
        <3> QED BY <1>2, <1>4, <2>3, <3>1, <3>2, <3>3, <3>4 DEF StopInv
    <2> QED BY <2>2, <2>4, <2>5, <2>6, <2>7 DEF JobInv
<1> QED BY <1>1, <1>5, <1>6, <1>7, <1>8 DEF Inv

(* A signal to a job changes nothing the invariant says of it outside        *)
(* StopInv.                                                                  *)
LEMMA SignalKeepsQuiet ==
    ASSUME Inv, NEW j \in JobIds, NEW c \in Children \cup {None},
           child' = Interrupted(j, c),
           UNCHANGED <<jobs, owner, cancelled, process, files, attempt, pc, lock>>
    PROVE  /\ SlotInv(j)' /\ LockInv(j)' /\ ChildInv(j)' /\ FilesInv(j)'
           /\ \A k \in JobIds \ {j} : Apart(k)
           /\ poll' \in PollRecords => TypeOK'
           /\ \A d \in Children :
                  child'[j][d] = "running" <=> child[j][d] = "running" /\ d # c
<1>0. "ffmpeg" \in Children /\ "script" \in Children /\ TypeOK /\ JobInv(j)
    BY DEF Inv, Children
<1>1. /\ child' \in [JobIds -> [Children -> {"none", "running", "interrupted", "ended"}]]
      /\ \A k \in JobIds \ {j} : child'[k] = child[k]
      /\ \A d \in Children :
             /\ child'[j][d] = "running" <=> child[j][d] = "running" /\ d # c
             /\ child'[j][d] = "none" <=> child[j][d] = "none"
             /\ child'[j][d] \in {"running", "interrupted"} <=> Alive(j, d)
    BY <1>0, InterruptedSpec
<1>2. SlotInv(j)' /\ LockInv(j)' /\ FilesInv(j)' BY <1>0 DEF JobInv, SlotInv, LockInv, FilesInv
<1>3. ChildInv(j)' BY <1>0, <1>1 DEF JobInv, ChildInv, Alive
<1>4. \A k \in JobIds \ {j} : Apart(k) BY <1>1 DEF Apart
<1>5. poll' \in PollRecords => TypeOK' BY <1>0, <1>1 DEF TypeOK, PollRecords
<1> QED BY <1>1, <1>2, <1>3, <1>4, <1>5

LEMMA StopSignalsKeeps ==
    ASSUME Inv, StopSignals
    PROVE  Inv'
<1>1. PICK j \in JobIds, c \in Children \cup {None} : j = poll.job /\ c = poll.process
    BY DEF StopSignals, Inv, PollInv, TypeOK
<1>2. /\ poll.step = "signal"
      /\ child' = Interrupted(j, c)
      /\ poll' = Idle
      /\ UNCHANGED <<jobs, owner, cancelled, process, files, attempt, pc, lock>>
    BY <1>1 DEF StopSignals
<1>3. poll' \in PollRecords /\ poll'.step = "idle" BY <1>2, IdleType DEF Idle
<1>4. PollInv' BY <1>3 DEF PollInv
<1>5. /\ SlotInv(j)' /\ LockInv(j)' /\ ChildInv(j)' /\ FilesInv(j)'
      /\ \A k \in JobIds \ {j} : Apart(k)
      /\ TypeOK'
      /\ \A d \in Children :
             child'[j][d] = "running" <=> child[j][d] = "running" /\ d # c
    BY <1>1, <1>2, <1>3, SignalKeepsQuiet
<1>6. ASSUME NEW k \in JobIds \ {j} PROVE JobInv(k)'
    <2>1. ~ StopUnderWay(k) BY <1>1, <1>6 DEF StopUnderWay
    <2>2. StopApart(k) BY <1>2, <2>1 DEF StopApart, Serving
    <2> QED BY <1>5, <2>2, ElsewhereKeeps DEF Inv
<1>7. StopInv(j)'
    <2>0. "ffmpeg" \in Children /\ "script" \in Children BY DEF Children
    <2>1. StopInv(j) /\ Serving BY <1>1, <1>2 DEF Inv, JobInv, Serving
    <2>2. cancelled[j] => child'[j]["script"] # "running"
        BY <1>1, <1>2, <1>5, <2>0, <2>1 DEF StopInv
    <2>3. cancelled[j] /\ child'[j]["ffmpeg"] = "running" => pc[j] \in {"spawned", "assigned"}
        BY <1>1, <1>2, <1>5, <2>0, <2>1 DEF StopInv
    <2> QED BY <1>2, <2>1, <2>2, <2>3 DEF StopInv
<1> QED BY <1>1, <1>4, <1>5, <1>6, <1>7 DEF Inv, JobInv

-----------------------------------------------------------------------------
(* The shutdown: no promise about /stop is left, the rest stays.             *)

(* A job's slot, lock, children and files do not look at cancelled.          *)
LEMMA ShutdownStepKeeps ==
    ASSUME Inv, NEW j \in JobIds, ShutdownCancels(j) \/ ShutdownLooks(j) \/ ShutdownSignals(j)
    PROVE  Inv'
<1>1. poll.step = "listed" /\ poll \in PollRecords /\ process[j] \in Children \cup {None}
    BY DEF ShutdownCancels, ShutdownLooks, ShutdownSignals, Inv, TypeOK, PollRecords
<1>2. poll' \in PollRecords /\ poll'.step = "listed"
    BY <1>1 DEF ShutdownCancels, ShutdownLooks, ShutdownSignals, PollRecords
<1>3. ~ Serving' BY <1>2 DEF Serving
<1>4. PollInv' BY <1>2 DEF PollInv
<1>5. \A k \in JobIds : StopApart(k) /\ StopInv(k)' BY <1>3 DEF StopApart, StopInv
<1>6. CASE ShutdownCancels(j)
    <2>1. /\ cancelled' = [cancelled EXCEPT ![j] = TRUE]
          /\ UNCHANGED <<jobs, owner, process, child, files, attempt, pc, lock>>
        BY <1>6 DEF ShutdownCancels
    <2>2. cancelled' \in [JobIds -> BOOLEAN] BY <2>1, Zenon DEF Inv, TypeOK
    <2>3. TypeOK' BY <1>2, <2>1, <2>2 DEF Inv, TypeOK, PollRecords
    <2>4. ASSUME NEW k \in JobIds PROVE JobInv(k)'
        <3>1. JobInv(k) BY DEF Inv
        <3>2. SlotInv(k)' /\ LockInv(k)' /\ FilesInv(k)'
            BY <2>1, <3>1 DEF JobInv, SlotInv, LockInv, FilesInv
        <3>3. ChildInv(k)' BY <2>1, <3>1 DEF JobInv, ChildInv, Alive
        <3> QED BY <1>5, <3>2, <3>3 DEF JobInv
    <2> QED BY <1>4, <2>3, <2>4 DEF Inv
<1>7. CASE ShutdownLooks(j)
    BY <1>2, <1>4, <1>5, <1>7, PollMoves DEF ShutdownLooks
<1>8. CASE ShutdownSignals(j)
    <2>1. /\ child' = Interrupted(j, process[j])
          /\ UNCHANGED <<jobs, owner, cancelled, process, files, attempt, pc, lock>>
        BY <1>8 DEF ShutdownSignals
    <2>2. /\ SlotInv(j)' /\ LockInv(j)' /\ ChildInv(j)' /\ FilesInv(j)'
          /\ \A k \in JobIds \ {j} : Apart(k)
          /\ TypeOK'
        BY <1>1, <1>2, <2>1, SignalKeepsQuiet
    <2>3. ASSUME NEW k \in JobIds \ {j} PROVE JobInv(k)'
        BY <1>5, <2>2, ElsewhereKeeps DEF Inv
    <2> QED BY <1>4, <1>5, <2>2, <2>3 DEF Inv, JobInv
<1> QED BY <1>6, <1>7, <1>8

LEMMA ShutdownListsKeeps ==
    ASSUME Inv, ShutdownLists
    PROVE  Inv'
<1>1. {jobs[u] : u \in {v \in Users : jobs[v] # None}} \in SUBSET JobIds
    BY DEF Inv, TypeOK
<1>2. poll' \in PollRecords /\ poll'.step = "listed"
    BY <1>1 DEF ShutdownLists, Idle, PollRecords, PollSteps
<1>3. ~ Serving' BY <1>2 DEF Serving
<1>4. PollInv' BY <1>2 DEF PollInv
<1>5. \A k \in JobIds : StopApart(k) BY <1>3 DEF StopApart
<1> QED BY <1>2, <1>4, <1>5, PollMoves DEF ShutdownLists

(* The interpreter ends: threads are killed where they are, and a job that   *)
(* was popped before has left nothing.                                       *)
LEMMA InterpreterEndsKeeps ==
    ASSUME Inv, InterpreterEnds
    PROVE  Inv'
<1>0. None \notin JobIds BY PlaybackAssumption
<1>1. /\ poll' = [Idle EXCEPT !.step = "exited"]
      /\ pc' = [j \in JobIds |-> IF pc[j] \in {"none", "done", "lost"} THEN pc[j] ELSE "killed"]
      /\ lock' = None
      /\ UNCHANGED <<jobs, owner, cancelled, process, child, files, attempt>>
    BY DEF InterpreterEnds
<1>2. poll' \in PollRecords /\ poll'.step = "exited"
    BY <1>1 DEF Idle, PollRecords, PollSteps
<1>3. TypeOK'
    <2>1. pc' \in [JobIds -> PlaySteps] BY <1>1 DEF Inv, TypeOK, PlaySteps
    <2> QED BY <1>1, <1>2, <2>1 DEF Inv, TypeOK, PollRecords
<1>4. PollInv' BY <1>2 DEF PollInv
<1>5. ASSUME NEW j \in JobIds PROVE JobInv(j)'
    <2>1. JobInv(j) BY DEF Inv
    <2>2. pc'[j] = IF pc[j] \in {"none", "done", "lost"} THEN pc[j] ELSE "killed" BY <1>1
    <2>3. SlotInv(j)' BY <1>1, <2>1, <2>2 DEF JobInv, SlotInv
    <2>4. LockInv(j)' BY <1>0, <1>1, <2>2 DEF LockInv
    <2>5. ChildInv(j)' BY <1>1, <2>1, <2>2 DEF JobInv, ChildInv, Alive, BeforeScript
    <2>6. FilesInv(j)' BY <1>1, <2>1, <2>2 DEF JobInv, FilesInv
    <2>7. StopInv(j)' BY <1>2 DEF StopInv, Serving
    <2> QED BY <2>3, <2>4, <2>5, <2>6, <2>7 DEF JobInv
<1> QED BY <1>3, <1>4, <1>5 DEF Inv

LEMMA PollStepKeeps ==
    ASSUME Inv, PollStep
    PROVE  Inv'
<1>1. ASSUME NEW j \in JobIds, ShutdownStep(j) PROVE Inv'
    BY <1>1, ShutdownStepKeeps, InterpreterEndsKeeps DEF ShutdownStep, ShutdownBreaks
<1>2. CASE Exit BY <1>2, InterpreterEndsKeeps DEF Exit
<1> QED BY <1>1, <1>2, StopReadsKeeps, StopSignalsKeeps DEF PollStep

-----------------------------------------------------------------------------
(* The invariant, and what it says.                                          *)

LEMMA InitInv == Init => Inv
<1> SUFFICES ASSUME Init PROVE Inv OBVIOUS
<1>0. None \notin JobIds /\ None \notin Users /\ Attempts \in Nat \ {0} BY PlaybackAssumption
<1>1. poll \in PollRecords /\ poll.step = "idle" BY IdleType DEF Init, Idle
<1>2. TypeOK BY <1>0, <1>1 DEF Init, TypeOK, PollRecords, PlaySteps
<1>3. PollInv BY <1>1 DEF PollInv
<1>4. ASSUME NEW j \in JobIds PROVE JobInv(j)
    <2>1. /\ pc[j] = "none" /\ owner[j] = None /\ lock = None
          /\ child[j]["script"] = "none" /\ child[j]["ffmpeg"] = "none"
          /\ \A u \in Users : jobs[u] = None
        BY DEF Init, Children
    <2>2. SlotInv(j) /\ LockInv(j) BY <1>0, <2>1 DEF SlotInv, LockInv
    <2>3. ChildInv(j) /\ FilesInv(j) /\ StopInv(j)
        BY <2>1 DEF ChildInv, Alive, FilesInv, StopInv
    <2> QED BY <2>2, <2>3 DEF JobInv
<1> QED BY <1>2, <1>3, <1>4 DEF Inv

LEMMA NextInv == Inv /\ [Next]_vars => Inv'
<1> SUFFICES ASSUME Inv, [Next]_vars PROVE Inv' OBVIOUS
<1>1. CASE \E u \in Users : MediaAdmitted(u) \/ StopCancels(u)
    BY <1>1, MediaAdmittedKeeps, StopCancelsKeeps
<1>2. CASE \E j \in JobIds : MediaStarts(j) \/ MediaStartFails(j) \/ PlayStep(j)
    BY <1>2, EnterKeeps, PlayStepKeeps DEF MediaStarts, MediaStartFails
<1>3. CASE \E j \in JobIds, c \in Children : ChildEnds(j, c)
    BY <1>3, ChildEndsKeeps
<1>4. CASE ShutdownLists BY <1>4, ShutdownListsKeeps
<1>5. CASE PollStep BY <1>5, PollStepKeeps
<1>6. CASE UNCHANGED vars
    <2>1. /\ poll' = poll
          /\ UNCHANGED <<jobs, owner, cancelled, process, child, files, attempt, pc, lock>>
        BY <1>6 DEF vars
    <2>2. poll' \in PollRecords BY <2>1 DEF Inv, TypeOK, PollRecords
    <2>3. PollInv' BY <2>1 DEF Inv, PollInv
    <2>4. \A k \in JobIds : StopApart(k) BY <2>1 DEF StopApart, Serving, StopUnderWay
    <2> QED BY <2>1, <2>2, <2>3, <2>4, PollMoves
<1> QED BY <1>1, <1>2, <1>3, <1>4, <1>5, <1>6 DEF Next

LEMMA InvAlways == Spec => []Inv
BY InitInv, NextInv, PTL DEF Spec

(* The types of what the polling thread and the _play threads share.         *)
THEOREM TypesHold == Spec => []TypeOK
<1>1. Inv => TypeOK BY DEF Inv
<1> QED BY <1>1, InvAlways, PTL

(* handle_message looks for an active job and enters the new one under two   *)
(* separate holds of the lock, and the finally clause of _play leaves under  *)
(* a third: still a user's slot is taken exactly as long as the job works,   *)
(* or, when its thread could not be started or ended in the finally clause,  *)
(* as long as the bot runs.                                                  *)
THEOREM OneJobForEachUser == Spec => []OneJobPerUser
<1>1. Inv => OneJobPerUser
    <2> SUFFICES ASSUME Inv, NEW j \in JobIds, NEW u \in Users
                 PROVE  jobs[u] = j <=>
                            owner[j] = u /\ (Working(j) \/ pc[j] \in {"lost", "killed"})
        BY DEF OneJobPerUser
    <2> QED BY DEF Inv, JobInv, SlotInv, Working
<1> QED BY <1>1, InvAlways, PTL

(* Once _stop has been carried out nothing of the job goes on or starts,     *)
(* although job.process is written without the lock for the converter:       *)
(* either _stop reads it or _prepare_audio sees that the job was cancelled.  *)
THEOREM StopIsNeverMissed == Spec => []StopReachesProcesses
<1>1. Inv => StopReachesProcesses
    <2> SUFFICES ASSUME Inv, Serving, NEW j \in JobIds, cancelled[j]
                 PROVE  /\ child[j]["script"] = "running" => StopUnderWay(j)
                        /\ child[j]["ffmpeg"] = "running" =>
                               StopUnderWay(j) \/ pc[j] \in {"spawned", "assigned"}
        BY DEF StopReachesProcesses
    <2> QED BY DEF Inv, JobInv, StopInv
<1> QED BY <1>1, InvAlways, PTL

(* However _play ends, its files are gone and no converter of it is alive    *)
(* when the slot is free again.                                              *)
THEOREM EndedJobsAreClean == Spec => []NothingLeftBehind
<1>1. Inv => NothingLeftBehind
    <2> SUFFICES ASSUME Inv, NEW j \in JobIds, pc[j] = "done"
                 PROVE  files[j] = {} /\ ~ Alive(j, "ffmpeg")
        BY DEF NothingLeftBehind
    <2> QED BY DEF Inv, JobInv, FilesInv, ChildInv
<1> QED BY <1>1, InvAlways, PTL
=============================================================================

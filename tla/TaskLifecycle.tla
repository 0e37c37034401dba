---------------------------- MODULE TaskLifecycle ----------------------------
(***************************************************************************)
(* What the bot API promises about tasks (docs/bot_worker_api.md): a task  *)
(* is created, goes forward through the phases it reports, and ends in one *)
(* terminal state, which is final; only one task is open at a time.        *)
(***************************************************************************)
EXTENDS Integers, Sequences

CONSTANTS
    TaskIds,    \* the tasks there can be
    Phases,     \* the phases, in order
    Final       \* the terminal states

VARIABLE status     \* "absent" before the task exists, then its state

Open == {t \in TaskIds : status[t] # "absent" /\ status[t] \notin Final}

Init == status = [t \in TaskIds |-> "absent"]

Submit(t) == /\ Open = {}
             /\ status[t] = "absent"
             /\ status' = [status EXCEPT ![t] = "created"]

(* Any later phase: phases may be skipped, never repeated or undone.         *)
Progress(t) == /\ t \in Open
               /\ \E i \in 1 .. Len(Phases) :
                      /\ \A j \in i .. Len(Phases) : status[t] # Phases[j]
                      /\ status' = [status EXCEPT ![t] = Phases[i]]

End(t) == /\ t \in Open
          /\ \E s \in Final : status' = [status EXCEPT ![t] = s]

Next == \E t \in TaskIds : Submit(t) \/ Progress(t) \/ End(t)

Spec == Init /\ [][Next]_status
=============================================================================

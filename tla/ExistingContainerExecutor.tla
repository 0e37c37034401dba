--------------------- MODULE ExistingContainerExecutor ----------------------
(***************************************************************************)
(* ExistingContainerExecutor of src/bo_vpn_agent/                          *)
(* existing_container_executor.py: commands run one after the other in the *)
(* network namespace of a container somebody else keeps.  That container   *)
(* can be started again between two of them, which kills the process whose *)
(* namespace is entered, and its tunnel can come and go.                   *)
(***************************************************************************)
EXTENDS Integers, FiniteSets

CONSTANTS
    JobIds,             \* the jobs executors are made for
    MaxIncarnation      \* how often the container is started

Ports == {22, 443, 80}                                  \* TCP_PORTS
NoPid == 0

VARIABLES
    step,           \* the command each executor comes to next
    pid,            \* container_pid: the incarnation it found
    verdict,        \* how run ended: "ok", the code of its RunnerFailure, "raised"
                    \* for any other exception, or none
    routeSeen,      \* ghost: the incarnation the required route was seen in
    ranIn,          \* ghost: the incarnation the operation was run in
    container,      \* the incarnation of the container
    tunnel          \* cnem_vnic: absent, present, or present with its route

execVars == <<step, pid, verdict, routeSeen, ranIn>>
worldVars == <<container, tunnel>>
vars == <<execVars, worldVars>>

Incarnations == 0 .. MaxIncarnation
ExecutorSteps == {"idle", "inspect", "addr", "routes", "operate", "done"}
Verdicts == {"none", "ok", "raised", "operation_timeout", "vpn_client_error", "vehicle_unreachable",
             "ssh_failed", "operation_not_allowed"}

Init == /\ step = [j \in JobIds |-> "idle"]
        /\ pid = [j \in JobIds |-> NoPid]
        /\ verdict = [j \in JobIds |-> "none"]
        /\ routeSeen = [j \in JobIds |-> NoPid]
        /\ ranIn = [j \in JobIds |-> NoPid]
        /\ container = 1
        /\ tunnel \in {"absent", "present", "routed"}

Goto(j, s) == step' = [step EXCEPT ![j] = s]

(* raise RunnerFailure, or return.                                           *)
End(j, v) == Goto(j, "done") /\ verdict' = [verdict EXCEPT ![j] = v]

(* nsenter of a process that is gone fails.                                  *)
Entered(j) == pid[j] = container

-----------------------------------------------------------------------------
(* The executor.  Any command may exceed its timeout, and docker and nsenter *)
(* may fail for reasons of their own (no permission).  Which operation the   *)
(* task asks for shows when run comes to it.                                 *)

Begin(j) ==
    /\ step[j] = "idle"
    /\ Goto(j, "inspect")
    /\ UNCHANGED <<pid, verdict, routeSeen, ranIn, worldVars>>

(* A command does not do what it was run for or takes too long, in a live    *)
(* namespace as well; or it cannot be run at all or its output not be read,  *)
(* which nothing here catches.                                               *)
CommandFails(j) ==
    /\ step[j] \in {"inspect", "addr", "routes", "operate"}
    /\ \E v \in {"vpn_client_error", "operation_timeout", "raised"} : End(j, v)
    /\ UNCHANGED <<pid, routeSeen, ranIn, worldVars>>

(* _container_pid: docker inspect of a container that runs.                  *)
FindContainer(j) ==
    /\ step[j] = "inspect"
    /\ Goto(j, "addr")
    /\ pid' = [pid EXCEPT ![j] = container]
    /\ UNCHANGED <<verdict, routeSeen, ranIn, worldVars>>

(* _preflight: the interface, then its routes.                               *)
SeeInterface(j) ==
    /\ step[j] = "addr"
    /\ Entered(j)
    /\ tunnel # "absent"
    /\ Goto(j, "routes")
    /\ UNCHANGED <<pid, verdict, routeSeen, ranIn, worldVars>>

SeeRoute(j) ==
    /\ step[j] = "routes"
    /\ Entered(j)
    /\ tunnel = "routed"
    /\ Goto(j, "operate")
    /\ routeSeen' = [routeSeen EXCEPT ![j] = container]
    /\ UNCHANGED <<pid, verdict, ranIn, worldVars>>

RefuseOperation(j) ==
    /\ step[j] = "operate"
    /\ End(j, "operation_not_allowed")
    /\ UNCHANGED <<pid, routeSeen, ranIn, worldVars>>

(* Ports that answer; without the route none does.                           *)
OpenPorts == {open \in SUBSET Ports : open # {} => tunnel = "routed"}

(* Variant for mutation: the container is looked up anew for the probe.      *)
ReachabilityAnew(j) ==
    /\ step[j] = "operate"
    /\ \E open \in OpenPorts :
          End(j, IF {22, 443} \cap open = {} THEN "vehicle_unreachable" ELSE "ok")
    /\ ranIn' = [ranIn EXCEPT ![j] = container]
    /\ UNCHANGED <<pid, routeSeen, worldVars>>

(* _vehicle_reachability: the probe runs in the namespace of the process     *)
(* that was found first; 22 and 443 decide.                                  *)
Reachability(j) ==
    /\ step[j] = "operate"
    /\ \E open \in OpenPorts :
          IF ~ Entered(j) THEN End(j, "vpn_client_error") /\ UNCHANGED ranIn
          ELSE /\ End(j, IF {22, 443} \cap open = {} THEN "vehicle_unreachable" ELSE "ok")
               /\ ranIn' = [ranIn EXCEPT ![j] = container]
    /\ UNCHANGED <<pid, routeSeen, worldVars>>

(* _basic_status: no key, no namespace and no answer are all ssh_failed.     *)
BasicStatus(j) ==
    /\ step[j] = "operate"
    /\ \/ End(j, "ssh_failed") /\ UNCHANGED ranIn
       \/ /\ Entered(j) /\ tunnel = "routed"
          /\ End(j, "ok")
          /\ ranIn' = [ranIn EXCEPT ![j] = container]
    /\ UNCHANGED <<pid, routeSeen, worldVars>>

ExecutorStep(j) == \/ CommandFails(j)
                   \/ FindContainer(j)
                   \/ SeeInterface(j)
                   \/ SeeRoute(j)
                   \/ RefuseOperation(j)
                   \/ Reachability(j)
                   \/ BasicStatus(j)

-----------------------------------------------------------------------------
(* The container, which the code does not control.  What it does matters     *)
(* while some executor works.                                                *)

Watched == \E j \in JobIds : step[j] \notin {"idle", "done"}

(* While it is down the commands above fail, as they may at any time.        *)
ContainerRestarts ==
    /\ container < MaxIncarnation
    /\ container' = container + 1
    /\ tunnel' = "absent"
    /\ UNCHANGED execVars

TunnelChanges ==
    /\ tunnel' \in {"absent", "present", "routed"} \ {tunnel}
    /\ UNCHANGED <<execVars, container>>

WorldStep == Watched /\ (ContainerRestarts \/ TunnelChanges)

-----------------------------------------------------------------------------
(* existing_container_executor.py:25-32, 124-134: whatever the container     *)
(* does between two commands, a verdict about the vehicle comes from an      *)
(* operation that ran in the very incarnation of the container in which the  *)
(* preflight saw the route.                                                  *)
VerdictFromCheckedNamespace ==
    \A j \in JobIds :
        verdict[j] \in {"ok", "vehicle_unreachable"} =>
            ranIn[j] # NoPid /\ ranIn[j] = routeSeen[j]
=============================================================================

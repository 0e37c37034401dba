------------------------- MODULE NamespaceExecutor -------------------------
(***************************************************************************)
(* ContainerNamespaceExecutor.run: one runner thread of the runner daemon  *)
(* checks the UniVPN session of the shared network namespace, logs in      *)
(* through the control FIFO if it may, runs one operation against the      *)
(* vehicle and, if it is told to, disconnects.  create_job starts a thread *)
(* for every request, so several jobs share the one tunnel, the one FIFO   *)
(* and the one UniVPN menu.                                                *)
(*                                                                         *)
(* The UniVPN client (the reader of the FIFO, its menu, the interface and  *)
(* the route) is not part of the repository: it is modelled from what the  *)
(* login sequence and the preflight expect of it.                          *)
(***************************************************************************)
EXTENDS Naturals, Sequences

CONSTANTS
    Jobs,           \* the runner threads of container_namespace jobs
    MaxRestarts     \* bound: restarts of the UniVPN container

ASSUME NamespaceAssumption == MaxRestarts \in Nat

VARIABLES
    config,     \* manage_vpn_session, stop_vpn_after_task, a disconnect sequence
    pc,         \* where each runner thread is
    waiting,    \* it has logged in and polls for the session
    late,       \* its login deadline has passed
    outcome,    \* "finished", what it failed with, or "none"
    warned,     \* its RunnerResult carries a cleanup warning
    cleanups,   \* how often its cleanup hook has run
    sent,       \* the lines it has written to the control path
    seenUp,     \* the session was complete when its preflight succeeded
    tunnel,     \* "down", "iface" (interface without route) or "up"
    fifo,       \* the lines the client has not read
    prompt,     \* what the client's menu is waiting for
    reading,    \* the client has the FIFO open
    restarts,   \* restarts of the client so far
    misread,    \* a credential was read at another prompt than its own
    disturbed   \* something disturbed a login (see LoginUndisturbed)

jobVars == <<pc, waiting, late, outcome, warned, cleanups, sent, seenUp>>
clientVars == <<tunnel, prompt, reading, restarts, misread>>
vars == <<config, jobVars, fifo, clientVars, disturbed>>

Configs == [manage : BOOLEAN, stop : BOOLEAN, sequence : BOOLEAN]

Steps == {"idle", "addr", "route", "login", "deadline", "operation", "cleanup", "done"}

\* The lines _login writes, in the order it writes them.
LoginScript == <<"profile", "connect", "username", "password">>

Lines == {"profile", "connect", "username", "password", "disconnect"}

Prompts == {"profile", "connect", "username", "password", "dialing", "online"}

\* Those of a RunnerFailure, and "raised" for any other exception.
ErrorCodes == {"operation_timeout", "vpn_client_error", "operation_not_allowed",
               "vehicle_unreachable", "ssh_failed", "raised"}

Started(j) == pc[j] # "idle"
Running(j) == Started(j) /\ pc[j] # "done"

(* Every variable holds a value of its kind; a job writes one login and one  *)
(* disconnect sequence at most (_login, _cleanup).                           *)
TypeOK ==
    /\ config \in Configs
    /\ pc \in [Jobs -> Steps]
    /\ waiting \in [Jobs -> BOOLEAN]
    /\ late \in [Jobs -> BOOLEAN]
    /\ outcome \in [Jobs -> ErrorCodes \cup {"none", "finished"}]
    /\ warned \in [Jobs -> BOOLEAN]
    /\ cleanups \in [Jobs -> Nat]
    /\ \A j \in Jobs : sent[j] \in Seq(Lines) /\ Len(sent[j]) <= Len(LoginScript) + 1
    /\ seenUp \in [Jobs -> BOOLEAN]
    /\ tunnel \in {"down", "iface", "up"}
    /\ fifo \in Seq(Lines)
    /\ prompt \in Prompts
    /\ reading \in BOOLEAN
    /\ restarts \in 0..MaxRestarts
    /\ misread \in BOOLEAN
    /\ disturbed \in BOOLEAN

Init ==
    /\ config \in Configs
    /\ pc = [j \in Jobs |-> "idle"]
    /\ waiting = [j \in Jobs |-> FALSE]
    /\ late = [j \in Jobs |-> FALSE]
    /\ outcome = [j \in Jobs |-> "none"]
    /\ warned = [j \in Jobs |-> FALSE]
    /\ cleanups = [j \in Jobs |-> 0]
    /\ sent = [j \in Jobs |-> <<>>]
    /\ seenUp = [j \in Jobs |-> FALSE]
    /\ \/ tunnel = "down" /\ prompt = "profile"
       \/ tunnel = "up" /\ prompt = "online"
    /\ fifo = <<>>
    /\ reading = TRUE
    /\ restarts = 0
    /\ misread = FALSE
    /\ disturbed = FALSE

-----------------------------------------------------------------------------
(* The steps of run.  Whatever ends the body, the finally block follows.   *)

Goto(j, step) == pc' = [pc EXCEPT ![j] = step]

\* Variant for mutation: the cleanup hook is called at the end of the try
\* body, so a failure skips it.
CompleteAtOnce(j, code) ==
    /\ outcome' = [outcome EXCEPT ![j] = code]
    /\ Goto(j, IF code = "finished" THEN "cleanup" ELSE "done")

\* The body of the try is left, by a return or by an exception.
Complete(j, code) ==
    /\ outcome' = [outcome EXCEPT ![j] = code]
    /\ Goto(j, "cleanup")

\* Variable disturbed only serves LoginUndisturbed: a job that fails having
\* begun a login leaves the client somewhere in its menu, or dialling.
GivesUp(j) == disturbed' = (disturbed \/ sent[j] # <<>>)

\* Nothing of the job changes but pc and outcome.
Elsewhere(j) == UNCHANGED <<waiting, late, warned, cleanups, sent, seenUp>>

Start(j) ==
    /\ pc[j] = "idle"
    /\ Goto(j, "addr")
    /\ disturbed' = (disturbed \/ \E k \in Jobs \ {j} : Running(k))
    /\ UNCHANGED <<config, outcome, fifo, clientVars>> /\ Elsewhere(j)

\* _is_connected returned False: at the first check without a managed session
\* the job fails, otherwise it logs in; in the polling loop it looks at the
\* deadline.
NotConnected(j) ==
    IF waiting[j]
    THEN Goto(j, "deadline") /\ UNCHANGED outcome
    ELSE IF config.manage
         THEN Goto(j, "login") /\ UNCHANGED outcome
         ELSE Complete(j, "vpn_client_error")

\* `ip addr show`: an overrun fails the job, and so does a command that cannot
\* be run or an answer that cannot be decoded, here and below; an error or an
\* empty answer means no interface.
ShowAddress(j) ==
    /\ pc[j] = "addr"
    /\ \/ \E code \in {"operation_timeout", "raised"} : Complete(j, code) /\ GivesUp(j)
       \/ NotConnected(j) /\ disturbed' = (disturbed \/ tunnel # "down")
       \/ tunnel # "down" /\ Goto(j, "route") /\ UNCHANGED <<outcome, disturbed>>
    /\ UNCHANGED <<config, fifo, clientVars>> /\ Elsewhere(j)

\* Variant for mutation: any answer of `ip route` counts as connected.
ShowRoutesBlindly(j) ==
    /\ pc[j] = "route"
    /\ Goto(j, "operation")
    /\ seenUp' = [seenUp EXCEPT ![j] = tunnel = "up"]
    /\ UNCHANGED outcome
    /\ UNCHANGED <<waiting, late, warned, cleanups, sent>>
    /\ UNCHANGED <<config, fifo, clientVars, disturbed>>

\* `ip route`: an overrun or an error fails the job; otherwise the route is in
\* the answer or it is not.
ShowRoutes(j) ==
    /\ pc[j] = "route"
    /\ \/ \E code \in {"operation_timeout", "vpn_client_error", "raised"} :
            Complete(j, code) /\ GivesUp(j) /\ UNCHANGED seenUp
       \/ tunnel # "up" /\ NotConnected(j) /\ UNCHANGED <<seenUp, disturbed>>
       \/ /\ tunnel = "up"
          /\ Goto(j, "operation")
          /\ seenUp' = [seenUp EXCEPT ![j] = TRUE]
          /\ UNCHANGED <<outcome, disturbed>>
    /\ UNCHANGED <<waiting, late, warned, cleanups, sent>>
    /\ UNCHANGED <<config, fifo, clientVars>>

\* _credentials raises before anything is written.
CredentialsMissing(j) ==
    /\ pc[j] = "login"
    /\ sent[j] = <<>>
    /\ \E code \in {"vpn_client_error", "raised"} : Complete(j, code)
    /\ UNCHANGED <<config, fifo, clientVars, disturbed>> /\ Elsewhere(j)

\* Opening the FIFO for writing waits for a reader; the line is then the
\* client's to read.
Write(j, line) ==
    /\ reading
    /\ fifo' = Append(fifo, line)
    /\ sent' = [sent EXCEPT ![j] = Append(@, line)]

\* Variant for mutation: the password is submitted before the username.
WriteLineSwapped(j) ==
    LET n == Len(sent[j]) + 1
        swapped == <<"profile", "connect", "password", "username">>
    IN  /\ pc[j] = "login"
        /\ Write(j, swapped[n])
        /\ waiting' = [waiting EXCEPT ![j] = n = Len(swapped)]
        /\ Goto(j, IF n = Len(swapped) THEN "addr" ELSE "login")
        /\ UNCHANGED <<late, outcome, warned, cleanups, seenUp>>
        /\ UNCHANGED <<config, clientVars, disturbed>>

\* One line of _login and the pause after it; after the last line the job
\* takes its deadline and polls.
WriteLine(j) ==
    LET n == Len(sent[j]) + 1
    IN  /\ pc[j] = "login"
        /\ Write(j, LoginScript[n])
        /\ waiting' = [waiting EXCEPT ![j] = n = Len(LoginScript)]
        /\ Goto(j, IF n = Len(LoginScript) THEN "addr" ELSE "login")
        /\ UNCHANGED <<late, outcome, warned, cleanups, seenUp>>
        /\ UNCHANGED <<config, clientVars, disturbed>>

\* An OSError between two lines, or a line that cannot be encoded, leaves the
\* client in the middle of its menu.
WriteLineFails(j) ==
    /\ pc[j] = "login"
    /\ \E code \in {"vpn_client_error", "raised"} : Complete(j, code)
    /\ GivesUp(j)
    /\ UNCHANGED <<config, fifo, clientVars>> /\ Elsewhere(j)

DeadlinePasses(j) ==
    /\ waiting[j] /\ ~late[j] /\ pc[j] \in {"addr", "route", "deadline"}
    /\ late' = [late EXCEPT ![j] = TRUE]
    /\ UNCHANGED <<config, pc, waiting, outcome, warned, cleanups, sent, seenUp>>
    /\ UNCHANGED <<fifo, clientVars, disturbed>>

\* Variant for mutation: the loop polls without looking at the clock.
CheckDeadlineNever(j) ==
    /\ pc[j] = "deadline"
    /\ Goto(j, "addr")
    /\ UNCHANGED <<config, outcome, fifo, clientVars, disturbed>> /\ Elsewhere(j)

\* The polling loop after a check that failed: give up or sleep and try again.
CheckDeadline(j) ==
    /\ pc[j] = "deadline"
    /\ IF late[j]
       THEN Complete(j, "vpn_client_error") /\ GivesUp(j)
       ELSE Goto(j, "addr") /\ UNCHANGED <<outcome, disturbed>>
    /\ UNCHANGED <<config, fifo, clientVars>> /\ Elsewhere(j)

\* The probe reports a port it cannot reach for any reason as closed, so
\* without a tunnel every port is closed; 22 and 443 decide.
Probe(j) ==
    \/ \E code \in {"operation_timeout", "vpn_client_error"} : Complete(j, code)
    \/ \E open \in SUBSET {22, 443, 80} :
         /\ open # {} => tunnel = "up"
         /\ Complete(j, IF open \cap {22, 443} # {} THEN "finished"
                                                     ELSE "vehicle_unreachable")

\* basic_status: no key, an overrun, ssh's exit status, or its output.
Ssh(j) ==
    \/ \E code \in {"operation_timeout", "ssh_failed"} : Complete(j, code)
    \/ tunnel = "up" /\ Complete(j, "finished")

\* The operation the job was created for; any other one is refused here,
\* after the session is up.
Operation(j) ==
    /\ pc[j] = "operation"
    /\ Probe(j) \/ Ssh(j) \/ \E code \in {"operation_not_allowed", "raised"} : Complete(j, code)
    /\ UNCHANGED <<waiting, late, warned, cleanups, sent, seenUp>>
    /\ UNCHANGED <<config, fifo, clientVars, disturbed>>

\* Variant for mutation: the result was given a copy of the warnings, so what
\* the finally block adds to the list is lost.
WarnCopy(j) == UNCHANGED warned

\* The warning reaches a result that exists: the list it holds is extended.
Warn(j) == warned' = [warned EXCEPT ![j] = outcome[j] = "finished"]

\* _cleanup: nothing to do, the sequence written, or a warning: there is no
\* sequence, or an OSError, which takes no reader (the path is gone).
Cleanup(j) ==
    /\ pc[j] = "cleanup"
    /\ \/ ~config.stop /\ UNCHANGED <<warned, sent, fifo, cleanups>>
       \/ /\ config.stop
          /\ cleanups' = [cleanups EXCEPT ![j] = @ + 1]
          /\ \/ config.sequence /\ Write(j, "disconnect") /\ UNCHANGED warned
             \/ Warn(j) /\ UNCHANGED <<sent, fifo>>
    /\ Goto(j, "done")
    /\ UNCHANGED <<waiting, late, outcome, seenUp>>
    /\ UNCHANGED <<config, clientVars, disturbed>>

-----------------------------------------------------------------------------
(* The UniVPN client: it reads a line only while it is not dialling.  Any  *)
(* line answers a credential prompt; elsewhere an unexpected one is        *)
(* ignored.                                                                *)

Follows(line) ==
    CASE prompt = "profile" /\ line = "profile" -> "connect"
      [] prompt = "connect" /\ line = "connect" -> "username"
      [] prompt = "username" -> "password"
      [] prompt = "password" -> "dialing"
      [] prompt = "online" /\ line = "disconnect" -> "profile"
      [] OTHER -> prompt

ClientReads ==
    /\ reading /\ fifo # <<>> /\ prompt # "dialing"
    /\ LET line == Head(fifo)
       IN  /\ prompt' = Follows(line)
           /\ tunnel' = IF prompt = "online" /\ line = "disconnect" THEN "down" ELSE tunnel
           /\ misread' = (misread \/ (line \in {"username", "password"} /\ line # prompt))
    /\ fifo' = Tail(fifo)
    /\ UNCHANGED <<config, jobVars, reading, restarts, disturbed>>

\* The session comes up, interface first; or the login is rejected.
ClientDials ==
    /\ prompt = "dialing"
    /\ \/ tunnel = "down" /\ tunnel' = "iface" /\ UNCHANGED prompt
       \/ tunnel = "iface" /\ tunnel' = "up" /\ prompt' = "online"
       \/ tunnel' = "down" /\ prompt' = "profile"
    /\ UNCHANGED <<config, jobVars, fifo, reading, restarts, misread, disturbed>>

TunnelDrops ==
    /\ tunnel = "up"
    /\ tunnel' = "down" /\ prompt' = "profile"
    /\ UNCHANGED <<config, jobVars, fifo, reading, restarts, misread, disturbed>>

\* The container goes down and takes the unread lines with it ...
ClientStops ==
    /\ reading /\ restarts < MaxRestarts
    /\ reading' = FALSE
    /\ restarts' = restarts + 1
    /\ tunnel' = "down" /\ prompt' = "profile" /\ fifo' = <<>>
    /\ disturbed' = TRUE
    /\ UNCHANGED <<config, jobVars, misread>>

\* ... and is started again.
ClientStarts ==
    /\ ~reading
    /\ reading' = TRUE
    /\ UNCHANGED <<config, jobVars, fifo, tunnel, prompt, restarts, misread, disturbed>>

-----------------------------------------------------------------------------
JobStep(j) ==
    \/ Start(j) \/ ShowAddress(j) \/ ShowRoutes(j) \/ CredentialsMissing(j)
    \/ WriteLine(j) \/ WriteLineFails(j) \/ CheckDeadline(j)
    \/ Operation(j) \/ Cleanup(j)

ClientStep == ClientReads \/ ClientDials \/ TunnelDrops \/ ClientStops \/ ClientStarts

\* Every job has run and the client has nothing left to do.
Quiet ==
    /\ \A j \in Jobs : pc[j] = "done"
    /\ fifo = <<>> /\ prompt # "dialing" /\ reading
    /\ UNCHANGED vars

Next ==
    \/ \E j \in Jobs : JobStep(j) \/ DeadlinePasses(j)
    \/ ClientStep
    \/ Quiet

Spec == Init /\ [][Next]_vars

\* Without a reader a thread that has a sequence to write is blocked in open:
\* nothing says that an OSError will come.
CleanupUnblocked(j) == Cleanup(j) /\ (config.stop /\ config.sequence => sent'[j] # sent[j])

\* A thread that can step does, a write waits only for a reader, the
\* container is restarted (restart: unless-stopped) and the clock runs.
FairSpec ==
    /\ Spec
    /\ \A j \in Jobs :
         /\ WF_vars(ShowAddress(j)) /\ WF_vars(ShowRoutes(j))
         /\ WF_vars(WriteLine(j)) /\ WF_vars(CheckDeadline(j))
         /\ WF_vars(DeadlinePasses(j))
         /\ WF_vars(Operation(j)) /\ WF_vars(CleanupUnblocked(j))
    /\ WF_vars(ClientStarts)

-----------------------------------------------------------------------------
(* The cleanup hook runs exactly once for every job of a deployment that   *)
(* stops the session after a task, whichever step of run failed, and never *)
(* in one that keeps the session (the finally block of run).               *)
CleanupOnce ==
    \A j \in Jobs : pc[j] = "done" => cleanups[j] = IF config.stop THEN 1 ELSE 0

(* A successful result says whether the session was left up: it carries a  *)
(* warning exactly when the job was to disconnect and has not written the  *)
(* disconnect sequence, although the list is extended after the result was *)
(* built (run, lines 45-55).                                               *)
WarningsTrue ==
    \A j \in Jobs :
        pc[j] = "done" /\ outcome[j] = "finished" =>
            (warned[j] <=> config.stop /\ (\A i \in DOMAIN sent[j] : sent[j][i] # "disconnect"))

(* An operation is tried, and a verdict on the vehicle given, only by a    *)
(* job whose preflight or whose polling found interface and route together,*)
(* though it reads them with two commands while the client and other jobs  *)
(* bring the session up and down (_ensure_vpn_connected, _is_connected).   *)
OperationAfterPreflight ==
    \A j \in Jobs :
        (pc[j] = "operation"
           \/ outcome[j] \in {"finished", "vehicle_unreachable", "ssh_failed"}) => seenUp[j]

(* The staged login (_login) hands user name and password to their own     *)
(* prompts, whatever failed before it, as long as nothing disturbed a      *)
(* login: two jobs at once, a login given up (a write or a command that    *)
(* failed, the deadline), a restart of the client, or an `ip addr` that    *)
(* failed although the interface was there, which sends a login to a       *)
(* client that is online.                                                  *)
LoginUndisturbed == misread => disturbed

(* Every job ends: no failure, deadline or restart of the client leaves a  *)
(* runner thread in _ensure_vpn_connected or in a write for ever.          *)
JobEnds == \A j \in Jobs : Started(j) ~> pc[j] = "done"
=============================================================================

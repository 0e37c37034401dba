---------------------- MODULE NamespaceExecutorProofs ----------------------
(***************************************************************************)
(* The runner threads that share one UniVPN session, for any number of     *)
(* jobs and of restarts of the client, in every configuration.             *)
(***************************************************************************)
EXTENDS NamespaceExecutor, TLAPS

-----------------------------------------------------------------------------
(* The inductive invariant.                                                *)

Shapes ==
    /\ config \in Configs
    /\ pc \in [Jobs -> Steps]
    /\ waiting \in [Jobs -> BOOLEAN]
    /\ late \in [Jobs -> BOOLEAN]
    /\ outcome \in [Jobs -> ErrorCodes \cup {"none", "finished"}]
    /\ warned \in [Jobs -> BOOLEAN]
    /\ cleanups \in [Jobs -> Nat]
    /\ sent \in [Jobs -> Seq(Lines)]
    /\ seenUp \in [Jobs -> BOOLEAN]
    /\ tunnel \in {"down", "iface", "up"}
    /\ fifo \in Seq(Lines)
    /\ prompt \in Prompts
    /\ reading \in BOOLEAN
    /\ restarts \in 0..MaxRestarts
    /\ misread \in BOOLEAN
    /\ disturbed \in BOOLEAN

(* Before the finally block has run, a job has only written the script of  *)
(* _login, or its beginning.                                               *)
WrittenInv(j) ==
    /\ pc[j] # "done" =>
           /\ Len(sent[j]) <= 4
           /\ \A i \in 1 .. Len(sent[j]) : sent[j][i] = LoginScript[i]
    /\ pc[j] = "login" => Len(sent[j]) < 4
    /\ pc[j] \in {"idle", "login"} => ~waiting[j]
    /\ pc[j] = "deadline" => waiting[j]
    /\ pc[j] \in {"idle", "addr", "route", "deadline"} =>
           Len(sent[j]) = IF waiting[j] THEN 4 ELSE 0
    /\ pc[j] = "done" => Len(sent[j]) <= 5

(* What the finally block does, it does once, and not before a result or   *)
(* an error stands.                                                        *)
EndInv(j) ==
    /\ pc[j] # "done" => cleanups[j] = 0 /\ ~warned[j]
    /\ pc[j] \notin {"cleanup", "done"} => outcome[j] = "none"
    /\ pc[j] = "done" => cleanups[j] = IF config.stop THEN 1 ELSE 0
    /\ pc[j] = "done" /\ outcome[j] = "finished" =>
           (warned[j] <=> config.stop /\ (\A i \in DOMAIN sent[j] : sent[j][i] # "disconnect"))

SeenInv(j) ==
    (pc[j] = "operation"
       \/ outcome[j] \in {"finished", "vehicle_unreachable", "ssh_failed"}) => seenUp[j]

(* Where the client is in its menu tells what there is of a session.       *)
ClientInv ==
    /\ prompt \in {"profile", "connect", "username", "password"} => tunnel = "down"
    /\ prompt = "dialing" => tunnel # "up"
    /\ prompt = "online" => tunnel = "up"

(* A job that has gone to _login and has no session yet.                   *)
Logging(j) ==
    pc[j] = "login" \/ (waiting[j] /\ pc[j] \in {"addr", "route", "deadline"})

(* The client has read p lines of the job's login; the lines it has not    *)
(* read are disconnects of earlier jobs, if p = 0, and then the rest.      *)
ReadsAt(j, p) ==
    /\ prompt = LoginScript[p + 1]
    /\ p <= Len(sent[j])
    /\ Len(sent[j]) - p <= Len(fifo)
    /\ p > 0 => Len(fifo) = Len(sent[j]) - p
    /\ \A i \in 1 .. Len(fifo) :
           IF i <= Len(fifo) - (Len(sent[j]) - p)
           THEN fifo[i] = "disconnect"
           ELSE fifo[i] = LoginScript[i - (Len(fifo) - (Len(sent[j]) - p)) + p]

HasRead(j) ==
    /\ Len(sent[j]) = 4 /\ fifo = <<>>
    /\ prompt \in {"dialing", "online", "profile"}

Idle ==
    /\ prompt \in {"profile", "online"}
    /\ \A i \in 1 .. Len(fifo) : fifo[i] = "disconnect"

(* As long as no login was disturbed, one job runs at a time, ...          *)
SoloInv == ~disturbed => \A j, k \in Jobs : Running(j) /\ Running(k) => j = k

(* ... the client follows its login line by line, ...                      *)
LoginInv(j) ==
    ~disturbed /\ Logging(j) => HasRead(j) \/ \E p \in 0 .. 3 : ReadsAt(j, p)

(* ... and between logins it is in its first menu or online, with nothing  *)
(* but disconnects to read.                                                *)
IdleInv == ~disturbed /\ (\A j \in Jobs : ~Logging(j)) => Idle

Inv ==
    /\ Shapes
    /\ \A j \in Jobs : WrittenInv(j)
    /\ \A j \in Jobs : EndInv(j)
    /\ \A j \in Jobs : SeenInv(j)
    /\ ClientInv
    /\ SoloInv
    /\ \A j \in Jobs : LoginInv(j)
    /\ IdleInv
    /\ LoginUndisturbed

-----------------------------------------------------------------------------
(* Facts about steps.                                                      *)

(* The script of _login, line by line.                                     *)
LEMMA Script ==
    /\ LoginScript[1] = "profile" /\ LoginScript[2] = "connect"
    /\ LoginScript[3] = "username" /\ LoginScript[4] = "password"
    /\ Len(LoginScript) = 4
    /\ \A i \in 1 .. 4 : LoginScript[i] \in Lines /\ LoginScript[i] # "disconnect"
  BY DEF LoginScript, Lines

(* Where the client is depends on the FIFO, the menu and what was written. *)
LEMMA ClientSame ==
    ASSUME UNCHANGED <<fifo, prompt, sent>>
    PROVE  /\ Idle' = Idle
           /\ \A j \in Jobs : HasRead(j)' = HasRead(j)
           /\ \A j \in Jobs : \A p \in 0 .. 3 : ReadsAt(j, p)' = ReadsAt(j, p)
  BY DEF Idle, HasRead, ReadsAt

(* A job that finds no session and has written nothing meets the client in *)
(* its first menu.                                                         *)
LEMMA LoginBegins ==
    ASSUME Inv, NEW j \in Jobs, ~disturbed, Running(j), ~Logging(j),
           tunnel # "up", Len(sent[j]) = 0
    PROVE  ReadsAt(j, 0)
<1>1. \A k \in Jobs : Logging(k) => Running(k)
  BY DEF Logging, Running, Started
<1>2. Idle
  BY <1>1 DEF Inv, SoloInv, IdleInv
<1>3. prompt = "profile" /\ Len(fifo) \in Nat
  BY <1>2 DEF Inv, Shapes, ClientInv, Idle
<1>4. QED
  BY <1>2, <1>3, Script DEF Idle, ReadsAt

(* A job that finds the session it has logged in to has been read to the   *)
(* last line.                                                              *)
LEMMA LoginEnds ==
    ASSUME Inv, NEW j \in Jobs, ~disturbed, Running(j), tunnel = "up"
    PROVE  Idle
<1>1. \A k \in Jobs : Logging(k) => Running(k)
  BY DEF Logging, Running, Started
<1>2. CASE Logging(j)
  <2>1. \A p \in 0 .. 3 : ~ReadsAt(j, p)
    <3>1. \A p \in 0 .. 3 : p = 0 \/ p = 1 \/ p = 2 \/ p = 3
      OBVIOUS
    <3>2. \A p \in 0 .. 3 : LoginScript[p + 1] \in {"profile", "connect", "username", "password"}
      BY <3>1, Script
    <3>3. QED
      BY <3>2 DEF Inv, ClientInv, ReadsAt
  <2>2. HasRead(j)
    BY <1>2, <2>1 DEF Inv, LoginInv
  <2>3. QED
    BY <2>2 DEF Inv, ClientInv, HasRead, Idle
<1>3. CASE ~Logging(j)
  BY <1>1, <1>3 DEF Inv, SoloInv, IdleInv
<1>4. QED
  BY <1>2, <1>3

(* A job that has not yet written a line of its login finds the client     *)
(* idle.                                                                   *)
LEMMA NothingWritten ==
    ASSUME Inv, NEW j \in Jobs, ~disturbed, pc[j] = "login", Len(sent[j]) = 0
    PROVE  Idle
<1>1. ~HasRead(j) /\ Len(fifo) \in Nat
  BY DEF HasRead, Inv, Shapes
<1>2. PICK p \in 0 .. 3 : ReadsAt(j, p)
  BY <1>1 DEF Inv, LoginInv, Logging
<1>3. p = 0
  BY <1>2 DEF ReadsAt
<1>4. QED
  BY <1>1, <1>2, <1>3, Script DEF ReadsAt, Idle

(* What a step of a job must see to when it leaves the client alone.       *)
LEMMA MoveKeepsLogin ==
    ASSUME Inv, NEW j \in Jobs, UNCHANGED <<fifo, prompt, sent>>,
           disturbed => disturbed',
           \A k \in Jobs \ {j} : Logging(k)' => Logging(k),
           \A k \in Jobs \ {j} : Logging(k) => Logging(k)',
           ~disturbed' /\ Logging(j)' => Logging(j) \/ ReadsAt(j, 0),
           ~disturbed' /\ Logging(j) => Logging(j)' \/ Idle
    PROVE  IdleInv' /\ \A k \in Jobs : LoginInv(k)'
<1>1. \A k \in Jobs : LoginInv(k)'
  <2> SUFFICES ASSUME NEW k \in Jobs, ~disturbed', Logging(k)'
               PROVE  HasRead(k)' \/ \E p \in 0 .. 3 : ReadsAt(k, p)'
    BY DEF LoginInv
  <2>1. Logging(k) => HasRead(k) \/ \E p \in 0 .. 3 : ReadsAt(k, p)
    BY DEF Inv, LoginInv
  <2>2. HasRead(k) \/ \E p \in 0 .. 3 : ReadsAt(k, p)
    <3>1. CASE k = j /\ ReadsAt(j, 0)
      BY <3>1, 0 \in 0 .. 3
    <3>2. CASE ~(k = j /\ ReadsAt(j, 0))
      BY <2>1, <3>2
    <3>3. QED
      BY <3>1, <3>2
  <2>3. QED
    BY <2>2, ClientSame
<1>2. IdleInv'
  <2> SUFFICES ASSUME ~disturbed', \A k \in Jobs : ~Logging(k)'
               PROVE  Idle
    BY ClientSame DEF IdleInv
  <2>1. CASE Logging(j)
    BY <2>1
  <2>2. CASE ~Logging(j)
    BY <2>2 DEF Inv, IdleInv
  <2>3. QED
    BY <2>1, <2>2
<1>3. QED
  BY <1>1, <1>2

(* Before the first job the client waits in its menu or is online.         *)
LEMMA InitInv == Init => Inv
<1> SUFFICES ASSUME Init PROVE Inv
  OBVIOUS
<1> USE NamespaceAssumption DEF Init
<1>1. Shapes
  <2>1. /\ config \in Configs /\ reading \in BOOLEAN /\ misread \in BOOLEAN
        /\ disturbed \in BOOLEAN
    BY Zenon
  <2>2. /\ waiting \in [Jobs -> BOOLEAN] /\ late \in [Jobs -> BOOLEAN]
        /\ warned \in [Jobs -> BOOLEAN] /\ seenUp \in [Jobs -> BOOLEAN]
    BY Zenon
  <2>3. /\ pc \in [Jobs -> Steps] /\ outcome \in [Jobs -> ErrorCodes \cup {"none", "finished"}]
        /\ cleanups \in [Jobs -> Nat] /\ sent \in [Jobs -> Seq(Lines)]
    BY DEF Steps
  <2>4. /\ tunnel \in {"down", "iface", "up"} /\ fifo \in Seq(Lines) /\ prompt \in Prompts
        /\ restarts \in 0..MaxRestarts
    BY DEF Prompts
  <2>5. QED
    BY <2>1, <2>2, <2>3, <2>4 DEF Shapes
<1>2. \A j \in Jobs : /\ pc[j] = "idle" /\ ~waiting[j] /\ outcome[j] = "none" /\ ~warned[j]
                      /\ cleanups[j] = 0 /\ Len(sent[j]) = 0
  OBVIOUS
<1>3. \A j \in Jobs : WrittenInv(j)
  <2> SUFFICES ASSUME NEW j \in Jobs PROVE WrittenInv(j)
    OBVIOUS
  <2>1. pc[j] = "idle" /\ ~waiting[j] /\ Len(sent[j]) = 0
    BY <1>2
  <2>2. \A i \in 1 .. Len(sent[j]) : FALSE
    BY <2>1
  <2> HIDE DEF Init
  <2>3. QED
    BY <2>1, <2>2 DEF WrittenInv
<1>4. \A j \in Jobs : EndInv(j) /\ SeenInv(j)
  BY <1>2 DEF EndInv, SeenInv
<1>5. ClientInv /\ SoloInv /\ LoginUndisturbed
  BY <1>2 DEF ClientInv, SoloInv, Running, Started, LoginUndisturbed
<1>6. IdleInv /\ \A j \in Jobs : LoginInv(j)
  BY <1>2 DEF LoginInv, IdleInv, Logging, Idle
<1>7. QED
  BY <1>1, <1>3, <1>4, <1>5, <1>6 DEF Inv

(* A job that starts while another runs disturbs it.                       *)
LEMMA StartInv ==
    ASSUME Inv, NEW j \in Jobs, Start(j)
    PROVE  Inv'
<1> USE DEF Start, Goto, Elsewhere, clientVars
<1>1. Shapes'
  BY DEF Inv, Shapes, Steps, ErrorCodes
<1>2. \A k \in Jobs : WrittenInv(k)'
  BY Script DEF Inv, Shapes, WrittenInv
<1>3. \A k \in Jobs : EndInv(k)'
  BY DEF Inv, Shapes, WrittenInv, EndInv
<1>4. \A k \in Jobs : SeenInv(k)'
  BY DEF Inv, Shapes, EndInv, SeenInv
<1>5. ClientInv' /\ LoginUndisturbed'
  BY DEF Inv, ClientInv, LoginUndisturbed
<1>6. SoloInv'
  BY DEF Inv, Shapes, SoloInv, Running, Started
<1>7. IdleInv' /\ \A k \in Jobs : LoginInv(k)'
  <2>1. disturbed => disturbed'
    BY DEF Inv, Shapes
  <2>2. \A k \in Jobs \ {j} : (Logging(k)' => Logging(k)) /\ (Logging(k) => Logging(k)')
    BY DEF Inv, Shapes, Logging
  <2>3. ~disturbed' => ~Logging(j)' /\ ~Logging(j)
    BY DEF Inv, Shapes, WrittenInv, Logging
  <2>4. QED
    BY <2>1, <2>2, <2>3, MoveKeepsLogin
<1>8. QED
  BY <1>1, <1>2, <1>3, <1>4, <1>5, <1>6, <1>7 DEF Inv

(* No interface, or none to be seen: the job logs in, polls or fails.      *)
LEMMA ShowAddressInv ==
    ASSUME Inv, NEW j \in Jobs, ShowAddress(j)
    PROVE  Inv'
<1> USE DEF ShowAddress, NotConnected, Complete, GivesUp, Goto, Elsewhere, clientVars
<1>1. Shapes'
  BY DEF Inv, Shapes, Steps, ErrorCodes
<1>2. \A k \in Jobs : WrittenInv(k)'
  <2>1. pc'[j] \in {"cleanup", "route"} \/ (waiting[j] /\ pc'[j] = "deadline")
           \/ (~waiting[j] /\ pc'[j] = "login")
    BY DEF Inv, Shapes
  <2>2. UNCHANGED <<sent, waiting>> /\ \A k \in Jobs \ {j} : pc'[k] = pc[k]
    BY DEF Inv, Shapes
  <2>3. QED
    BY <2>1, <2>2 DEF Inv, WrittenInv
<1>3. \A k \in Jobs : EndInv(k)'
  BY DEF Inv, Shapes, WrittenInv, EndInv
<1>4. \A k \in Jobs : SeenInv(k)'
  BY DEF Inv, Shapes, EndInv, SeenInv
<1>5. ClientInv' /\ LoginUndisturbed'
  BY DEF Inv, ClientInv, LoginUndisturbed
<1>6. SoloInv'
  BY DEF Inv, Shapes, SoloInv, Running, Started
<1>7. IdleInv' /\ \A k \in Jobs : LoginInv(k)'
  <2>1. disturbed => disturbed'
    BY DEF Inv, Shapes
  <2>2. \A k \in Jobs \ {j} : (Logging(k)' => Logging(k)) /\ (Logging(k) => Logging(k)')
    BY DEF Inv, Shapes, Logging
  <2>3. ~disturbed' /\ Logging(j)' => Logging(j) \/ ReadsAt(j, 0)
    <3> SUFFICES ASSUME ~disturbed', Logging(j)', ~Logging(j) PROVE ReadsAt(j, 0)
      OBVIOUS
    <3>1. ~disturbed /\ Running(j) /\ tunnel # "up"
      BY DEF Inv, Shapes, Logging, Running, Started
    <3>2. Len(sent[j]) = 0
      BY DEF Inv, Shapes, WrittenInv, Logging
    <3>3. QED
      BY <3>1, <3>2, LoginBegins
  <2>4. ~disturbed' /\ Logging(j) => Logging(j)' \/ Idle
    <3> SUFFICES ASSUME ~disturbed', Logging(j), ~Logging(j)' PROVE Idle
      OBVIOUS
    <3>1. Len(sent[j]) = 4 /\ Running(j)
      BY DEF Inv, Shapes, WrittenInv, Logging, Running, Started
    <3>2. sent[j] # <<>>
      BY <3>1
    <3>3. ~disturbed /\ tunnel = "up"
      BY <3>2 DEF Inv, Shapes, Logging
    <3>4. QED
      BY <3>1, <3>3, LoginEnds
  <2>5. QED
    BY <2>1, <2>2, <2>3, <2>4, MoveKeepsLogin
<1>8. QED
  BY <1>1, <1>2, <1>3, <1>4, <1>5, <1>6, <1>7 DEF Inv

(* Interface and route: the session is there and the operation is tried.   *)
LEMMA ShowRoutesInv ==
    ASSUME Inv, NEW j \in Jobs, ShowRoutes(j)
    PROVE  Inv'
<1> USE DEF ShowRoutes, NotConnected, Complete, GivesUp, Goto, Elsewhere, clientVars
<1>1. Shapes'
  BY DEF Inv, Shapes, Steps, ErrorCodes
<1>2. \A k \in Jobs : WrittenInv(k)'
  BY Script DEF Inv, Shapes, WrittenInv
<1>3. \A k \in Jobs : EndInv(k)'
  BY DEF Inv, Shapes, WrittenInv, EndInv
<1>4. \A k \in Jobs : SeenInv(k)'
  BY DEF Inv, Shapes, EndInv, SeenInv
<1>5. ClientInv' /\ LoginUndisturbed'
  BY DEF Inv, ClientInv, LoginUndisturbed
<1>6. SoloInv'
  BY DEF Inv, Shapes, SoloInv, Running, Started
<1>7. IdleInv' /\ \A k \in Jobs : LoginInv(k)'
  <2>1. disturbed => disturbed'
    BY DEF Inv, Shapes
  <2>2. \A k \in Jobs \ {j} : (Logging(k)' => Logging(k)) /\ (Logging(k) => Logging(k)')
    BY DEF Inv, Shapes, Logging
  <2>3. ~disturbed' /\ Logging(j)' => Logging(j) \/ ReadsAt(j, 0)
    <3> SUFFICES ASSUME ~disturbed', Logging(j)', ~Logging(j) PROVE ReadsAt(j, 0)
      OBVIOUS
    <3>1. ~disturbed /\ Running(j) /\ tunnel # "up"
      BY DEF Inv, Shapes, Logging, Running, Started
    <3>2. Len(sent[j]) = 0
      BY DEF Inv, Shapes, WrittenInv, Logging
    <3>3. QED
      BY <3>1, <3>2, LoginBegins
  <2>4. ~disturbed' /\ Logging(j) => Logging(j)' \/ Idle
    <3> SUFFICES ASSUME ~disturbed', Logging(j), ~Logging(j)' PROVE Idle
      OBVIOUS
    <3>1. Len(sent[j]) = 4 /\ Running(j)
      BY DEF Inv, Shapes, WrittenInv, Logging, Running, Started
    <3>2. sent[j] # <<>>
      BY <3>1
    <3>3. ~disturbed /\ tunnel = "up"
      BY <3>2 DEF Inv, Shapes, Logging
    <3>4. QED
      BY <3>1, <3>3, LoginEnds
  <2>5. QED
    BY <2>1, <2>2, <2>3, <2>4, MoveKeepsLogin
<1>8. QED
  BY <1>1, <1>2, <1>3, <1>4, <1>5, <1>6, <1>7 DEF Inv

(* A login given up half-way is a disturbance.                             *)
LEMMA WriteLineFailsInv ==
    ASSUME Inv, NEW j \in Jobs, WriteLineFails(j)
    PROVE  Inv'
<1> USE DEF WriteLineFails, Complete, GivesUp, Goto, Elsewhere, clientVars
<1>1. Shapes'
  BY DEF Inv, Shapes, Steps, ErrorCodes
<1>2. \A k \in Jobs : WrittenInv(k)'
  BY Script DEF Inv, Shapes, WrittenInv
<1>3. \A k \in Jobs : EndInv(k)'
  BY DEF Inv, Shapes, WrittenInv, EndInv
<1>4. \A k \in Jobs : SeenInv(k)'
  BY DEF Inv, Shapes, EndInv, SeenInv
<1>5. ClientInv' /\ LoginUndisturbed'
  BY DEF Inv, ClientInv, LoginUndisturbed
<1>6. SoloInv'
  BY DEF Inv, Shapes, SoloInv, Running, Started
<1>7. IdleInv' /\ \A k \in Jobs : LoginInv(k)'
  <2>1. disturbed => disturbed'
    BY DEF Inv, Shapes
  <2>2. \A k \in Jobs \ {j} : (Logging(k)' => Logging(k)) /\ (Logging(k) => Logging(k)')
    BY DEF Inv, Shapes, Logging
  <2>3. ~Logging(j)' \/ (Logging(j) /\ Logging(j)')
    BY DEF Inv, Shapes, WrittenInv, Logging
  <2>4. ~disturbed' /\ Logging(j) => Logging(j)' \/ Idle
    <3>1. Len(sent[j]) = 0 \/ sent[j] # <<>>
      OBVIOUS
    <3>2. CASE Len(sent[j]) = 0
      BY <2>1, <3>2, NothingWritten
    <3>3. CASE sent[j] # <<>>
      BY <3>3 DEF Inv, Shapes
    <3>4. QED
      BY <3>1, <3>2, <3>3
  <2>5. QED
    BY <2>1, <2>2, <2>3, <2>4, MoveKeepsLogin
<1>8. QED
  BY <1>1, <1>2, <1>3, <1>4, <1>5, <1>6, <1>7 DEF Inv

(* Nothing has been written.                                               *)
LEMMA CredentialsMissingInv ==
    ASSUME Inv, NEW j \in Jobs, CredentialsMissing(j)
    PROVE  Inv'
<1> USE DEF CredentialsMissing, Complete, GivesUp, Goto, Elsewhere, clientVars
<1>1. Shapes'
  BY DEF Inv, Shapes, Steps, ErrorCodes
<1>2. \A k \in Jobs : WrittenInv(k)'
  BY Script DEF Inv, Shapes, WrittenInv
<1>3. \A k \in Jobs : EndInv(k)'
  BY DEF Inv, Shapes, WrittenInv, EndInv
<1>4. \A k \in Jobs : SeenInv(k)'
  BY DEF Inv, Shapes, EndInv, SeenInv
<1>5. ClientInv' /\ LoginUndisturbed'
  BY DEF Inv, ClientInv, LoginUndisturbed
<1>6. SoloInv'
  BY DEF Inv, Shapes, SoloInv, Running, Started
<1>7. IdleInv' /\ \A k \in Jobs : LoginInv(k)'
  <2>1. disturbed => disturbed'
    BY DEF Inv, Shapes
  <2>2. \A k \in Jobs \ {j} : (Logging(k)' => Logging(k)) /\ (Logging(k) => Logging(k)')
    BY DEF Inv, Shapes, Logging
  <2>3. ~Logging(j)' \/ (Logging(j) /\ Logging(j)')
    BY DEF Inv, Shapes, WrittenInv, Logging
  <2>4. ~disturbed' /\ Logging(j) => Logging(j)' \/ Idle
    <3>1. Len(sent[j]) = 0
      OBVIOUS
    <3>2. QED
      BY <2>1, <3>1, NothingWritten
  <2>5. QED
    BY <2>1, <2>2, <2>3, <2>4, MoveKeepsLogin
<1>8. QED
  BY <1>1, <1>2, <1>3, <1>4, <1>5, <1>6, <1>7 DEF Inv

(* Only the clock moves.                                                   *)
LEMMA DeadlinePassesInv ==
    ASSUME Inv, NEW j \in Jobs, DeadlinePasses(j)
    PROVE  Inv'
<1> USE DEF DeadlinePasses, Goto, Elsewhere, clientVars
<1>1. Shapes'
  BY DEF Inv, Shapes, Steps, ErrorCodes
<1>2. \A k \in Jobs : WrittenInv(k)'
  BY Script DEF Inv, Shapes, WrittenInv
<1>3. \A k \in Jobs : EndInv(k)'
  BY DEF Inv, Shapes, WrittenInv, EndInv
<1>4. \A k \in Jobs : SeenInv(k)'
  BY DEF Inv, Shapes, EndInv, SeenInv
<1>5. ClientInv' /\ LoginUndisturbed'
  BY DEF Inv, ClientInv, LoginUndisturbed
<1>6. SoloInv'
  BY DEF Inv, Shapes, SoloInv, Running, Started
<1>7. IdleInv' /\ \A k \in Jobs : LoginInv(k)'
  <2>1. disturbed => disturbed'
    BY DEF Inv, Shapes
  <2>2. \A k \in Jobs \ {j} : (Logging(k)' => Logging(k)) /\ (Logging(k) => Logging(k)')
    BY DEF Inv, Shapes, Logging
  <2>3. (Logging(j)' => Logging(j)) /\ (Logging(j) => Logging(j)')
    BY DEF Inv, Shapes, Logging
  <2>4. QED
    BY <2>1, <2>2, <2>3, MoveKeepsLogin
<1>8. QED
  BY <1>1, <1>2, <1>3, <1>4, <1>5, <1>6, <1>7 DEF Inv

(* A login whose deadline has passed is given up.                          *)
LEMMA CheckDeadlineInv ==
    ASSUME Inv, NEW j \in Jobs, CheckDeadline(j)
    PROVE  Inv'
<1> USE DEF CheckDeadline, Complete, GivesUp, Goto, Elsewhere, clientVars
<1>1. Shapes'
  BY DEF Inv, Shapes, Steps, ErrorCodes
<1>2. \A k \in Jobs : WrittenInv(k)'
  BY Script DEF Inv, Shapes, WrittenInv
<1>3. \A k \in Jobs : EndInv(k)'
  BY DEF Inv, Shapes, WrittenInv, EndInv
<1>4. \A k \in Jobs : SeenInv(k)'
  BY DEF Inv, Shapes, EndInv, SeenInv
<1>5. ClientInv' /\ LoginUndisturbed'
  BY DEF Inv, ClientInv, LoginUndisturbed
<1>6. SoloInv'
  BY DEF Inv, Shapes, SoloInv, Running, Started
<1>7. IdleInv' /\ \A k \in Jobs : LoginInv(k)'
  <2>1. disturbed => disturbed'
    BY DEF Inv, Shapes
  <2>2. \A k \in Jobs \ {j} : (Logging(k)' => Logging(k)) /\ (Logging(k) => Logging(k)')
    BY DEF Inv, Shapes, Logging
  <2>3. ~Logging(j)' \/ (Logging(j) /\ Logging(j)')
    BY DEF Inv, Shapes, WrittenInv, Logging
  <2>4. ~disturbed' /\ Logging(j) => Logging(j)' \/ Idle
    <3>1. Len(sent[j]) = 4
      BY DEF Inv, Shapes, WrittenInv
    <3>2. sent[j] # <<>>
      BY <3>1
    <3>3. QED
      BY <3>2 DEF Inv, Shapes, WrittenInv, Logging
  <2>5. QED
    BY <2>1, <2>2, <2>3, <2>4, MoveKeepsLogin
<1>8. QED
  BY <1>1, <1>2, <1>3, <1>4, <1>5, <1>6, <1>7 DEF Inv

(* The operation leaves session and client alone.                          *)
LEMMA OperationInv ==
    ASSUME Inv, NEW j \in Jobs, Operation(j)
    PROVE  Inv'
<1> USE DEF Operation, Probe, Ssh, Complete, GivesUp, Goto, Elsewhere, clientVars
<1>1. Shapes'
  <2>1. PICK code \in ErrorCodes \cup {"none", "finished"} : Complete(j, code)
    BY DEF ErrorCodes
  <2>2. QED
    BY <2>1 DEF Inv, Shapes, Steps
<1>2. \A k \in Jobs : WrittenInv(k)'
  BY Script DEF Inv, Shapes, WrittenInv
<1>3. \A k \in Jobs : EndInv(k)'
  BY DEF Inv, Shapes, WrittenInv, EndInv
<1>4. \A k \in Jobs : SeenInv(k)'
  BY DEF Inv, Shapes, EndInv, SeenInv
<1>5. ClientInv' /\ LoginUndisturbed'
  BY DEF Inv, ClientInv, LoginUndisturbed
<1>6. SoloInv'
  BY DEF Inv, Shapes, SoloInv, Running, Started
<1>7. IdleInv' /\ \A k \in Jobs : LoginInv(k)'
  <2>1. disturbed => disturbed'
    BY DEF Inv, Shapes
  <2>2. \A k \in Jobs \ {j} : (Logging(k)' => Logging(k)) /\ (Logging(k) => Logging(k)')
    BY DEF Inv, Shapes, Logging
  <2>3. ~disturbed' => ~Logging(j)' /\ ~Logging(j)
    BY DEF Inv, Shapes, WrittenInv, Logging
  <2>4. QED
    BY <2>1, <2>2, <2>3, MoveKeepsLogin
<1>8. QED
  BY <1>1, <1>2, <1>3, <1>4, <1>5, <1>6, <1>7 DEF Inv

(* The next line of the script goes to the client.                         *)
LEMMA WriteLineInv ==
    ASSUME Inv, NEW j \in Jobs, WriteLine(j)
    PROVE  Inv'
<1> USE DEF WriteLine, Write, Goto, clientVars
<1>1. PICK n \in 1 .. 4 : /\ Len(sent[j]) = n - 1 /\ Len(fifo) \in Nat
                          /\ sent[j] \in Seq(Lines) /\ fifo \in Seq(Lines)
  <2>1. Len(sent[j]) < 4 /\ sent[j] \in Seq(Lines) /\ fifo \in Seq(Lines)
    BY DEF Inv, Shapes, WrittenInv
  <2>2. QED
    BY <2>1
<1>2. /\ fifo' = Append(fifo, LoginScript[n]) /\ sent'[j] = Append(sent[j], LoginScript[n])
      /\ \A k \in Jobs \ {j} : sent'[k] = sent[k]
      /\ LoginScript[n] \in Lines
  BY <1>1, Script DEF Inv, Shapes
<1>3. /\ Len(sent'[j]) = n /\ sent'[j][n] = LoginScript[n]
      /\ \A i \in 1 .. n - 1 : sent'[j][i] = sent[j][i]
      /\ Len(fifo') = Len(fifo) + 1 /\ fifo'[Len(fifo) + 1] = LoginScript[n]
      /\ \A i \in 1 .. Len(fifo) : fifo'[i] = fifo[i]
  BY <1>1, <1>2
<1>4. Shapes'
  <2>1. sent' \in [Jobs -> Seq(Lines)] /\ fifo' \in Seq(Lines)
    BY <1>1, <1>2 DEF Inv, Shapes
  <2>2. waiting' \in [Jobs -> BOOLEAN]
    BY DEF Inv, Shapes
  <2>3. QED
    BY <2>1, <2>2 DEF Inv, Shapes, Steps
<1>5. \A k \in Jobs : WrittenInv(k)'
  <2>1. WrittenInv(j)'
    <3>1. \A i \in 1 .. n : sent'[j][i] = LoginScript[i]
      BY <1>1, <1>3 DEF Inv, WrittenInv
    <3>2. pc'[j] = IF n = 4 THEN "addr" ELSE "login"
      BY <1>1, Script DEF Inv, Shapes
    <3>3. waiting'[j] <=> n = 4
      <4>1. waiting'[j] = (Len(sent[j]) + 1 = Len(LoginScript))
        BY Zenon DEF Inv, Shapes
      <4> HIDE DEF WriteLine
      <4>2. Len(sent[j]) + 1 = Len(LoginScript) <=> n = 4
        BY <1>1, Script
      <4>3. QED
        BY <4>1, <4>2, Zenon
    <3> HIDE DEF WriteLine
    <3>4. QED
      BY <1>1, <1>3, <3>1, <3>2, <3>3 DEF WrittenInv
  <2>2. ASSUME NEW k \in Jobs \ {j} PROVE WrittenInv(k)'
    BY <1>2 DEF Inv, Shapes, WrittenInv
  <2>3. QED
    BY <2>1, <2>2
<1>6. \A k \in Jobs : EndInv(k)' /\ SeenInv(k)'
  BY <1>2 DEF Inv, Shapes, EndInv, SeenInv
<1>7. ClientInv' /\ LoginUndisturbed'
  BY DEF Inv, ClientInv, LoginUndisturbed
<1>8. SoloInv'
  BY DEF Inv, Shapes, SoloInv, Running, Started
<1>9. IdleInv' /\ \A k \in Jobs : LoginInv(k)'
  <2>1. Logging(j)'
    BY Script DEF Inv, Shapes, Logging
  <2>2. ~disturbed' => \A k \in Jobs \ {j} : ~Logging(k)'
    BY DEF Inv, Shapes, SoloInv, Logging, Running, Started
  <2>3. ASSUME ~disturbed PROVE \E p \in 0 .. 3 : ReadsAt(j, p)'
    <3>1. Logging(j)
      BY DEF Logging
    <3> HIDE DEF WriteLine
    <3>2. ~HasRead(j)
      <4>1. Len(sent[j]) # 4
        BY <1>1
      <4>2. QED
        BY <4>1 DEF HasRead
    <3>3. PICK p \in 0 .. 3 : ReadsAt(j, p)
      BY <2>3, <3>1, <3>2 DEF Inv, LoginInv
    <3>4. Len(fifo') - (Len(sent'[j]) - p) = Len(fifo) - (Len(sent[j]) - p)
      BY <1>1, <1>3
    <3>5. ASSUME NEW i \in 1 .. Len(fifo')
          PROVE  IF i <= Len(fifo') - (Len(sent'[j]) - p)
                 THEN fifo'[i] = "disconnect"
                 ELSE fifo'[i] = LoginScript[i - (Len(fifo') - (Len(sent'[j]) - p)) + p]
      <4>1. CASE i \in 1 .. Len(fifo)
        BY <1>1, <1>3, <3>3, <3>4, <4>1 DEF ReadsAt
      <4>2. CASE i = Len(fifo) + 1
        <5>1. i - (Len(fifo') - (Len(sent'[j]) - p)) + p = n
          BY <1>1, <1>3, <4>2
        <5>2. ~(i <= Len(fifo') - (Len(sent'[j]) - p))
          BY <1>1, <1>3, <3>3, <3>4, <4>2 DEF ReadsAt
        <5>3. QED
          BY <1>3, <4>2, <5>1, <5>2
      <4>3. QED
        BY <1>1, <1>3, <4>1, <4>2
    <3>6. prompt' = prompt
      BY DEF WriteLine
    <3>7. ReadsAt(j, p)'
      <4>1. prompt = LoginScript[p + 1] /\ p <= n /\ n - p <= Len(fifo) + 1
        BY <1>1, <3>3 DEF ReadsAt
      <4>2. p > 0 => Len(fifo) + 1 = n - p
        BY <1>1, <3>3 DEF ReadsAt
      <4>3. QED
        BY <1>3, <3>5, <3>6, <4>1, <4>2 DEF ReadsAt
    <3>8. QED
      BY <3>7
  <2>4. QED
    BY <2>1, <2>2, <2>3 DEF IdleInv, LoginInv
<1>10. QED
  BY <1>4, <1>5, <1>6, <1>7, <1>8, <1>9 DEF Inv

(* The finally block runs once and leaves at most a disconnect.            *)
LEMMA CleanupInv ==
    ASSUME Inv, NEW j \in Jobs, Cleanup(j)
    PROVE  Inv'
<1> USE DEF Cleanup, Write, Warn, Goto, clientVars
<1>1. sent[j] \in Seq(Lines) /\ fifo \in Seq(Lines) /\ "disconnect" \in Lines
  BY DEF Inv, Shapes, Lines
<1>2. \/ sent' = sent /\ fifo' = fifo
      \/ /\ sent' = [sent EXCEPT ![j] = Append(sent[j], "disconnect")]
         /\ fifo' = Append(fifo, "disconnect")
  OBVIOUS
<1>3. \A k \in Jobs \ {j} : sent'[k] = sent[k] /\ pc'[k] = pc[k]
  BY <1>2 DEF Inv, Shapes
<1>4. pc'[j] = "done" /\ Len(sent[j]) <= 4 /\ \A i \in 1 .. Len(sent[j]) : sent[j][i] # "disconnect"
  BY Script DEF Inv, Shapes, WrittenInv
<1>5. Shapes'
  <2>1. sent' \in [Jobs -> Seq(Lines)] /\ fifo' \in Seq(Lines)
    <3>1. Append(sent[j], "disconnect") \in Seq(Lines) /\ Append(fifo, "disconnect") \in Seq(Lines)
      BY <1>1
    <3>2. QED
      BY <1>2, <3>1 DEF Inv, Shapes
  <2>2. cleanups' \in [Jobs -> Nat]
    BY DEF Inv, Shapes
  <2>3. warned' \in [Jobs -> BOOLEAN]
    BY DEF Inv, Shapes
  <2>4. QED
    BY <2>1, <2>2, <2>3 DEF Inv, Shapes, Steps
<1>6. \A k \in Jobs : WrittenInv(k)'
  <2>1. Len(sent'[j]) <= 5
    BY <1>1, <1>2, <1>4 DEF Inv, Shapes
  <2>2. QED
    BY <1>3, <1>4, <2>1 DEF Inv, WrittenInv
<1>7. \A k \in Jobs : EndInv(k)'
  <2>1. EndInv(j)'
    <3>1. CASE ~config.stop /\ UNCHANGED <<warned, sent, fifo, cleanups>>
      BY <1>4, <3>1 DEF Inv, Shapes, EndInv
    <3>2. CASE /\ config.stop /\ cleanups' = [cleanups EXCEPT ![j] = @ + 1]
               /\ Write(j, "disconnect") /\ UNCHANGED warned
      <4>1. Len(sent[j]) + 1 \in DOMAIN sent'[j] /\ sent'[j][Len(sent[j]) + 1] = "disconnect"
        BY <1>1, <3>2 DEF Inv, Shapes
      <4>2. cleanups'[j] = 1 /\ ~warned'[j]
        BY <3>2 DEF Inv, Shapes, EndInv
      <4>3. QED
        BY <1>4, <3>2, <4>1, <4>2 DEF EndInv
    <3>3. CASE /\ config.stop /\ cleanups' = [cleanups EXCEPT ![j] = @ + 1]
               /\ Warn(j) /\ UNCHANGED <<sent, fifo>>
      <4> HIDE DEF Warn, Cleanup
      <4>1. cleanups'[j] = 1
        <5>1. cleanups[j] = 0
          BY DEF Inv, Shapes, EndInv, Cleanup
        <5>2. QED
          BY <3>3, <5>1 DEF Inv, Shapes
      <4>2. warned'[j] = (outcome[j] = "finished")
        BY <3>3, Zenon DEF Warn, Inv, Shapes
      <4>3. DOMAIN sent'[j] = 1 .. Len(sent[j]) /\ sent'[j] = sent[j]
        BY <1>1, <3>3
      <4>4. config' = config /\ outcome' = outcome
        BY DEF Cleanup
      <4>5. QED
        BY <1>4, <3>3, <4>1, <4>2, <4>3, <4>4 DEF EndInv
    <3>4. QED
      BY <3>1, <3>2, <3>3
  <2>2. ASSUME NEW k \in Jobs \ {j} PROVE EndInv(k)'
    BY <1>3 DEF Inv, Shapes, EndInv
  <2>3. QED
    BY <2>1, <2>2
<1>8. \A k \in Jobs : SeenInv(k)'
  BY DEF Inv, Shapes, SeenInv
<1>9. ClientInv' /\ LoginUndisturbed'
  BY DEF Inv, ClientInv, LoginUndisturbed
<1>10. SoloInv'
  BY DEF Inv, Shapes, SoloInv, Running, Started
<1>11. IdleInv' /\ \A k \in Jobs : LoginInv(k)'
  <2> SUFFICES ASSUME ~disturbed PROVE Idle' /\ \A k \in Jobs : ~Logging(k)'
    BY DEF IdleInv, LoginInv
  <2>1. \A k \in Jobs : ~Logging(k)
    BY DEF Inv, SoloInv, Logging, Running, Started
  <2>2. \A k \in Jobs : ~Logging(k)'
    BY <1>4, <2>1 DEF Inv, Shapes, Logging
  <2>3. Idle
    BY <2>1 DEF Inv, IdleInv
  <2>4. \A i \in 1 .. Len(fifo') : fifo'[i] = "disconnect"
    BY <1>1, <1>2, <2>3 DEF Idle
  <2>5. QED
    BY <2>2, <2>3, <2>4 DEF Idle
<1>12. QED
  BY <1>5, <1>6, <1>7, <1>8, <1>9, <1>10, <1>11 DEF Inv

(* What a line does to the menu.                                           *)
LEMMA FollowsCases ==
    ASSUME NEW line, prompt \in Prompts, prompt # "dialing"
    PROVE  /\ prompt = "profile" => Follows(line) = IF line = "profile" THEN "connect" ELSE "profile"
           /\ prompt = "connect" => Follows(line) = IF line = "connect" THEN "username" ELSE "connect"
           /\ prompt = "username" => Follows(line) = "password"
           /\ prompt = "password" => Follows(line) = "dialing"
           /\ prompt = "online" => Follows(line) = IF line = "disconnect" THEN "profile" ELSE "online"
  BY DEF Follows, Prompts

(* The client reads a disconnect that was left over, which its first menu  *)
(* ignores, or the line of the login that its menu is waiting for.         *)
LEMMA ReadsOn ==
    ASSUME Inv, ClientReads, NEW j \in Jobs, Logging(j), NEW p \in 0 .. 3, ReadsAt(j, p)
    PROVE  /\ HasRead(j)' \/ \E q \in 0 .. 3 : ReadsAt(j, q)'
           /\ Head(fifo) \in {"disconnect", prompt}
<1>1. /\ fifo \in Seq(Lines) /\ fifo # <<>> /\ fifo' = Tail(fifo) /\ sent' = sent
      /\ prompt' = Follows(Head(fifo)) /\ prompt \in Prompts /\ prompt # "dialing"
  BY DEF Inv, Shapes, ClientReads, jobVars
<1>2. /\ Len(fifo) \in Nat \ {0} /\ Head(fifo) = fifo[1] /\ Len(fifo') = Len(fifo) - 1
      /\ \A i \in 1 .. Len(fifo) - 1 : fifo'[i] = fifo[i + 1]
  BY <1>1
<1>3. PICK m \in 0 .. 4 : Len(sent[j]) = m /\ Len(sent'[j]) = m
  <2>1. sent[j] \in Seq(Lines) /\ Len(sent[j]) <= 4
    BY DEF Inv, Shapes, WrittenInv, Logging
  <2>2. Len(sent[j]) \in Nat
    BY <2>1
  <2>3. \A n \in Nat : n <= 4 => n \in 0 .. 4
    OBVIOUS
  <2>4. Len(sent[j]) \in 0 .. 4
    BY <2>1, <2>2, <2>3, Zenon
  <2>5. QED
    BY <1>1, <2>4, Zenon
<1>4. PICK d \in Nat : d = Len(fifo) - (m - p)
  <2>1. m - p <= Len(fifo)
    BY <1>3 DEF ReadsAt
  <2>2. Len(fifo) - (m - p) \in Nat
    BY <1>2, <2>1
  <2>3. QED
    BY <2>2
<1>5. /\ prompt = LoginScript[p + 1] /\ p <= m
      /\ p > 0 => d = 0
      /\ \A i \in 1 .. Len(fifo) : IF i <= d THEN fifo[i] = "disconnect"
                                           ELSE fifo[i] = LoginScript[i - d + p]
  BY <1>2, <1>3, <1>4 DEF ReadsAt
<1>6. CASE d > 0
  <2>1. p = 0 /\ prompt = "profile" /\ Head(fifo) = "disconnect"
    <3>1. 1 \in 1 .. Len(fifo) /\ 1 <= d /\ p = 0
      BY <1>2, <1>5, <1>6
    <3>2. QED
      BY <1>2, <1>5, <3>1, Script
  <2>2. prompt' = "profile"
    BY <1>1, <2>1, FollowsCases
  <2>3. Len(fifo') - (m - 0) = d - 1
    BY <1>2, <1>3, <1>4, <2>1
  <2>4. ASSUME NEW i \in 1 .. Len(fifo')
        PROVE  IF i <= d - 1 THEN fifo'[i] = "disconnect"
                             ELSE fifo'[i] = LoginScript[i - (d - 1) + 0]
    <3>1. i + 1 \in 1 .. Len(fifo) /\ fifo'[i] = fifo[i + 1]
      BY <1>2
    <3>2. (i <= d - 1 <=> i + 1 <= d) /\ (i + 1) - d + p = i - (d - 1) + 0
      BY <1>2, <1>6, <2>1
    <3>3. QED
      BY <1>5, <3>1, <3>2
  <2>5. m - 0 <= Len(fifo')
    BY <1>2, <1>3, <1>4, <1>6, <2>1
  <2>6. ReadsAt(j, 0)'
    BY <1>3, <2>2, <2>3, <2>4, <2>5, Script DEF ReadsAt
  <2>7. QED
    BY <2>1, <2>6
<1>7. CASE d = 0
  <2>1. Head(fifo) = prompt /\ Len(fifo) = m - p
    <3>1. 1 \in 1 .. Len(fifo) /\ ~(1 <= d) /\ 1 - d + p = p + 1 /\ Len(fifo) = m - p
      BY <1>2, <1>4, <1>7
    <3>2. QED
      BY <1>2, <1>5, <3>1
  <2>2. CASE p < 3
    <3>1. prompt' = LoginScript[(p + 1) + 1]
      <4>1. p = 0 \/ p = 1 \/ p = 2
        BY <2>2
      <4>2. QED
        BY <1>1, <1>5, <2>1, <4>1, FollowsCases, Script
    <3>2. /\ p + 1 <= m /\ m - (p + 1) <= Len(fifo') /\ Len(fifo') = m - (p + 1)
          /\ Len(fifo') - (m - (p + 1)) = 0
      BY <1>2, <1>3, <2>1
    <3>3. ASSUME NEW i \in 1 .. Len(fifo') PROVE fifo'[i] = LoginScript[i - 0 + (p + 1)]
      <4>1. i + 1 \in 1 .. Len(fifo) /\ fifo'[i] = fifo[i + 1] /\ ~(i + 1 <= d)
        BY <1>2, <1>7
      <4>2. (i + 1) - d + p = i - 0 + (p + 1)
        BY <1>2, <1>7
      <4>3. QED
        BY <1>5, <4>1, <4>2
    <3>4. \A i \in 1 .. Len(fifo') : ~(i <= 0)
      BY <1>2
    <3>5. p + 1 \in 0 .. 3
      BY <2>2
    <3>6. ReadsAt(j, p + 1)'
      BY <1>3, <3>1, <3>2, <3>3, <3>4 DEF ReadsAt
    <3>7. QED
      BY <2>1, <3>5, <3>6
  <2>3. CASE p = 3
    <3>1. prompt' = "dialing"
      BY <1>1, <1>5, <2>3, FollowsCases, Script
    <3>2. m = 4 /\ Len(fifo) = 1
      BY <1>2, <1>3, <2>1, <2>3
    <3>3. fifo' = <<>>
      BY <1>1, <3>2
    <3>4. HasRead(j)'
      BY <1>3, <3>1, <3>2, <3>3 DEF HasRead
    <3>5. QED
      BY <2>1, <3>4
  <2>4. QED
    BY <2>2, <2>3
<1>8. QED
  BY <1>4, <1>6, <1>7

(* The client reads one line.                                              *)
LEMMA ClientReadsInv ==
    ASSUME Inv, ClientReads
    PROVE  Inv'
<1>1. /\ fifo \in Seq(Lines) /\ fifo # <<>> /\ fifo' = Tail(fifo)
      /\ prompt \in Prompts /\ prompt # "dialing" /\ prompt' = Follows(Head(fifo))
      /\ tunnel' = IF prompt = "online" /\ Head(fifo) = "disconnect" THEN "down" ELSE tunnel
      /\ misread' = (misread \/ (Head(fifo) \in {"username", "password"} /\ Head(fifo) # prompt))
  BY DEF Inv, Shapes, ClientReads
<1>2. UNCHANGED <<config, jobVars, reading, restarts, disturbed>>
  BY DEF ClientReads
<1>3. prompt' \in Prompts /\ fifo' \in Seq(Lines)
  <2>1. prompt' \in Prompts
    BY <1>1, FollowsCases DEF Prompts
  <2>2. fifo' \in Seq(Lines)
    BY <1>1
  <2>3. QED
    BY <2>1, <2>2
<1>4. Shapes'
  BY <1>1, <1>2, <1>3 DEF Inv, Shapes, jobVars
<1>5. \A k \in Jobs : WrittenInv(k)' /\ EndInv(k)' /\ SeenInv(k)'
  BY <1>2 DEF Inv, WrittenInv, EndInv, SeenInv, jobVars
<1>6. ClientInv'
  BY <1>1, FollowsCases DEF Inv, ClientInv, Prompts
<1>7. SoloInv'
  BY <1>2 DEF Inv, SoloInv, Running, Started, jobVars
<1>8. \A k \in Jobs : (Logging(k)' => Logging(k)) /\ (Logging(k) => Logging(k)')
  BY <1>2 DEF Logging, jobVars
<1>9. ASSUME NEW k \in Jobs, ~disturbed, Logging(k)
      PROVE  /\ HasRead(k)' \/ \E p \in 0 .. 3 : ReadsAt(k, p)'
             /\ Head(fifo) \in {"disconnect", prompt}
  <2>1. ~HasRead(k)
    BY <1>1 DEF HasRead
  <2>2. PICK p \in 0 .. 3 : ReadsAt(k, p)
    BY <1>9, <2>1 DEF Inv, LoginInv
  <2>3. QED
    BY <1>9, <2>2, ReadsOn
<1>10. ASSUME ~disturbed, \A k \in Jobs : ~Logging(k)
       PROVE  Idle' /\ Head(fifo) = "disconnect"
  <2>1. Idle
    BY <1>10 DEF Inv, IdleInv
  <2>2. /\ Len(fifo) \in Nat \ {0} /\ Head(fifo) = fifo[1] /\ Len(fifo') = Len(fifo) - 1
        /\ \A i \in 1 .. Len(fifo) - 1 : fifo'[i] = fifo[i + 1]
    BY <1>1
  <2>3. Head(fifo) = "disconnect"
    BY <2>1, <2>2 DEF Idle
  <2>4. prompt' = "profile"
    BY <1>1, <2>1, <2>3, FollowsCases DEF Idle
  <2>5. \A i \in 1 .. Len(fifo') : fifo'[i] = "disconnect"
    BY <2>1, <2>2 DEF Idle
  <2>6. QED
    BY <2>3, <2>4, <2>5 DEF Idle
<1>11. IdleInv' /\ \A k \in Jobs : LoginInv(k)'
  BY <1>2, <1>8, <1>9, <1>10 DEF IdleInv, LoginInv
<1>12. LoginUndisturbed'
  <2>1. ~disturbed => Head(fifo) \in {"disconnect", prompt}
    BY <1>9, <1>10
  <2>2. QED
    BY <1>1, <1>2, <2>1 DEF Inv, LoginUndisturbed
<1>13. QED
  BY <1>4, <1>5, <1>6, <1>7, <1>11, <1>12 DEF Inv

(* The session comes up, or the login is rejected, when every line of it   *)
(* has been read; a session that drops leaves nothing but disconnects; a   *)
(* restart is a disturbance.                                               *)
LEMMA ClientElseInv ==
    ASSUME Inv, ClientDials \/ TunnelDrops \/ ClientStops \/ ClientStarts
    PROVE  Inv'
<1>1. UNCHANGED <<config, jobVars, misread>>
  BY DEF ClientDials, TunnelDrops, ClientStops, ClientStarts
<1>2. Shapes'
  <2>1. /\ tunnel' \in {"down", "iface", "up"} /\ prompt' \in Prompts /\ fifo' \in Seq(Lines)
        /\ restarts' \in 0 .. MaxRestarts
    <3>1. /\ tunnel' \in {"down", "iface", "up"} /\ prompt' \in Prompts
          /\ fifo' = fifo \/ fifo' = <<>>
      BY DEF Inv, Shapes, Prompts, ClientDials, TunnelDrops, ClientStops, ClientStarts
    <3>2. restarts' = restarts \/ (restarts < MaxRestarts /\ restarts' = restarts + 1)
      BY DEF ClientDials, TunnelDrops, ClientStops, ClientStarts
    <3>3. restarts' \in 0 .. MaxRestarts
      BY <3>2, NamespaceAssumption DEF Inv, Shapes
    <3>4. fifo' \in Seq(Lines)
      <4>1. <<>> \in Seq(Lines) /\ fifo \in Seq(Lines)
        BY DEF Inv, Shapes
      <4>2. QED
        BY <3>1, <4>1
    <3>5. QED
      BY <3>1, <3>3, <3>4
  <2>2. reading' \in BOOLEAN /\ disturbed' \in BOOLEAN
    BY DEF Inv, Shapes, ClientDials, TunnelDrops, ClientStops, ClientStarts
  <2>3. QED
    BY <1>1, <2>1, <2>2 DEF Inv, Shapes, jobVars
<1>3. \A k \in Jobs : WrittenInv(k)' /\ EndInv(k)' /\ SeenInv(k)'
  BY <1>1 DEF Inv, WrittenInv, EndInv, SeenInv, jobVars
<1>4. ClientInv'
  BY DEF Inv, Shapes, ClientInv, ClientDials, TunnelDrops, ClientStops, ClientStarts
<1>5. (disturbed => disturbed') /\ LoginUndisturbed'
  BY <1>1 DEF Inv, LoginUndisturbed, ClientDials, TunnelDrops, ClientStops, ClientStarts
<1>6. SoloInv'
  BY <1>1, <1>5 DEF Inv, SoloInv, Running, Started, jobVars
<1>7. \A k \in Jobs : (Logging(k)' => Logging(k)) /\ (Logging(k) => Logging(k)')
  BY <1>1 DEF Logging, jobVars
<1>8. ~disturbed' => /\ fifo' = fifo /\ sent' = sent
                     /\ \/ prompt' = prompt
                        \/ prompt = "dialing" /\ prompt' \in {"online", "profile"}
                        \/ tunnel = "up" /\ prompt' = "profile"
  BY <1>1 DEF jobVars, ClientDials, TunnelDrops, ClientStops, ClientStarts
<1>9. ASSUME NEW k \in Jobs, ~disturbed', Logging(k)
      PROVE  HasRead(k)' \/ \E p \in 0 .. 3 : ReadsAt(k, p)'
  <2>1. HasRead(k) \/ \E p \in 0 .. 3 : ReadsAt(k, p)
    BY <1>5, <1>9 DEF Inv, LoginInv
  <2>2. CASE prompt' = prompt
    BY <1>8, <1>9, <2>1, <2>2, ClientSame
  <2>3. CASE prompt' # prompt
    <3>1. \A p \in 0 .. 3 : p = 0 \/ p = 1 \/ p = 2 \/ p = 3
      OBVIOUS
    <3>2. \A p \in 0 .. 3 : ~ReadsAt(k, p)
      BY <1>8, <1>9, <2>3, <3>1, Script DEF Inv, ClientInv, ReadsAt
    <3>3. HasRead(k)
      BY <2>1, <3>2
    <3>4. QED
      BY <1>8, <1>9, <2>3, <3>3 DEF HasRead
  <2>4. QED
    BY <2>2, <2>3
<1>10. ASSUME ~disturbed', \A k \in Jobs : ~Logging(k)
       PROVE  Idle'
  <2>1. Idle
    BY <1>5, <1>10 DEF Inv, IdleInv
  <2>2. QED
    BY <1>8, <1>10, <2>1 DEF Idle
<1>11. IdleInv' /\ \A k \in Jobs : LoginInv(k)'
  BY <1>7, <1>9, <1>10 DEF IdleInv, LoginInv
<1>12. QED
  BY <1>2, <1>3, <1>4, <1>5, <1>6, <1>11 DEF Inv

(* Every step preserves the invariant.                                     *)
LEMMA NextInv == Inv /\ [Next]_vars => Inv'
<1> SUFFICES ASSUME Inv, [Next]_vars PROVE Inv'
  OBVIOUS
<1>1. CASE UNCHANGED vars
  <2>1. UNCHANGED <<config, jobVars, fifo, tunnel, prompt, reading, restarts, misread, disturbed>>
    BY <1>1 DEF vars, clientVars
  <2>2. Shapes'
    BY <2>1 DEF Inv, Shapes, jobVars
  <2>3. \A k \in Jobs : WrittenInv(k)' /\ EndInv(k)' /\ SeenInv(k)'
    BY <2>1 DEF Inv, WrittenInv, EndInv, SeenInv, jobVars
  <2>4. ClientInv' /\ SoloInv' /\ LoginUndisturbed'
    BY <2>1 DEF Inv, ClientInv, SoloInv, Running, Started, LoginUndisturbed, jobVars
  <2>5. IdleInv' /\ \A k \in Jobs : LoginInv(k)'
    BY <2>1, ClientSame DEF Inv, IdleInv, LoginInv, Logging, jobVars
  <2>6. QED
    BY <2>2, <2>3, <2>4, <2>5 DEF Inv
<1>2. CASE \E j \in Jobs : JobStep(j)
  BY <1>2, StartInv, ShowAddressInv, ShowRoutesInv, CredentialsMissingInv, WriteLineInv,
     WriteLineFailsInv, CheckDeadlineInv, OperationInv, CleanupInv DEF JobStep
<1>3. CASE \E j \in Jobs : DeadlinePasses(j)
  BY <1>3, DeadlinePassesInv
<1>4. CASE ClientStep
  BY <1>4, ClientReadsInv, ClientElseInv DEF ClientStep
<1>5. QED
  BY <1>1, <1>2, <1>3, <1>4 DEF Next, Quiet

(* The inductive invariant holds of every behaviour.                       *)
LEMMA InvHolds == Spec => []Inv
  BY InitInv, NextInv, PTL DEF Spec

-----------------------------------------------------------------------------
(* container_namespace_executor.py:45-57: whatever step of run fails, the  *)
(* finally block runs the cleanup hook once, and not at all in a           *)
(* deployment that keeps the session.                                      *)
THEOREM HookRunsOnce == Spec => []CleanupOnce
<1>1. Inv => CleanupOnce
  BY DEF Inv, EndInv, CleanupOnce
<1>2. QED
  BY InvHolds, <1>1, PTL

(* A successful result tells a session that was left up from one that was  *)
(* not, although its warnings are added to after it was built.             *)
THEOREM ResultsTellTheTruth == Spec => []WarningsTrue
<1>1. Inv => WarningsTrue
  BY DEF Inv, EndInv, WarningsTrue
<1>2. QED
  BY InvHolds, <1>1, PTL

(* _ensure_vpn_connected: no job goes on to its operation without having   *)
(* seen interface and route.                                               *)
THEOREM SessionSeenBeforeOperation == Spec => []OperationAfterPreflight
<1>1. Inv => OperationAfterPreflight
  BY DEF Inv, SeenInv, OperationAfterPreflight
<1>2. QED
  BY InvHolds, <1>1, PTL

(* _login hands user name and password to the prompts that ask for them,   *)
(* unless one of the disturbances LoginUndisturbed lists has occurred.     *)
THEOREM CredentialsAtTheirPrompts == Spec => []LoginUndisturbed
<1>1. Inv => LoginUndisturbed
  BY DEF Inv
<1>2. QED
  BY InvHolds, <1>1, PTL

(* Every variable holds a value of its kind, and no job writes more than   *)
(* one login and one disconnect.                                           *)
THEOREM TypesHold == Spec => []TypeOK
<1>1. Inv => TypeOK
  <2> SUFFICES ASSUME Inv PROVE TypeOK
    OBVIOUS
  <2>1. \A j \in Jobs : sent[j] \in Seq(Lines) /\ Len(sent[j]) <= Len(LoginScript) + 1
    <3> SUFFICES ASSUME NEW j \in Jobs PROVE Len(sent[j]) <= 5 /\ sent[j] \in Seq(Lines)
      <4>1. Len(LoginScript) + 1 = 5
        BY Script
      <4>2. QED
        BY <4>1
    <3>1. sent[j] \in Seq(Lines) /\ (Len(sent[j]) <= 4 \/ Len(sent[j]) <= 5)
      BY DEF Inv, Shapes, WrittenInv
    <3>2. QED
      BY <3>1
  <2>2. QED
    BY <2>1 DEF Inv, Shapes, TypeOK
<1>2. QED
  BY InvHolds, <1>1, PTL
=============================================================================

--------------------------- MODULE ServerCommands ---------------------------
(***************************************************************************)
(* The commands that talk to adb-gos: adb-go forward and reverse with their  *)
(* server flags, adb-go server and adb-go devices                            *)
(* (cmd/adb-go/internal/custom) and adb-shaped start-server,                 *)
(* kill-server, devices, get-state and reverse (internal/compat), several at *)
(* once, with the server's side of a request (handleRequest).                *)
(*                                                                         *)
(* A command sends one or more requests, each under a deadline; the          *)
(* goroutine that serves a request outlives a client that has given up.  A   *)
(* registry is its table (MappingTable, which ForwardRegistry and            *)
(* ReverseRegistry implement); creates keep their two lookups and the        *)
(* unlocked set-up between them, and a removal may never return              *)
(* (RemovalReturns of ReverseRegistry), which leaves the mutex locked.  The   *)
(* two registries share nothing, so a behaviour uses one or neither.            *)
(***************************************************************************)
EXTENDS Integers, FiniteSets

CONSTANTS
    Clients,    \* shells, each of which runs one command after another
    Endpoints,  \* local endpoints of forwards, remote endpoints of reverses
    Devices,    \* TCP devices, by serial and address
    Selectors,  \* -s SERIAL, -d ("usb"), -e ("emulator") or neither ("any")
    None,
    MaxIds      \* ids a server hands out

ASSUME CommandsAssumption ==
    /\ None \notin Endpoints \cup Devices /\ {"any", "usb", "emulator"} \cap Devices = {}
    /\ Selectors \subseteq Devices \cup {"any", "usb", "emulator"}
    /\ MaxIds \in Nat \ {0}

VARIABLES
    registry, \* the registry of this behaviour, "forward", "reverse" or "neither"
    up,       \* a server listens on the socket
    devices,  \* devices registered with the server
    table,    \* id and device of the mapping listed under an endpoint
    nextID,   \* the last id handed out
    stuck,    \* the registry's mutex is never unlocked again
    gone,     \* history: ids that commands have reported as removed
    job,      \* the request of a shell and how far the server is with it
    client    \* the command of a shell

processVars == <<registry, up>>
registryVars == <<table, nextID, stuck, gone>>
serverVars == <<processVars, devices, registryVars>>
vars == <<serverVars, job, client>>

Ids == 1 .. MaxIds

Request(name, endpoint, id, dev, norebind) ==
    [step |-> "unsent", name |-> name, endpoint |-> endpoint, id |-> id, device |-> dev, norebind |-> norebind]
NoRequest == Request("none", None, 0, None, FALSE)

\* A command: where it is, its next request, what it is for, the device it resolved, the ids it
\* has yet to remove, and its exit code.  As history: the ids its listing had for
\* it, and whether the server that listed them is still there.
Command(tool, verb, endpoint, selector, norebind) ==
    [pc |-> "probe", ask |-> "none", tool |-> tool, verb |-> verb, endpoint |-> endpoint, selector |-> selector,
     norebind |-> norebind, device |-> None, todo |-> {}, exit |-> 0, ids |-> {}, same |-> FALSE]
NoCommand == [Command("none", "none", None, "any", FALSE) EXCEPT !.pc = "exited"]

NoMapping == [id |-> 0, device |-> None]
Empty == [e \in Endpoints |-> NoMapping]

\* The rows of a listing.
Row(e) == [id |-> table[e].id, device |-> table[e].device, endpoint |-> e]
Rows == {Row(e) : e \in {x \in Endpoints : table[x] # NoMapping}}
IdsOf(rows) == {r.id : r \in rows}

Init ==
    /\ registry \in {"forward", "reverse", "neither"}
    /\ up = FALSE
    /\ devices = {} /\ table = Empty /\ nextID = 0 /\ stuck = FALSE /\ gone = {}
    /\ job = [p \in Clients |-> NoRequest]
    /\ client = [p \in Clients |-> NoCommand]

-----------------------------------------------------------------------------
(* The server process.  ServerLifecycle has the detail of its start.         *)

\* A process of adb-gos, started by somebody or by ensureServer, gets to listen.
\* Everything it keeps in memory is empty (Init, Gone).
becomeReady ==
    /\ ~up /\ up' = TRUE
    /\ UNCHANGED <<registry, devices, registryVars, job, client>>

\* The server goes, and its goroutines and its memory with it.
Gone ==
    /\ up' = FALSE
    /\ devices' = {} /\ table' = Empty /\ nextID' = 0 /\ stuck' = FALSE /\ gone' = {}
    /\ job' = [p \in Clients |-> NoRequest]
    /\ client' = [p \in Clients |-> [client[p] EXCEPT !.same = FALSE]]
    /\ UNCHANGED registry

serverDies == up /\ Gone

\* device_register, sent by a program other than adb-go.
register(d) ==
    /\ up
    /\ devices' = devices \cup {d}
    /\ UNCHANGED <<processVars, registryVars, job, client>>

-----------------------------------------------------------------------------
(* What a command does with an answer: the commands it can turn into.  The    *)
(* answer is read in the step in which the server writes it.                 *)

Ended(code) == [NoCommand EXCEPT !.exit = code]
Ask(c, name) == [c EXCEPT !.pc = "probe", !.ask = name]

\* resolveCompatTarget: of the server's TCP devices and the host's USB devices
\* (None stands for one), those the selector admits.
Admitted(selector, tcp, usb) ==
    CASE selector \in Devices -> {selector} \cap tcp
      [] selector = "usb" -> usb
      [] selector = "emulator" -> tcp
      [] OTHER -> tcp \cup usb

\* resolveReverseTarget: one target, a TCP device that is not offline.
Usable(targets, offline) == Cardinality(targets) = 1 /\ targets \subseteq Devices \ offline

\* The host's USB devices cannot be listed: a compat command ends.
USBFailure(c) == IF c.tool = "compat" THEN {Ended(1)} ELSE {}

\* Of device_list, with the host's USB devices.
AfterDevices(c, targets, offline) ==
    USBFailure(c) \cup
    CASE c.verb = "devices" -> {Ended(0)}
      [] c.verb = "get_state" -> {Ended(IF Cardinality(targets) = 1 THEN 0 ELSE 1)}
      [] c.verb = "list" -> {Ended(IF Usable(targets, offline) THEN 0 ELSE 1)}
      [] OTHER -> IF ~Usable(targets, offline) THEN {Ended(1)}
                  ELSE {Ask([c EXCEPT !.device = d, !.selector = "any"], IF c.verb = "create" THEN "create" ELSE "list") :
                          d \in targets}

\* Mutant: the device is not looked at.
ChosenOfAll(c) == IdsOf({r \in Rows : c.verb = "remove" => r.endpoint = c.endpoint})

\* The rows a removal is after: those of the device, and for --remove
\* (findReverseID) the one of the endpoint.
Chosen(c) == IdsOf({r \in Rows : r.device = c.device /\ (c.verb = "remove" => r.endpoint = c.endpoint)})

\* Of list.
AfterList(c) ==
    CASE c.verb = "list" -> {IF c.selector = "any" THEN Ended(0) ELSE Ask(c, "device_list")}
      [] c.verb # "list" /\ Chosen(c) # {} -> {Ask([c EXCEPT !.todo = Chosen(c), !.ids = Chosen(c), !.same = TRUE], "remove")}
      [] OTHER -> {Ended(IF c.verb = "remove" THEN 1 ELSE 0)}

\* Mutant: --remove-all stops when all that is left is one mapping.
AfterRemoveEarly(c) == {IF Cardinality(c.todo) > 1 THEN Ask(c, "remove") ELSE Ended(0)}

\* Of a removal that succeeded; one that fails ends the command.
AfterRemove(c) == {IF c.todo # {} THEN Ask(c, "remove") ELSE Ended(0)}

-----------------------------------------------------------------------------
(* handleRequest.  At is p's goroutine at a step of a request.               *)

At(p, step, name) == up /\ job[p].step = step /\ job[p].name = name
Set(p, c) == client' = [client EXCEPT ![p] = c]
Step(p, label) ==
    /\ job' = [job EXCEPT ![p].step = label]
    /\ UNCHANGED client

\* The answer is written; a client that has given up does not read it.
Answer(p, commands) ==
    /\ job' = [job EXCEPT ![p] = NoRequest]
    /\ IF client[p].pc = "await" THEN \E c \in commands : Set(p, c) ELSE UNCHANGED client
Refuse(p) == Answer(p, {Ended(1)})

\* A device is listed as whoever registered it last said, as online or offline.
handleDeviceList(p) ==
    /\ At(p, "handle", "device_list")
    /\ \E offline \in SUBSET devices, usb \in SUBSET {None} :
         Answer(p, AfterDevices(client[p], Admitted(client[p].selector, devices, usb), offline))
    /\ UNCHANGED serverVars

handlePing(p) ==
    /\ At(p, "handle", "ping")
    /\ Answer(p, {Ended(0)})
    /\ UNCHANGED serverVars

\* The summary of both registries takes their mutexes.
handleStatus(p) ==
    /\ At(p, "handle", "status") /\ ~stuck
    /\ Answer(p, {Ended(0)})
    /\ UNCHANGED serverVars

\* The reply is written, then the server shuts down.
handleShutdown(p) ==
    /\ At(p, "handle", "shutdown")
    /\ job' = [job EXCEPT ![p].step = "closing"]
    /\ IF client[p].pc = "await" THEN Set(p, Ended(0)) ELSE UNCHANGED client
    /\ UNCHANGED serverVars

shutDown(p) == At(p, "closing", "shutdown") /\ Gone

handleList(p) ==
    /\ At(p, "handle", "list") /\ ~stuck
    /\ Answer(p, AfterList(client[p]))
    /\ UNCHANGED serverVars

Without(rows) == [e \in Endpoints |-> IF \E r \in rows : r.endpoint = e THEN NoMapping ELSE table[e]]

\* A removeLocked of one of the rows never returns: the mutex stays locked.
NeverReturns(p, rows) ==
    /\ \E some \in (SUBSET rows) \ {{}} : table' = Without(some)
    /\ stuck' = TRUE
    /\ Step(p, "stuck")

\* The mapping a remove request names, by id or by endpoint.
Named(p) == {r \in Rows : IF job[p].id # 0 THEN r.id = job[p].id ELSE r.endpoint = job[p].endpoint}

\* A command that has removed all it was after says so; of a compat command these
\* are the ids of its listing, if this server made it.
Reported(p, ids) ==
    LET c == client[p] IN
    CASE c.pc = "await" /\ c.tool = "custom" -> ids
      [] c.pc = "await" /\ c.tool # "custom" /\ c.same /\ AfterRemove(c) = {Ended(0)} -> c.ids
      [] OTHER -> {}

handleRemove(p) ==
    /\ At(p, "handle", "remove") /\ ~stuck
    /\ \/ /\ Named(p) = {} /\ Refuse(p)
          /\ UNCHANGED <<table, stuck, gone>>
       \/ /\ Named(p) # {} /\ Answer(p, AfterRemove(client[p]))
          /\ table' = Without(Named(p)) /\ gone' = gone \cup Reported(p, IdsOf(Named(p)))
          /\ UNCHANGED stuck
       \/ NeverReturns(p, Named(p)) /\ UNCHANGED gone
    /\ UNCHANGED <<processVars, devices, nextID>>

handleRemoveAll(p) ==
    /\ At(p, "handle", "remove_all") /\ ~stuck
    /\ \/ /\ Answer(p, {Ended(0)})
          /\ table' = Empty /\ gone' = gone \cup Reported(p, IdsOf(Rows))
          /\ UNCHANGED stuck
       \/ NeverReturns(p, Rows) /\ UNCHANGED gone
    /\ UNCHANGED <<processVars, devices, nextID>>

Existing(p) == {r \in Rows : r.endpoint = job[p].endpoint}

\* Parameters that the client let pass and the server refuses, such as a port of
\* the target that is none.
validateForwardCreateParams(p) ==
    /\ At(p, "handle", "create") /\ registry = "forward"
    /\ Refuse(p)
    /\ UNCHANGED serverVars
validateReverseCreateParams(p) ==
    /\ At(p, "handle", "create") /\ registry = "reverse"
    /\ Refuse(p)
    /\ UNCHANGED serverVars

\* create, its first lookup: a mapping of the endpoint is in the way of norebind,
\* and goes otherwise.
handleCreate(p) ==
    /\ At(p, "handle", "create") /\ ~stuck
    /\ \/ /\ Existing(p) # {} /\ job[p].norebind /\ Refuse(p)
          /\ UNCHANGED <<table, stuck>>
       \/ /\ Existing(p) = {} \/ ~job[p].norebind
          /\ \/ /\ table' = Without(Existing(p)) /\ UNCHANGED stuck
                /\ Step(p, "setup")
             \/ NeverReturns(p, Existing(p))
    /\ UNCHANGED <<processVars, devices, nextID, gone>>

\* A forward listens: its address is free if no forward is listed under it and
\* no other create has it.
CanListen(p) ==
    registry = "forward" =>
      Existing(p) = {} /\ \A q \in Clients : job[q].step = "publish" => job[q].endpoint # job[p].endpoint

\* nextForwardID, nextReverseID.
nextId == nextID + 1

\* net.Listen; or the connection to the device, for up to 10 s, and the
\* registration there, which may fail with an id already taken.
setUp(p) ==
    /\ At(p, "setup", "create") /\ ~stuck
    /\ \/ /\ Refuse(p)
          /\ nextID' \in {nextID} \cup ({nextId} \cap IF registry = "reverse" THEN Ids ELSE {})
       \/ /\ CanListen(p) /\ nextId \in Ids
          /\ nextID' = nextId
          /\ job' = [job EXCEPT ![p].id = nextId, ![p].step = "publish"]
          /\ UNCHANGED client
    /\ UNCHANGED <<processVars, devices, table, stuck, gone>>

Listing(p) == [table EXCEPT ![job[p].endpoint] = [id |-> job[p].id, device |-> job[p].device]]

\* Mutant: the second lookup forgets norebind.
publishRebinds(p) ==
    /\ At(p, "publish", "create") /\ ~stuck
    /\ table' = Listing(p) /\ Answer(p, {Ended(0)})
    /\ UNCHANGED <<processVars, devices, nextID, stuck, gone>>

\* The second lookup, and the mapping is listed.
publish(p) ==
    /\ At(p, "publish", "create") /\ ~stuck
    /\ \/ /\ Existing(p) # {} /\ job[p].norebind /\ Refuse(p)
          /\ UNCHANGED <<table, stuck>>
       \/ /\ Existing(p) = {} \/ ~job[p].norebind
          /\ \/ /\ table' = Listing(p) /\ UNCHANGED stuck
                /\ Answer(p, {Ended(0)})
             \/ NeverReturns(p, Existing(p))
    /\ UNCHANGED <<processVars, devices, nextID, gone>>

-----------------------------------------------------------------------------
(* The client's side of a request.                                         *)

Exit(p, code) == Set(p, Ended(code))

\* Send: the connection is refused, and command c ends with code, or the server
\* has its request.
Send(p, c, r, code) ==
    \/ /\ ~up
       /\ Set(p, Ended(code))
       /\ UNCHANGED job
    \/ /\ up
       /\ Set(p, [c EXCEPT !.pc = "await"])
       /\ job' = [job EXCEPT ![p] = [r EXCEPT !.step = "handle"]]

\* An error of Send is exit code 1, but for kill-server, which takes every error
\* for an absent server, and for the doctor, whose diagnosis it is.
ErrorCode(p) == IF client[p].verb \in {"kill_server", "doctor"} THEN 0 ELSE 1

\* The command ends before its answer.  What a compat removal was for is kept, for
\* the request may yet be served.
GiveUp(p) ==
    LET c == client[p] IN
    Set(p, IF c.ask = "remove" THEN [c EXCEPT !.pc = "exited", !.exit = 1, !.todo = {}, !.ids = {}]
           ELSE Ended(ErrorCode(p)))

\* The server went before it answered.
connectionLost(p) ==
    /\ client[p].pc = "await" /\ job[p] = NoRequest
    /\ Exit(p, ErrorCode(p))
    /\ UNCHANGED <<serverVars, job>>

\* The 2 s of the request's context end; the device_list of resolveCompatTarget
\* has no such context.
deadline(p) ==
    /\ client[p].pc = "await"
    /\ job[p].name # "device_list" \/ client[p].verb = "devices"
    /\ GiveUp(p)
    /\ UNCHANGED <<serverVars, job>>

\* A shell runs the next command when the last one has ended and, to keep one
\* goroutine per shell, the server is done with what that one left behind.
CanRun(p) == client[p].pc = "exited" /\ job[p] = NoRequest

-----------------------------------------------------------------------------
(* adb-go forward and adb-go reverse with a server flag, adb-go server and     *)
(* adb-go devices.                                                          *)

\* A custom command is its one request; every error is exit code 1.
SendCustom(p, verb, r) == Send(p, Command("custom", verb, None, "any", FALSE), r, 1)

CreateRequests == {Request("create", e, 0, d, n) : e \in Endpoints, d \in Devices, n \in BOOLEAN}
\* By the endpoint or by the id.
RemoveRequests ==
    {Request("remove", e, 0, None, FALSE) : e \in Endpoints} \cup {Request("remove", None, i, None, FALSE) : i \in Ids}

runForwardServerCreate(p) == \E r \in CreateRequests : SendCustom(p, "create", r)
runForwardServerList(p) == SendCustom(p, "list", Request("list", None, 0, None, FALSE))
runForwardServerRemove(p) == \E r \in RemoveRequests : SendCustom(p, "remove", r)
runForwardServerRemoveAll(p) == SendCustom(p, "remove_all", Request("remove_all", None, 0, None, FALSE))

runReverseServerCreate(p) == \E r \in CreateRequests : SendCustom(p, "create", r)
runReverseServerList(p) == SendCustom(p, "list", Request("list", None, 0, None, FALSE))
runReverseServerRemove(p) == \E r \in RemoveRequests : SendCustom(p, "remove", r)
runReverseServerRemoveAll(p) == SendCustom(p, "remove_all", Request("remove_all", None, 0, None, FALSE))

\* The flags make no sense: more than one operation, norebind without a create,
\* arguments that do not parse, a target the server cannot reach by itself.
UsageError(p) == Exit(p, 2) /\ UNCHANGED job

runForwardWithOptions(p) ==
    /\ CanRun(p) /\ registry = "forward"
    /\ \/ UsageError(p)
       \/ runForwardServerCreate(p) \/ runForwardServerList(p)
       \/ runForwardServerRemove(p) \/ runForwardServerRemoveAll(p)
    /\ UNCHANGED serverVars

runReverseWithOptions(p) ==
    /\ CanRun(p) /\ registry = "reverse"
    /\ \/ UsageError(p)
       \/ runReverseServerCreate(p) \/ runReverseServerList(p)
       \/ runReverseServerRemove(p) \/ runReverseServerRemoveAll(p)
    /\ UNCHANGED serverVars

\* The doctor looks at the socket's file and asks systemctl besides, changes nothing
\* and always succeeds.
runServerDoctorWithJSON(p) ==
    Send(p, Command("custom", "doctor", None, "any", FALSE), Request("status", None, 0, None, FALSE), 0)

\* adb-go server ping, status, stop and doctor.
runServerWithJSON(p) ==
    /\ CanRun(p)
    /\ \/ UsageError(p)
       \/ \E name \in {"ping", "status", "shutdown"} : SendCustom(p, "server", Request(name, None, 0, None, FALSE))
       \/ runServerDoctorWithJSON(p)
    /\ UNCHANGED serverVars

runDevicesWithJSON(p) ==
    /\ CanRun(p)
    /\ UsageError(p) \/ SendCustom(p, "devices", Request("device_list", None, 0, None, FALSE))
    /\ UNCHANGED serverVars

-----------------------------------------------------------------------------
(* The adb-shaped commands.  Each request but shutdown goes through           *)
(* ensureServer first.                                                      *)

Compat(verb, endpoint, selector, norebind) == Command("compat", verb, endpoint, selector, norebind)

First(p, c, name) == Set(p, Ask(c, name))

runStartServer(p) ==
    /\ CanRun(p)
    /\ First(p, Compat("start_server", None, "any", FALSE), "none")
    /\ UNCHANGED <<serverVars, job>>

runDevices(p) ==
    /\ CanRun(p)
    /\ First(p, Compat("devices", None, "any", FALSE), "device_list")
    /\ UNCHANGED <<serverVars, job>>

runGetState(p) ==
    /\ CanRun(p)
    /\ \E s \in Selectors : First(p, Compat("get_state", None, s, FALSE), "device_list")
    /\ UNCHANGED <<serverVars, job>>

runKillServer(p) ==
    /\ CanRun(p)
    /\ Send(p, Compat("kill_server", None, "any", FALSE), Request("shutdown", None, 0, None, FALSE), 0)
    /\ UNCHANGED serverVars

runReverseCreate(p, s) ==
    \E e \in Endpoints, norebind \in BOOLEAN : First(p, Compat("create", e, s, norebind), "device_list")
runReverseList(p, s) == First(p, Compat("list", None, s, FALSE), "list")
runReverseRemove(p, s) == \E e \in Endpoints : First(p, Compat("remove", e, s, FALSE), "device_list")
runReverseRemoveAll(p, s) == First(p, Compat("remove_all", None, s, FALSE), "device_list")

\* adb reverse: arguments that make no sense, or the first request.
runReverse(p) ==
    /\ CanRun(p) /\ registry = "reverse"
    /\ \/ Exit(p, 1)
       \/ \E s \in Selectors :
            runReverseCreate(p, s) \/ runReverseList(p, s) \/ runReverseRemove(p, s) \/ runReverseRemoveAll(p, s)
    /\ UNCHANGED <<serverVars, job>>

\* The command's request.  The ids of a listing go in whichever order it had them.
SendNext(p) ==
    LET c == client[p] IN
    \/ c.ask \in {"device_list", "list"} /\ Send(p, c, Request(c.ask, None, 0, None, FALSE), 1)
    \/ c.ask = "create" /\ Send(p, c, Request("create", c.endpoint, 0, c.device, c.norebind), 1)
    \/ c.ask = "remove" /\ \E i \in c.todo :
         Send(p, [c EXCEPT !.todo = @ \ {i}], Request("remove", None, i, None, FALSE), 1)

\* A server answers the ping: start-server is done, other commands go on.
Ready(p) ==
    /\ up
    /\ \/ client[p].verb = "start_server" /\ Exit(p, 0) /\ UNCHANGED job
       \/ client[p].verb # "start_server" /\ SendNext(p)

\* ensureServer fails, or the server it found is gone when the request is sent.
NoServer(p) == Exit(p, 1) /\ UNCHANGED job

\* A ping of up to 200 ms; when it fails adb-gos is started (becomeReady), and
\* pinged for 2 s.
ensureServer(p) ==
    /\ client[p].pc = "probe"
    /\ Ready(p) \/ NoServer(p)
    /\ UNCHANGED serverVars

-----------------------------------------------------------------------------
Serve(p) ==
    \/ handlePing(p) \/ handleStatus(p) \/ handleDeviceList(p) \/ handleShutdown(p) \/ shutDown(p) \/ handleList(p) \/ handleRemove(p)
    \/ validateForwardCreateParams(p) \/ validateReverseCreateParams(p)
    \/ handleRemoveAll(p) \/ handleCreate(p) \/ setUp(p) \/ publish(p)

Run(p) ==
    \/ runForwardWithOptions(p) \/ runReverseWithOptions(p) \/ runServerWithJSON(p) \/ runDevicesWithJSON(p)
    \/ runStartServer(p) \/ runKillServer(p) \/ runDevices(p) \/ runGetState(p) \/ runReverse(p)

Continue(p) == ensureServer(p) \/ connectionLost(p) \/ deadline(p)

Next ==
    \/ becomeReady \/ serverDies
    \/ \E d \in Devices : register(d)
    \/ \E p \in Clients : Serve(p) \/ Run(p) \/ Continue(p)

Spec == Init /\ [][Next]_vars

-----------------------------------------------------------------------------
CommandType ==
    [pc : {"probe", "await", "exited"}, ask : {"none", "device_list", "list", "create", "remove"},
     tool : {"none", "custom", "compat"},
     verb : {"none", "create", "list", "remove", "remove_all", "start_server", "kill_server", "devices", "get_state",
             "server", "doctor"},
     endpoint : Endpoints \cup {None}, selector : Selectors \cup {"any"}, norebind : BOOLEAN, device : Devices \cup {None},
     todo : SUBSET Ids, exit : {0, 1, 2}, ids : SUBSET Ids, same : BOOLEAN]

\* Every variable keeps its type, and goroutines and mappings go with the server.
TypeOK ==
    /\ up \in BOOLEAN
    /\ devices \in SUBSET Devices /\ gone \in SUBSET Ids
    /\ table \in [Endpoints -> [id : 0 .. MaxIds, device : Devices \cup {None}]]
    /\ nextID \in 0 .. MaxIds /\ stuck \in BOOLEAN
    /\ \A p \in Clients : job[p].step \in {"unsent", "handle", "setup", "publish", "stuck", "closing"}
    /\ client \in [Clients -> CommandType]
    /\ ~up => Rows = {} /\ \A p \in Clients : job[p] = NoRequest

\* A removal that exits with 0 is final: what it removed, and for adb reverse
\* --remove-all all of the device's mappings in its listing, is not listed again
\* by that server.  runReverseRemoveAll lists, then removes one id after the
\* other, while other commands remove and create.
RemovalIsFinal == gone \cap IdsOf(Rows) = {}

\* The mappings a step takes away.
Lost == {e \in Endpoints : table[e] # NoMapping /\ table'[e] # table[e]}
Served(p) == up /\ up' /\ job'[p] # job[p]

\* Removals by a stale id and creates with norebind cost no mapping they are not for.
\* What a compat removal takes away is of the device, and for --remove of the endpoint,
\* that it names, although the id comes from an earlier request of the same server; a
\* create with norebind takes away none, although it lets go of the mutex between its
\* two lookups.  Two cases are outside of it and the code does not exclude them: a
\* removal served by another server than the listing, whose ids start at 1 again, and
\* a plain create, which takes the endpoint from whichever device has it.
LosesOnlyItsOwn ==
    [][\A p \in Clients :
         LET c == client[p] IN
         Served(p) =>
           /\ job[p].norebind => Lost = {}
           /\ c.tool = "compat" /\ c.ask = "remove" /\ c.same =>
                \A e \in Lost : table[e].device = c.device /\ (c.verb = "remove" => e = c.endpoint)]_vars
=============================================================================

--------------------------- MODULE SystemdService ---------------------------
(***************************************************************************)
(* adb-go server service (cmd/adb-go/internal/custom/systemd.go): the server  *)
(* as a systemd user service, beside servers that adb start-server and        *)
(* others have started.  A command is a few steps one after the other, on the *)
(* unit file and with systemctl; the first that fails ends it, and what was    *)
(* done before stays.                                                       *)
(*                                                                         *)
(* Behaviours with registry = "neither" are about the service: in them the     *)
(* shells run its commands, start-server and kill-server.  One shell at a time *)
(* runs a command of the service.                                            *)
(***************************************************************************)
EXTENDS ServerCommands, Sequences

CONSTANT Units  \* what a unit file can say: the path of adb-gos and of the socket

ASSUME UnitsAssumption == None \notin Units

VARIABLES
    unitFile,  \* adb-gos.service in the user's unit directory
    loaded,    \* what the user's systemd manager knows of it
    enabled,
    service,   \* "inactive", "starting", "running", or "waiting" for RestartSec
    ran,       \* the unit the service's process was started from
    plan,      \* what a shell's service command has yet to do
    done       \* history: the service command that ended last, when it succeeded

managerVars == <<unitFile, loaded, enabled, service, ran>>
serviceVars == <<managerVars, plan, done>>
allVars == <<vars, serviceVars>>

Plan(verb, u, steps) == [verb |-> verb, unit |-> u, steps |-> steps]
NoPlan == Plan("none", None, <<>>)

ServiceInit ==
    /\ Init
    /\ unitFile = None /\ loaded = None /\ enabled = FALSE /\ service = "inactive" /\ ran = None
    /\ plan = [p \in Clients |-> NoPlan]
    /\ done = NoPlan

-----------------------------------------------------------------------------
(* The manager and the process it keeps.                                    *)

\* Restart=on-failure of adbGosSystemdUnit.
OnFailure == "waiting"

\* systemd reads a unit it does not know when it is asked to start it.
Effective == IF loaded # None THEN loaded ELSE unitFile

\* The service's adb-gos gets to listen, if no other server does ...
serviceListens ==
    /\ service = "starting"
    /\ becomeReady
    /\ service' = "running"
    /\ UNCHANGED <<unitFile, loaded, enabled, ran, plan, done>>

\* ... or it exits with 1.
serviceFails ==
    /\ service = "starting"
    /\ service' = OnFailure
    /\ UNCHANGED <<vars, unitFile, loaded, enabled, ran, plan, done>>

\* RestartSec is over.
serviceRestarts ==
    /\ service = "waiting" /\ Effective # None
    /\ service' = "starting" /\ ran' = Effective
    /\ UNCHANGED <<vars, unitFile, loaded, enabled, plan, done>>

\* Mutant: adb-gos detaches from the process that systemd started.
crashUnseen ==
    /\ serverDies
    /\ UNCHANGED serviceVars

\* A server crashes; systemd sees it if it is the service's.
crash ==
    /\ serverDies
    /\ service' = IF service = "running" THEN OnFailure ELSE service
    /\ UNCHANGED <<unitFile, loaded, enabled, ran, plan, done>>

\* A server shuts down on request, with exit code 0.
shutsDown(p) ==
    /\ shutDown(p)
    /\ service' = IF service = "running" THEN "inactive" ELSE service
    /\ UNCHANGED <<unitFile, loaded, enabled, ran, plan, done>>

-----------------------------------------------------------------------------
(* A step of a command.                                                     *)

writeServerServiceUnit(u) == unitFile' = u /\ UNCHANGED <<vars, loaded, enabled, service, ran>>
removeUnit == unitFile' = None /\ UNCHANGED <<vars, loaded, enabled, service, ran>>
daemonReload == loaded' = unitFile /\ UNCHANGED <<vars, unitFile, enabled, service, ran>>

\* enable and disable reload the manager too.
enable ==
    /\ unitFile # None /\ enabled' = TRUE /\ loaded' = unitFile
    /\ UNCHANGED <<vars, unitFile, service, ran>>
disable == enabled' = FALSE /\ loaded' = unitFile /\ UNCHANGED <<vars, unitFile, service, ran>>

\* start leaves a service alone that is active already.
startService ==
    /\ Effective # None
    /\ IF service = "inactive" THEN service' = "starting" /\ ran' = Effective ELSE UNCHANGED <<service, ran>>
    /\ UNCHANGED <<vars, unitFile, loaded, enabled>>

\* SIGTERM, which adb-gos does not handle.
KillService == IF service = "running" THEN Gone ELSE UNCHANGED vars

stopService ==
    /\ KillService
    /\ service' = "inactive"
    /\ UNCHANGED <<unitFile, loaded, enabled, ran>>

\* The first half of restart: a plan has a start after it, which may fail and so leave
\* the service stopped.
restartService ==
    /\ Effective # None
    /\ stopService

Does(step, u) ==
    \/ step = "write" /\ writeServerServiceUnit(u)
    \/ step = "remove" /\ removeUnit
    \/ step = "daemon-reload" /\ daemonReload
    \/ step = "enable" /\ enable
    \/ step = "disable" /\ disable
    \/ step = "start" /\ startService
    \/ step = "stop" /\ stopService
    \/ step = "restart" /\ restartService

systemctl(p) ==
    /\ plan[p].steps # <<>>
    /\ Does(Head(plan[p].steps), plan[p].unit)
    /\ plan' = [plan EXCEPT ![p].steps = Tail(@)]
    /\ UNCHANGED done

\* The step fails, and so does the command; a write that fails may have left
\* something else in the file.
runSystemctlUser(p) ==
    /\ plan[p].steps # <<>>
    /\ unitFile' \in {unitFile} \cup IF Head(plan[p].steps) = "write" THEN Units ELSE {}
    /\ plan' = [plan EXCEPT ![p] = NoPlan]
    /\ Exit(p, 1)
    /\ UNCHANGED <<serverVars, job, loaded, enabled, service, ran, done>>

serviceCommandEnds(p) ==
    /\ plan[p] # NoPlan /\ plan[p].steps = <<>>
    /\ plan' = [plan EXCEPT ![p] = NoPlan]
    /\ done' = plan[p]
    /\ Exit(p, 0)
    /\ UNCHANGED <<serverVars, job, managerVars>>

-----------------------------------------------------------------------------
(* The commands.                                                           *)

Begin(p, verb, u, steps) ==
    /\ plan' = [plan EXCEPT ![p] = Plan(verb, u, steps)]
    /\ done' = NoPlan
    /\ UNCHANGED client

\* enable --now starts the service too, disable --now stops it.
runServerServiceInstall(p) ==
    \E u \in Units : \/ Begin(p, "install", u, <<"write", "daemon-reload", "enable", "start">>)
                     \/ Begin(p, "install --no-enable", u, <<"write">>)

\* Mutant: reinstall ends as install does.
runServerServiceReinstallStarts(p) ==
    \E u \in Units : Begin(p, "reinstall", u, <<"write", "daemon-reload", "enable", "start">>)

runServerServiceReinstall(p) ==
    \E u \in Units : Begin(p, "reinstall", u, <<"write", "daemon-reload", "enable", "restart", "start">>)

runServerServiceLifecycle(p) ==
    \/ \E verb \in {"start", "stop"} : Begin(p, verb, None, <<verb>>)
    \/ Begin(p, "restart", None, <<"restart", "start">>)

\* Mutant: the manager is reloaded before the file is removed.
runServerServiceUninstallReloads(p) ==
    Begin(p, "uninstall", None, <<"disable", "stop", "daemon-reload", "remove">>)

runServerServiceUninstall(p) ==
    \/ Begin(p, "uninstall", None, <<"disable", "stop", "remove", "daemon-reload">>)
    \/ Begin(p, "uninstall --keep-unit", None, <<"disable", "stop", "daemon-reload">>)

Idle(p) == CanRun(p) /\ plan[p] = NoPlan

runServerService(p) ==
    /\ Idle(p) /\ \A q \in Clients : plan[q] = NoPlan
    /\ \/ \E code \in {1, 2} : Exit(p, code) /\ UNCHANGED <<plan, done>>
       \/ runServerServiceInstall(p) \/ runServerServiceReinstall(p)
       \/ runServerServiceLifecycle(p) \/ runServerServiceUninstall(p)
    /\ UNCHANGED <<serverVars, job, managerVars>>

ServiceCommand(p) == runServerService(p) \/ systemctl(p) \/ runSystemctlUser(p) \/ serviceCommandEnds(p)

ServerCommand(p) ==
    \/ Idle(p) /\ (runStartServer(p) \/ runKillServer(p))
    \/ handleShutdown(p) \/ Continue(p)

ServiceNext ==
    \/ registry # "neither" /\ Next /\ UNCHANGED serviceVars
    \/ /\ registry = "neither"
       /\ \/ serviceListens \/ serviceFails \/ serviceRestarts \/ crash
          \/ becomeReady /\ UNCHANGED serviceVars
          \/ \E p \in Clients :
               \/ shutsDown(p) \/ ServiceCommand(p)
               \/ ServerCommand(p) /\ UNCHANGED serviceVars

ServiceSpec == ServiceInit /\ [][ServiceNext]_allVars

-----------------------------------------------------------------------------
\* Every variable of the commands and of the service keeps its type, and a service
\* that runs is the server at the socket.
ServiceTypeOK ==
    /\ TypeOK
    /\ {unitFile, loaded, ran} \subseteq Units \cup {None}
    /\ enabled \in BOOLEAN
    /\ service \in {"inactive", "starting", "running", "waiting"}
    /\ \A p \in Clients : plan[p].unit \in Units \cup {None} /\ Len(plan[p].steps) \in 0 .. 5
    /\ service = "running" => up /\ ran # None

\* A service command that succeeds has done what it is for, whatever earlier ones
\* that failed half-way have left.  After reinstall, which is for a changed unit, the
\* file, the manager and the process of the service all have the new one, and crashes
\* and restarts since keep it so; uninstall leaves nothing of the service behind.
ServiceCommandsTakeEffect ==
    /\ done.verb = "reinstall" =>
         /\ unitFile = done.unit /\ loaded = done.unit /\ enabled
         /\ service # "inactive" => ran = done.unit
    /\ done.verb = "uninstall" => unitFile = None /\ loaded = None /\ ~enabled /\ service = "inactive"
=============================================================================

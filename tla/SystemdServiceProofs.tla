------------------------ MODULE SystemdServiceProofs ------------------------
(***************************************************************************)
(* Proofs about SystemdService, for any number of shells and units, and     *)
(* about the commands that run beside the service.                          *)
(*                                                                         *)
(* A service command is a plan, and the steps it has yet to do tell what     *)
(* those it has done have left (Reinstalling, Uninstalling); there is one at  *)
(* a time (OnePlan).                                                         *)
(***************************************************************************)
EXTENDS SystemdService, ServerCommandsProofs

\* What reinstall and uninstall leave.
Reinstalled(u) ==
    /\ u \in Units /\ unitFile = u /\ loaded = u /\ enabled
    /\ service # "inactive" => ran = u
Uninstalled == unitFile = None /\ loaded = None /\ ~enabled /\ service = "inactive"

\* How far a reinstall of unit u is when steps are left of it.
Reinstalling(u, steps) ==
    /\ u \in Units
    /\ \/ steps = <<"write", "daemon-reload", "enable", "restart", "start">>
       \/ steps = <<"daemon-reload", "enable", "restart", "start">> /\ unitFile = u
       \/ steps = <<"enable", "restart", "start">> /\ unitFile = u
       \/ steps = <<"restart", "start">> /\ unitFile = u /\ loaded = u /\ enabled
       \/ steps = <<"start">> /\ unitFile = u /\ loaded = u /\ enabled /\ service = "inactive"
       \/ steps = <<>> /\ Reinstalled(u)

Uninstalling(steps) ==
    \/ steps = <<"disable", "stop", "remove", "daemon-reload">>
    \/ steps = <<"stop", "remove", "daemon-reload">> /\ ~enabled
    \/ steps = <<"remove", "daemon-reload">> /\ ~enabled /\ service = "inactive"
    \/ steps = <<"daemon-reload">> /\ ~enabled /\ service = "inactive" /\ unitFile = None
    \/ steps = <<>> /\ Uninstalled

\* The other commands have steps of which nothing depends.
Other(verb, steps) ==
    \/ verb = "install" /\ steps \in {<<"write", "daemon-reload", "enable", "start">>,
                                      <<"daemon-reload", "enable", "start">>, <<"enable", "start">>, <<"start">>, <<>>}
    \/ verb = "install --no-enable" /\ steps \in {<<"write">>, <<>>}
    \/ verb \in {"start", "stop"} /\ steps \in {<<verb>>, <<>>}
    \/ verb = "restart" /\ steps \in {<<"restart", "start">>, <<"start">>, <<>>}
    \/ verb = "uninstall --keep-unit" /\ steps \in {<<"disable", "stop", "daemon-reload">>, <<"stop", "daemon-reload">>,
                                                    <<"daemon-reload">>, <<>>}

Progress(pl) ==
    \/ pl = NoPlan
    \/ pl.verb = "reinstall" /\ Reinstalling(pl.unit, pl.steps)
    \/ pl.verb = "uninstall" /\ Uninstalling(pl.steps)
    \/ Other(pl.verb, pl.steps)

Verbs == {"none", "install", "install --no-enable", "reinstall", "start", "stop", "restart", "uninstall",
          "uninstall --keep-unit"}
StepNames == {"write", "remove", "daemon-reload", "enable", "disable", "start", "stop", "restart"}
PlanType == [verb : Verbs, unit : Units \cup {None}, steps : Seq(StepNames)]

Plans ==
    /\ plan \in [Clients -> PlanType]
    /\ \A p \in Clients : Progress(plan[p])

\* One shell at a time has a service command, and done is of an earlier one.
OnePlan ==
    \A p \in Clients : plan[p] # NoPlan => done = NoPlan /\ \A q \in Clients \ {p} : plan[q] = NoPlan

\* What the last command that succeeded was for still holds.
Effect ==
    /\ done.verb = "reinstall" => Reinstalled(done.unit)
    /\ done.verb = "uninstall" => Uninstalled

\* The service's process was started from a unit, and in behaviours about a registry
\* there is none.
Process ==
    /\ service \in {"starting", "running"} => ran # None
    /\ registry # "neither" => service = "inactive"

ServiceInv == IInv /\ ServiceTypeOK /\ Plans /\ OnePlan /\ Effect /\ Process

-----------------------------------------------------------------------------
(* The commands beside the service.                                        *)

\* A step of the service is for the commands a step of theirs, the end of the
\* server, or the end of a command that sent nothing.
LEMMA ServiceStep ==
    ASSUME [ServiceNext]_allVars
    PROVE  \/ [Next]_vars
           \/ Gone
           \/ \E p \in Clients, code \in {0, 1, 2} : Exit(p, code) /\ UNCHANGED <<serverVars, job>>
<1>1. CASE UNCHANGED allVars BY <1>1 DEF allVars
<1>2. CASE registry # "neither" /\ Next BY <1>2
<1>3. CASE serviceListens \/ crash \/ becomeReady BY <1>3 DEF serviceListens, crash, Next
<1>4. CASE serviceFails \/ serviceRestarts BY <1>4 DEF serviceFails, serviceRestarts
<1>5. ASSUME NEW p \in Clients, shutsDown(p) \/ ServerCommand(p) PROVE Next
  BY <1>5 DEF shutsDown, ServerCommand, Next, Serve, Run
<1>6. ASSUME NEW p \in Clients, runServerService(p)
      PROVE  \/ UNCHANGED vars
             \/ \E code \in {0, 1, 2} : Exit(p, code) /\ UNCHANGED <<serverVars, job>>
  <2>1. UNCHANGED client \/ \E code \in {0, 1, 2} : Exit(p, code)
    BY <1>6 DEF runServerService, runServerServiceInstall, runServerServiceReinstall, runServerServiceLifecycle,
                runServerServiceUninstall, Begin
  <2>2. UNCHANGED <<serverVars, job>> BY <1>6 DEF runServerService
  <2> QED BY <2>1, <2>2 DEF vars
<1>7. ASSUME NEW p \in Clients, systemctl(p) PROVE UNCHANGED vars \/ Gone
  BY <1>7 DEF systemctl, Does, writeServerServiceUnit, removeUnit, daemonReload, enable, disable, startService,
              stopService, restartService, KillService
<1>8. ASSUME NEW p \in Clients, runSystemctlUser(p) \/ serviceCommandEnds(p)
      PROVE  \E code \in {0, 1, 2} : Exit(p, code) /\ UNCHANGED <<serverVars, job>>
  BY <1>8 DEF runSystemctlUser, serviceCommandEnds
<1> QED BY <1>1, <1>2, <1>3, <1>4, <1>5, <1>6, <1>7, <1>8 DEF ServiceNext, ServiceCommand

\* The commands keep their invariant.
LEMMA CommandsKeep == ASSUME IInv, [ServiceNext]_allVars PROVE IInv'
  BY ServiceStep, NextInv, GoneInv, ExitInv

\* The registry a behaviour is about stays the same.
LEMMA SameRegistry == ASSUME [ServiceNext]_allVars PROVE registry' = registry
<1>1. CASE [Next]_vars
  <2>1. CASE UNCHANGED vars BY <2>1 DEF vars, serverVars, processVars
  <2>2. CASE becomeReady \/ serverDies \/ \E d \in Devices : register(d)
    BY <2>2 DEF becomeReady, serverDies, register, Gone, processVars
  <2>3. ASSUME NEW p \in Clients, Serve(p) PROVE registry' = registry
    BY <2>3 DEF Serve, handlePing, handleStatus, handleDeviceList, handleShutdown, shutDown, handleList, handleRemove,
       validateForwardCreateParams, validateReverseCreateParams, handleRemoveAll, handleCreate, setUp, publish, Gone,
       serverVars, processVars
  <2>4. ASSUME NEW p \in Clients, Run(p) \/ Continue(p) PROVE registry' = registry
    BY <2>4 DEF Run, runForwardWithOptions, runReverseWithOptions, runServerWithJSON, runDevicesWithJSON, runStartServer,
       runKillServer, runDevices, runGetState, runReverse, Continue, ensureServer, connectionLost, deadline,
       serverVars, processVars
  <2> QED BY <1>1, <2>1, <2>2, <2>3, <2>4 DEF Next
<1> QED BY <1>1, ServiceStep DEF Gone, serverVars, processVars

-----------------------------------------------------------------------------
(* The service.                                                            *)

\* No plan is a plan, and of no verb.
LEMMA NoPlanType == NoPlan \in PlanType /\ NoPlan.verb = "none" /\ NoPlan.steps = <<>>
<1>1. <<>> \in Seq(StepNames) OBVIOUS
<1> QED BY <1>1 DEF NoPlan, Plan, PlanType, Verbs

\* A plan's fields.
LEMMA PlanFields ==
    ASSUME NEW verb \in Verbs, NEW u \in Units \cup {None}, NEW steps \in Seq(StepNames)
    PROVE  /\ Plan(verb, u, steps) \in PlanType
           /\ Plan(verb, u, steps).verb = verb /\ Plan(verb, u, steps).unit = u /\ Plan(verb, u, steps).steps = steps
  BY DEF Plan, PlanType

LEMMA PlanLeft ==
    ASSUME NEW pl \in PlanType, NEW left \in Seq(StepNames)
    PROVE  \E rest \in PlanType : /\ rest = [pl EXCEPT !.steps = left]
                                 /\ rest.verb = pl.verb /\ rest.unit = pl.unit /\ rest.steps = left
<1>1. [pl EXCEPT !.steps = left] \in PlanType BY DEF PlanType
<1>2. /\ [pl EXCEPT !.steps = left].verb = pl.verb /\ [pl EXCEPT !.steps = left].unit = pl.unit
      /\ [pl EXCEPT !.steps = left].steps = left
  BY DEF PlanType
<1> QED BY <1>1, <1>2

\* No service is installed at first.
LEMMA ServiceInitInv == ServiceInit => ServiceInv
<1> SUFFICES ASSUME ServiceInit PROVE ServiceInv OBVIOUS
<1> USE DEF ServiceInit
<1>1. IInv BY InitInv
<1>2. Plans BY NoPlanType DEF Plans, Progress
<1>3. OnePlan /\ Effect /\ Process BY NoPlanType DEF OnePlan, Effect, Process
<1>4. ServiceTypeOK
  <2>1. \A p \in Clients : plan[p].unit \in Units \cup {None} /\ Len(plan[p].steps) \in 0 .. 5 BY DEF NoPlan, Plan
  <2>2. {unitFile, loaded, ran} \subseteq Units \cup {None} /\ service = "inactive" OBVIOUS
  <2> HIDE DEF ServiceInit
  <2>3. enabled \in BOOLEAN BY DEF ServiceInit
  <2> QED BY <1>1, <2>1, <2>2, <2>3 DEF ServiceTypeOK, IInv
<1> QED BY <1>1, <1>2, <1>3, <1>4 DEF ServiceInv

\* The manager and the process it keeps, while the commands do nothing: the service
\* is not started, and a process that is started gets the unit the manager has.
LEMMA ManagerInv ==
    ASSUME ServiceInv, IInv', UNCHANGED <<registry, unitFile, loaded, enabled, plan, done>>,
           service' \in {"inactive", "starting", "running", "waiting"},
           service = "inactive" => service' = "inactive",
           ran' = ran \/ (ran' = Effective /\ Effective # None),
           service' = "starting" => service = "starting" \/ ran' # None,
           service' = "running" => up' /\ service \in {"starting", "running"}
    PROVE  ServiceInv'
<1>r. \A u \in Units : service # "inactive" /\ ran = u /\ loaded = u => ran' = u BY UnitsAssumption DEF Effective
<1>t. ran' \in Units \cup {None} BY DEF ServiceInv, ServiceTypeOK, Effective
<1>1. \A u : Reinstalled(u) => Reinstalled(u)' BY <1>r DEF Reinstalled
<1>2. Uninstalled => Uninstalled' BY DEF Uninstalled
<1>3. \A u, steps : Reinstalling(u, steps) => Reinstalling(u, steps)' BY <1>1 DEF Reinstalling
<1>4. \A steps : Uninstalling(steps) => Uninstalling(steps)' BY <1>2 DEF Uninstalling
<1>5. Plans'
  <2>1. \A p \in Clients : Progress(plan[p])' BY <1>3, <1>4 DEF ServiceInv, Plans, Progress
  <2> QED BY <2>1 DEF ServiceInv, Plans
<1>6. OnePlan' BY DEF ServiceInv, OnePlan
<1>7. Effect' BY <1>1, <1>2 DEF ServiceInv, Effect
<1>8. Process' BY DEF ServiceInv, Process
<1>10. ServiceTypeOK' BY <1>t, <1>8 DEF ServiceInv, ServiceTypeOK, IInv, Process
<1> QED BY <1>5, <1>6, <1>7, <1>8, <1>10 DEF ServiceInv

\* A step of a plan changes the manager as it should.
LEMMA DoesTypes ==
    ASSUME ServiceInv, NEW step, NEW u \in Units \cup {None}, Does(step, u)
    PROVE  /\ {unitFile', loaded', ran'} \subseteq Units \cup {None} /\ enabled' \in BOOLEAN
           /\ service' \in {"inactive", "starting", "running", "waiting"}
           /\ service' \in {"starting", "running"} => ran' # None
           /\ service' = "running" => up'
<1>t. /\ {unitFile, loaded, ran} \subseteq Units \cup {None} /\ enabled \in BOOLEAN
      /\ service \in {"inactive", "starting", "running", "waiting"}
      /\ service \in {"starting", "running"} => ran # None
      /\ service = "running" => up
  BY DEF ServiceInv, ServiceTypeOK, Process
<1>1. CASE \/ writeServerServiceUnit(u) \/ removeUnit \/ daemonReload \/ enable \/ disable
  <2>1. UNCHANGED <<vars, service, ran>> /\ {unitFile', loaded'} \subseteq {unitFile, loaded, u, None}
        /\ enabled' \in BOOLEAN
    BY <1>1, <1>t DEF writeServerServiceUnit, removeUnit, daemonReload, enable, disable
  <2>2. up' = up BY <2>1 DEF vars, serverVars, processVars
  <2> QED BY <1>t, <2>1, <2>2
<1>2. CASE startService
  <2>1. UNCHANGED <<unitFile, loaded, enabled, up>> BY <1>2 DEF startService, vars, serverVars, processVars
  <2> QED BY <1>2, <1>t, <2>1 DEF startService, Effective
<1>3. CASE stopService \/ restartService BY <1>3, <1>t DEF stopService, restartService, Effective
<1> QED BY <1>1, <1>2, <1>3 DEF Does

\* Head and tail of what is left of a plan.
LEMMA Steps ==
    /\ \A a, b, c, d, e : Head(<<a, b, c, d, e>>) = a /\ Tail(<<a, b, c, d, e>>) = <<b, c, d, e>>
    /\ \A a, b, c, d : Head(<<a, b, c, d>>) = a /\ Tail(<<a, b, c, d>>) = <<b, c, d>>
    /\ \A a, b, c : Head(<<a, b, c>>) = a /\ Tail(<<a, b, c>>) = <<b, c>>
    /\ \A a, b : Head(<<a, b>>) = a /\ Tail(<<a, b>>) = <<b>>
    /\ \A a : Head(<<a>>) = a /\ Tail(<<a>>) = <<>>
  OBVIOUS

\* One step of a reinstall, of an uninstall and of the other commands.
LEMMA ReinstallStep ==
    ASSUME ServiceInv, NEW u, NEW steps, Reinstalling(u, steps), steps # <<>>, Does(Head(steps), u)
    PROVE  Reinstalling(u, Tail(steps))'
<1>0. u \in Units /\ u # None BY UnitsAssumption DEF Reinstalling
<1>1. CASE steps = <<"write", "daemon-reload", "enable", "restart", "start">>
  <2>1. Head(steps) = "write" /\ Tail(steps) = <<"daemon-reload", "enable", "restart", "start">> BY <1>1, Steps
  <2> QED BY <1>0, <2>1 DEF Does, writeServerServiceUnit, Reinstalling
<1>2. CASE steps = <<"daemon-reload", "enable", "restart", "start">> /\ unitFile = u
  <2>1. Head(steps) = "daemon-reload" /\ Tail(steps) = <<"enable", "restart", "start">> BY <1>2, Steps
  <2> QED BY <1>0, <1>2, <2>1 DEF Does, daemonReload, Reinstalling
<1>3. CASE steps = <<"enable", "restart", "start">> /\ unitFile = u
  <2>1. Head(steps) = "enable" /\ Tail(steps) = <<"restart", "start">> BY <1>3, Steps
  <2> QED BY <1>0, <1>3, <2>1 DEF Does, enable, Reinstalling
<1>4. CASE steps = <<"restart", "start">> /\ unitFile = u /\ loaded = u /\ enabled
  <2>1. Head(steps) = "restart" /\ Tail(steps) = <<"start">> BY <1>4, Steps
  <2> QED BY <1>0, <1>4, <2>1 DEF Does, restartService, stopService, Reinstalling
<1>5. CASE steps = <<"start">> /\ unitFile = u /\ loaded = u /\ enabled /\ service = "inactive"
  <2>1. Head(steps) = "start" /\ Tail(steps) = <<>> BY <1>5, Steps
  <2>2. UNCHANGED <<unitFile, loaded, enabled>> /\ ran' = u
    BY <1>0, <1>5, <2>1 DEF Does, startService, Effective
  <2> QED BY <1>0, <1>5, <2>1, <2>2 DEF Reinstalling, Reinstalled
<1> QED BY <1>1, <1>2, <1>3, <1>4, <1>5 DEF Reinstalling

LEMMA UninstallStep ==
    ASSUME ServiceInv, NEW u, NEW steps, Uninstalling(steps), steps # <<>>, Does(Head(steps), u)
    PROVE  Uninstalling(Tail(steps))'
<1>1. CASE steps = <<"disable", "stop", "remove", "daemon-reload">>
  <2>1. Head(steps) = "disable" /\ Tail(steps) = <<"stop", "remove", "daemon-reload">> BY <1>1, Steps
  <2> QED BY <2>1 DEF Does, disable, Uninstalling
<1>2. CASE steps = <<"stop", "remove", "daemon-reload">> /\ ~enabled
  <2>1. Head(steps) = "stop" /\ Tail(steps) = <<"remove", "daemon-reload">> BY <1>2, Steps
  <2> QED BY <1>2, <2>1 DEF Does, stopService, Uninstalling
<1>3. CASE steps = <<"remove", "daemon-reload">> /\ ~enabled /\ service = "inactive"
  <2>1. Head(steps) = "remove" /\ Tail(steps) = <<"daemon-reload">> BY <1>3, Steps
  <2> QED BY <1>3, <2>1 DEF Does, removeUnit, Uninstalling
<1>4. CASE steps = <<"daemon-reload">> /\ ~enabled /\ service = "inactive" /\ unitFile = None
  <2>1. Head(steps) = "daemon-reload" /\ Tail(steps) = <<>> BY <1>4, Steps
  <2> QED BY <1>4, <2>1 DEF Does, daemonReload, Uninstalling, Uninstalled
<1> QED BY <1>1, <1>2, <1>3, <1>4 DEF Uninstalling

LEMMA OtherStep ==
    ASSUME NEW verb, NEW steps, Other(verb, steps), steps # <<>>
    PROVE  Other(verb, Tail(steps))
<1>1. CASE verb = "install"
  <2>1. CASE steps = <<"write", "daemon-reload", "enable", "start">>
    <3>1. Tail(steps) = <<"daemon-reload", "enable", "start">> BY <2>1, Steps
    <3> QED BY <1>1, <3>1 DEF Other
  <2>2. CASE steps = <<"daemon-reload", "enable", "start">>
    <3>1. Tail(steps) = <<"enable", "start">> BY <2>2, Steps
    <3> QED BY <1>1, <3>1 DEF Other
  <2>3. CASE steps = <<"enable", "start">>
    <3>1. Tail(steps) = <<"start">> BY <2>3, Steps
    <3> QED BY <1>1, <3>1 DEF Other
  <2>4. CASE steps = <<"start">>
    <3>1. Tail(steps) = <<>> BY <2>4, Steps
    <3> QED BY <1>1, <3>1 DEF Other
  <2> QED BY <1>1, <2>1, <2>2, <2>3, <2>4 DEF Other
<1>2. CASE verb = "uninstall --keep-unit"
  <2>1. CASE steps = <<"disable", "stop", "daemon-reload">>
    <3>1. Tail(steps) = <<"stop", "daemon-reload">> BY <2>1, Steps
    <3> QED BY <1>2, <3>1 DEF Other
  <2>2. CASE steps = <<"stop", "daemon-reload">>
    <3>1. Tail(steps) = <<"daemon-reload">> BY <2>2, Steps
    <3> QED BY <1>2, <3>1 DEF Other
  <2>3. CASE steps = <<"daemon-reload">>
    <3>1. Tail(steps) = <<>> BY <2>3, Steps
    <3> QED BY <1>2, <3>1 DEF Other
  <2> QED BY <1>2, <2>1, <2>2, <2>3 DEF Other
<1>3. CASE verb \in {"install --no-enable", "start", "stop"}
  <2>1. PICK step : steps = <<step>> BY <1>3 DEF Other
  <2>2. Tail(steps) = <<>> BY <2>1, Steps
  <2> QED BY <1>3, <2>2 DEF Other
<1>4. CASE verb = "restart"
  <2>1. CASE steps = <<"restart", "start">>
    <3>1. Tail(steps) = <<"start">> BY <2>1, Steps
    <3> QED BY <1>4, <3>1 DEF Other
  <2>2. CASE steps = <<"start">>
    <3>1. Tail(steps) = <<>> BY <2>2, Steps
    <3> QED BY <1>4, <3>1 DEF Other
  <2> QED BY <1>4, <2>1, <2>2 DEF Other
<1> QED BY <1>1, <1>2, <1>3, <1>4 DEF Other

\* A shell that has a plan is the only one.
LEMMA PlanAlone ==
    ASSUME ServiceInv, NEW p \in Clients, plan[p] # NoPlan
    PROVE  done = NoPlan /\ \A q \in Clients \ {p} : plan[q] = NoPlan
  BY DEF ServiceInv, OnePlan

\* The only plan there is becomes pl, and no command has ended since.
LEMMA PlanInv ==
    ASSUME ServiceInv, IInv', NEW p \in Clients, NEW pl \in PlanType,
           plan' = [plan EXCEPT ![p] = pl], \A q \in Clients \ {p} : plan[q] = NoPlan, done' = NoPlan,
           registry' = registry, registry = "neither", Progress(pl)', Len(pl.steps) \in 0 .. 5,
           {unitFile', loaded', ran'} \subseteq Units \cup {None}, enabled' \in BOOLEAN,
           service' \in {"inactive", "starting", "running", "waiting"},
           service' \in {"starting", "running"} => ran' # None,
           service' = "running" => up'
    PROVE  ServiceInv'
<1>t. plan \in [Clients -> PlanType] BY DEF ServiceInv, Plans
<1>1. plan'[p] = pl /\ \A q \in Clients \ {p} : plan'[q] = NoPlan BY <1>t
<1>2. Plans'
  <2>1. \A q \in Clients : Progress(plan[q])' BY <1>1 DEF Progress
  <2>2. plan' \in [Clients -> PlanType] BY <1>t
  <2> QED BY <2>1, <2>2 DEF Plans
<1>3. OnePlan' BY <1>1 DEF OnePlan
<1>4. Effect' BY NoPlanType DEF Effect
<1>5. Process' BY DEF Process
<1>7. \A q \in Clients : plan'[q].unit \in Units \cup {None} /\ Len(plan'[q].steps) \in 0 .. 5
  <2>1. pl.unit \in Units \cup {None} /\ NoPlan.unit \in Units \cup {None} BY NoPlanType DEF PlanType
  <2>2. Len(NoPlan.steps) \in 0 .. 5 BY NoPlanType
  <2> QED BY <1>1, <2>1, <2>2
<1>8. ServiceTypeOK' BY <1>7 DEF ServiceTypeOK, IInv
<1> QED BY <1>2, <1>3, <1>4, <1>5, <1>8 DEF ServiceInv

\* The lengths of the plans there are.
LEMMA StepSeqs ==
    ASSUME NEW steps,
           \/ \E a, b, c, d, e \in StepNames : steps = <<a, b, c, d, e>>
           \/ \E a, b, c, d \in StepNames : steps = <<a, b, c, d>>
           \/ \E a, b, c \in StepNames : steps = <<a, b, c>>
           \/ \E a, b \in StepNames : steps = <<a, b>>
           \/ \E a \in StepNames : steps = <<a>>
    PROVE  steps \in Seq(StepNames) /\ Len(steps) \in 0 .. 5
<1>1. CASE \E a, b, c, d, e \in StepNames : steps = <<a, b, c, d, e>>
  <2>1. PICK a, b, c, d, e \in StepNames : steps = <<a, b, c, d, e>> BY <1>1
  <2> QED BY <2>1
<1>2. CASE \E a, b, c, d \in StepNames : steps = <<a, b, c, d>>
  <2>1. PICK a, b, c, d \in StepNames : steps = <<a, b, c, d>> BY <1>2
  <2> QED BY <2>1
<1>3. CASE \E a, b, c \in StepNames : steps = <<a, b, c>>
  <2>1. PICK a, b, c \in StepNames : steps = <<a, b, c>> BY <1>3
  <2> QED BY <2>1
<1>4. CASE \E a, b \in StepNames : steps = <<a, b>>
  <2>1. PICK a, b \in StepNames : steps = <<a, b>> BY <1>4
  <2> QED BY <2>1
<1>5. CASE \E a \in StepNames : steps = <<a>> BY <1>5
<1> QED BY <1>1, <1>2, <1>3, <1>4, <1>5

\* A step of a plan.
LEMMA SystemctlInv ==
    ASSUME ServiceInv, IInv', NEW p \in Clients, systemctl(p), registry' = registry, registry = "neither"
    PROVE  ServiceInv'
<1>t. /\ plan \in [Clients -> PlanType] /\ plan[p] \in PlanType /\ Len(plan[p].steps) \in 0 .. 5
  BY DEF ServiceInv, Plans, ServiceTypeOK
<1>1. PICK pl \in PlanType : pl = plan[p] BY <1>t
<1>2. /\ pl.steps # <<>> /\ Does(Head(pl.steps), pl.unit) /\ plan' = [plan EXCEPT ![p] = [pl EXCEPT !.steps = Tail(@)]]
      /\ done' = done
  BY <1>t, <1>1 DEF systemctl
<1>3. pl.unit \in Units \cup {None} /\ pl.steps \in Seq(StepNames) BY DEF PlanType
<1>4. Tail(pl.steps) \in Seq(StepNames) /\ Len(Tail(pl.steps)) \in 0 .. 5 BY <1>t, <1>1, <1>2, <1>3
<1>5. PICK rest \in PlanType : /\ rest = [pl EXCEPT !.steps = Tail(@)]
                               /\ rest.verb = pl.verb /\ rest.unit = pl.unit /\ rest.steps = Tail(pl.steps)
  BY <1>4, PlanLeft
<1>6. pl # NoPlan /\ done' = NoPlan /\ \A q \in Clients \ {p} : plan[q] = NoPlan
  BY <1>1, <1>2, NoPlanType, PlanAlone
<1>7. Progress(rest)'
  <2>1. CASE pl.verb = "reinstall" /\ Reinstalling(pl.unit, pl.steps)
    <3>1. Reinstalling(rest.unit, rest.steps)' BY <1>2, <1>5, <2>1, ReinstallStep
    <3> QED BY <2>1, <3>1, <1>5 DEF Progress
  <2>2. CASE pl.verb = "uninstall" /\ Uninstalling(pl.steps)
    <3>1. Uninstalling(rest.steps)' BY <1>2, <1>5, <2>2, UninstallStep
    <3> QED BY <2>2, <3>1, <1>5 DEF Progress
  <2>3. CASE Other(pl.verb, pl.steps)
    <3>1. Other(rest.verb, rest.steps) BY <1>2, <1>5, <2>3, OtherStep
    <3> QED BY <3>1 DEF Progress
  <2> QED BY <1>1, <1>6, <2>1, <2>2, <2>3 DEF ServiceInv, Plans, Progress
<1> QED BY <1>2, <1>3, <1>4, <1>5, <1>6, <1>7, DoesTypes, PlanInv

\* A command of the service ends, or another begins: the manager is left alone.
LEMMA BeginInv ==
    ASSUME ServiceInv, IInv', NEW p \in Clients, runServerService(p), registry' = registry, registry = "neither"
    PROVE  ServiceInv'
<1>t. /\ {unitFile, loaded, ran} \subseteq Units \cup {None} /\ enabled \in BOOLEAN
      /\ service \in {"inactive", "starting", "running", "waiting"}
      /\ service \in {"starting", "running"} => ran # None
      /\ service = "running" => up
  BY DEF ServiceInv, ServiceTypeOK, Process
<1>0. UNCHANGED <<up, unitFile, loaded, enabled, service, ran>> /\ \A q \in Clients : plan[q] = NoPlan
  BY DEF runServerService, serverVars, processVars, managerVars
<1>1. CASE UNCHANGED <<plan, done>> BY <1>0, <1>1, <1>t, ManagerInv
<1>2. ASSUME NEW verb \in Verbs, NEW u \in Units \cup {None}, NEW steps \in Seq(StepNames), Begin(p, verb, u, steps),
             Len(steps) \in 0 .. 5,
             \/ verb = "reinstall" /\ u \in Units /\ steps = <<"write", "daemon-reload", "enable", "restart", "start">>
             \/ verb = "uninstall" /\ steps = <<"disable", "stop", "remove", "daemon-reload">>
             \/ Other(verb, steps)
      PROVE  ServiceInv'
  <2>1. PICK pl \in PlanType : pl = Plan(verb, u, steps) /\ pl.verb = verb /\ pl.unit = u /\ pl.steps = steps
    BY <1>2, PlanFields
  <2>2. plan' = [plan EXCEPT ![p] = pl] /\ done' = NoPlan BY <1>2, <2>1 DEF Begin
  <2>3. Progress(pl)' BY <1>2, <2>1 DEF Progress, Reinstalling, Uninstalling
  <2> QED BY <1>0, <1>t, <1>2, <2>1, <2>2, <2>3, PlanInv
<1>3. CASE runServerServiceInstall(p)
  <2>1. PICK verb, u, steps :
          /\ Begin(p, verb, u, steps) /\ u \in Units
          /\ \/ verb = "install" /\ steps = <<"write", "daemon-reload", "enable", "start">>
             \/ verb = "install --no-enable" /\ steps = <<"write">>
    BY <1>3 DEF runServerServiceInstall
  <2>2. verb \in Verbs /\ Other(verb, steps) BY <2>1 DEF Verbs, Other
  <2>3. steps \in Seq(StepNames) /\ Len(steps) \in 0 .. 5 BY <2>1, StepSeqs DEF StepNames
  <2> QED BY <1>2, <2>1, <2>2, <2>3
<1>4. CASE runServerServiceReinstall(p)
  <2>1. PICK verb, u, steps :
          /\ Begin(p, verb, u, steps) /\ u \in Units
          /\ verb = "reinstall" /\ steps = <<"write", "daemon-reload", "enable", "restart", "start">>
    BY <1>4 DEF runServerServiceReinstall
  <2>2. verb \in Verbs BY <2>1 DEF Verbs
  <2>3. steps \in Seq(StepNames) /\ Len(steps) \in 0 .. 5 BY <2>1, StepSeqs DEF StepNames
  <2> QED BY <1>2, <2>1, <2>2, <2>3
<1>5. CASE runServerServiceLifecycle(p)
  <2>1. PICK verb, u, steps :
          /\ Begin(p, verb, u, steps) /\ u = None
          /\ \/ verb \in {"start", "stop"} /\ steps = <<verb>>
             \/ verb = "restart" /\ steps = <<"restart", "start">>
    BY <1>5 DEF runServerServiceLifecycle
  <2>2. verb \in Verbs /\ Other(verb, steps) /\ u \in Units \cup {None} BY <2>1 DEF Verbs, Other
  <2>3. steps \in Seq(StepNames) /\ Len(steps) \in 0 .. 5 BY <2>1, StepSeqs DEF StepNames
  <2> QED BY <1>2, <2>1, <2>2, <2>3
<1>6. CASE runServerServiceUninstall(p)
  <2>1. PICK verb, u, steps :
          /\ Begin(p, verb, u, steps) /\ u = None
          /\ \/ verb = "uninstall" /\ steps = <<"disable", "stop", "remove", "daemon-reload">>
             \/ verb = "uninstall --keep-unit" /\ steps = <<"disable", "stop", "daemon-reload">>
    BY <1>6 DEF runServerServiceUninstall
  <2>2. verb \in Verbs /\ u \in Units \cup {None} /\ (verb # "uninstall" => Other(verb, steps))
    BY <2>1 DEF Verbs, Other
  <2>3. steps \in Seq(StepNames) /\ Len(steps) \in 0 .. 5 BY <2>1, StepSeqs DEF StepNames
  <2> QED BY <1>2, <2>1, <2>2, <2>3
<1> QED BY <1>1, <1>3, <1>4, <1>5, <1>6 DEF runServerService

LEMMA EndInv ==
    ASSUME ServiceInv, IInv', NEW p \in Clients, runSystemctlUser(p) \/ serviceCommandEnds(p),
           registry' = registry, registry = "neither"
    PROVE  ServiceInv'
<1>t. /\ {unitFile, loaded, ran} \subseteq Units \cup {None} /\ enabled \in BOOLEAN
      /\ service \in {"inactive", "starting", "running", "waiting"}
      /\ service \in {"starting", "running"} => ran # None
      /\ service = "running" => up
      /\ plan \in [Clients -> PlanType]
  BY DEF ServiceInv, ServiceTypeOK, Process, Plans
<1>0. plan[p] # NoPlan /\ plan' = [plan EXCEPT ![p] = NoPlan] /\ UNCHANGED <<up, loaded, enabled, service, ran>>
  BY NoPlanType DEF runSystemctlUser, serviceCommandEnds, serverVars, processVars, managerVars
<1>a. done = NoPlan /\ \A q \in Clients \ {p} : plan[q] = NoPlan BY <1>0, PlanAlone
<1>1. CASE runSystemctlUser(p)
  <2>1. done' = NoPlan /\ unitFile' \in Units \cup {None} BY <1>1, <1>a, <1>t DEF runSystemctlUser
  <2>2. Progress(NoPlan)' BY DEF Progress
  <2>3. Len(NoPlan.steps) \in 0 .. 5 /\ NoPlan \in PlanType BY NoPlanType
  <2> QED BY <1>0, <1>a, <1>t, <2>1, <2>2, <2>3, PlanInv
<1>2. CASE serviceCommandEnds(p)
  <2>1. PICK pl \in PlanType : pl = plan[p] BY <1>t
  <2>2. done' = pl /\ pl.steps = <<>> /\ UNCHANGED unitFile BY <1>2, <2>1 DEF serviceCommandEnds, managerVars
  <2>3. \A q \in Clients : plan'[q] = NoPlan BY <1>0, <1>a, <1>t
  <2>4. Progress(pl) /\ pl # NoPlan BY <1>0, <2>1 DEF ServiceInv, Plans
  <2>5. pl.verb = "reinstall" => Reinstalled(pl.unit) BY <2>2, <2>4 DEF Progress, Reinstalling, Other
  <2>6. pl.verb = "uninstall" => Uninstalled BY <2>2, <2>4 DEF Progress, Uninstalling, Other
  <2>7. Effect' BY <1>0, <2>2, <2>5, <2>6 DEF Effect, Reinstalled, Uninstalled
  <2>8. OnePlan' /\ Process'
    BY <1>0, <1>t, <2>3 DEF OnePlan, Process
  <2>9. Plans'
    <3>1. \A q \in Clients : Progress(plan[q])' BY <2>3 DEF Progress
    <3> QED BY <3>1, <1>0, <1>t, NoPlanType DEF Plans
  <2>10. \A q \in Clients : plan'[q].unit \in Units \cup {None} /\ Len(plan'[q].steps) \in 0 .. 5
    <3>1. NoPlan.unit \in Units \cup {None} /\ Len(NoPlan.steps) \in 0 .. 5 BY NoPlanType DEF PlanType
    <3> QED BY <2>3, <3>1
  <2>11. ServiceTypeOK' BY <1>0, <1>t, <2>2, <2>10 DEF ServiceTypeOK, IInv
  <2> QED BY <2>7, <2>8, <2>9, <2>11 DEF ServiceInv
<1> QED BY <1>1, <1>2

-----------------------------------------------------------------------------
(* Every step.                                                             *)

LEMMA ServiceNextInv == ASSUME ServiceInv, [ServiceNext]_allVars PROVE ServiceInv'
<1>i. IInv' BY CommandsKeep DEF ServiceInv
<1>r. registry' = registry BY SameRegistry
<1>t. /\ service \in {"inactive", "starting", "running", "waiting"}
      /\ service \in {"starting", "running"} => ran # None
      /\ registry # "neither" => service = "inactive"
      /\ service = "running" => up
  BY DEF ServiceInv, ServiceTypeOK, Process
<1>1. CASE UNCHANGED allVars
  <2>1. UNCHANGED <<up, unitFile, loaded, enabled, service, ran, plan, done>>
    BY <1>1 DEF allVars, vars, serverVars, processVars, serviceVars, managerVars
  <2> QED BY <1>i, <1>r, <1>t, <2>1, ManagerInv
<1>2. CASE registry # "neither" /\ Next /\ UNCHANGED serviceVars
  <2>1. UNCHANGED <<unitFile, loaded, enabled, service, ran, plan, done>> /\ service = "inactive"
    BY <1>2, <1>t DEF serviceVars, managerVars
  <2> QED BY <1>i, <1>r, <1>t, <2>1, ManagerInv
<1>3. CASE serviceListens
  <2>1. UNCHANGED <<unitFile, loaded, enabled, ran, plan, done>> /\ service = "starting" /\ service' = "running" /\ up'
    BY <1>3 DEF serviceListens, becomeReady
  <2> QED BY <1>i, <1>r, <1>t, <2>1, ManagerInv
<1>4. CASE serviceFails
  <2>1. UNCHANGED <<unitFile, loaded, enabled, ran, plan, done>> /\ service = "starting" /\ service' = "waiting"
    BY <1>4 DEF serviceFails, OnFailure
  <2> QED BY <1>i, <1>r, <1>t, <2>1, ManagerInv
<1>5. CASE serviceRestarts
  <2>1. /\ UNCHANGED <<unitFile, loaded, enabled, plan, done>>
        /\ service = "waiting" /\ service' = "starting" /\ ran' = Effective /\ Effective # None
    BY <1>5 DEF serviceRestarts
  <2> QED BY <1>i, <1>r, <1>t, <2>1, ManagerInv
<1>6. CASE crash
  <2>1. /\ UNCHANGED <<unitFile, loaded, enabled, ran, plan, done>>
        /\ service' = IF service = "running" THEN "waiting" ELSE service
    BY <1>6 DEF crash, OnFailure
  <2> QED BY <1>i, <1>r, <1>t, <2>1, ManagerInv
<1>7. CASE becomeReady /\ UNCHANGED serviceVars
  <2>1. UNCHANGED <<unitFile, loaded, enabled, service, ran, plan, done>> /\ up'
    BY <1>7 DEF becomeReady, serviceVars, managerVars
  <2> QED BY <1>i, <1>r, <1>t, <2>1, ManagerInv
<1>8. ASSUME NEW p \in Clients, shutsDown(p) PROVE ServiceInv'
  <2>1. /\ UNCHANGED <<unitFile, loaded, enabled, ran, plan, done>>
        /\ service' = IF service = "running" THEN "inactive" ELSE service
    BY <1>8 DEF shutsDown
  <2> QED BY <1>i, <1>r, <1>t, <2>1, ManagerInv
<1>9. ASSUME NEW p \in Clients, ServerCommand(p) /\ UNCHANGED serviceVars PROVE ServiceInv'
  <2>1. UNCHANGED <<unitFile, loaded, enabled, service, ran, plan, done>>
    BY <1>9 DEF serviceVars, managerVars
  <2>2. up' = up
    BY <1>9 DEF ServerCommand, runStartServer, runKillServer, handleShutdown, Continue, ensureServer, connectionLost,
                deadline, serverVars, processVars
  <2> QED BY <1>i, <1>r, <1>t, <2>1, <2>2, ManagerInv
<1>10. ASSUME NEW p \in Clients, ServiceCommand(p), registry = "neither" PROVE ServiceInv'
  BY <1>10, <1>i, <1>r, SystemctlInv, BeginInv, EndInv DEF ServiceCommand
<1> QED BY <1>1, <1>2, <1>3, <1>4, <1>5, <1>6, <1>7, <1>8, <1>9, <1>10 DEF ServiceNext

\* The inductive invariant of the service and of the commands beside it holds throughout.
THEOREM ServiceInvariant == ServiceSpec => []ServiceInv
<1>1. ServiceInv /\ [ServiceNext]_allVars => ServiceInv' BY ServiceNextInv
<1> QED BY <1>1, ServiceInitInv, PTL DEF ServiceSpec

\* The commands and the service keep their types, and a service that runs is the
\* server at the socket, started from a unit.
THEOREM ServiceTypeCorrect == ServiceSpec => []ServiceTypeOK
<1>1. ServiceInv => ServiceTypeOK BY DEF ServiceInv
<1> QED BY <1>1, ServiceInvariant, PTL

\* A reinstall or an uninstall that succeeded has done what it is for, whatever
\* earlier commands have left, and crashes and restarts since keep it so.
THEOREM ServiceTakesEffect == ServiceSpec => []ServiceCommandsTakeEffect
<1>1. ServiceInv => ServiceCommandsTakeEffect
  BY DEF ServiceInv, Effect, Reinstalled, Uninstalled, ServiceCommandsTakeEffect
<1> QED BY <1>1, ServiceInvariant, PTL

\* A removal that exits with 0 stays final beside the service, whose restarts begin
\* with empty registries.
THEOREM ServiceRemovalsFinal == ServiceSpec => []RemovalIsFinal
<1>1. ServiceInv => RemovalIsFinal BY FinalRemovals DEF ServiceInv
<1> QED BY <1>1, ServiceInvariant, PTL

\* A request takes away none but the mappings it is about, beside the service too.
THEOREM ServiceLosesOnlyItsOwn == ServiceSpec => LosesOnlyItsOwn
<1>1. ASSUME ServiceInv, [ServiceNext]_allVars, NEW p \in Clients, Served(p) PROVE [Next]_vars
  <2>1. up' /\ job'[p] # job[p] BY <1>1 DEF Served
  <2> QED BY <1>1, <2>1, ServiceStep DEF Gone
<1>2. ServiceInv /\ [ServiceNext]_allVars =>
        [\A p \in Clients :
           LET c == client[p] IN
           Served(p) =>
             /\ job[p].norebind => Lost = {}
             /\ c.tool = "compat" /\ c.ask = "remove" /\ c.same =>
                  \A e \in Lost : table[e].device = c.device /\ (c.verb = "remove" => e = c.endpoint)]_vars
  <2> SUFFICES ASSUME ServiceInv, [ServiceNext]_allVars, NEW p \in Clients, Served(p)
               PROVE  /\ job[p].norebind => Lost = {}
                      /\ client[p].tool = "compat" /\ client[p].ask = "remove" /\ client[p].same =>
                           \A e \in Lost : /\ table[e].device = client[p].device
                                           /\ client[p].verb = "remove" => e = client[p].endpoint
    OBVIOUS
  <2>1. [Next]_vars /\ IInv BY <1>1 DEF ServiceInv
  <2> QED BY <2>1, StepLosesOwn
<1> QED BY <1>2, ServiceInvariant, PTL DEF ServiceSpec, LosesOnlyItsOwn

\* Which requests wait where, and which creates hold which ids, is so beside the service too.
LEMMA ServiceRequests == ASSUME IInv, RInv, [ServiceNext]_allVars PROVE RInv'
<1>1. CASE [Next]_vars BY <1>1, NextRequests
<1>2. CASE Gone BY <1>2, GoneRequests
<1>3. CASE UNCHANGED <<serverVars, job>>
  BY <1>3 DEF serverVars, registryVars, processVars, RInv, Creating
<1> QED BY <1>1, <1>2, <1>3, ServiceStep

\* Each server that systemd runs keeps its table as the registries promise it, and starts with an
\* empty one.
THEOREM ServiceKeepsTable == ServiceSpec => [](~up => Table!Init) /\ [][up /\ up' => TableStep]_vars
<1>1. ServiceInv => IInv BY DEF ServiceInv
<1>2. ServiceInit => RInv BY InitRequests DEF ServiceInit
<1>3. IInv /\ RInv /\ [ServiceNext]_allVars => RInv' BY ServiceRequests
<1>4. IInv /\ RInv /\ [ServiceNext]_allVars => [up /\ up' => TableStep]_vars
  <2> SUFFICES ASSUME IInv, RInv, [ServiceNext]_allVars, up, up' PROVE TableStep OBVIOUS
  <2>1. CASE [Next]_vars BY <2>1, StepTable
  <2>2. ~Gone BY DEF Gone
  <2>3. CASE UNCHANGED <<serverVars, job>>
    <3>1. UNCHANGED <<table, nextID, job>> BY <2>3 DEF serverVars, registryVars
    <3>2. UNCHANGED Listed BY <3>1 DEF Listed
    <3>3. UNCHANGED Spent BY <3>1 DEF Spent, Creating
    <3> QED BY <3>2, <3>3 DEF TableStep
  <2> QED BY <2>1, <2>2, <2>3, ServiceStep
<1> QED BY <1>1, <1>2, <1>3, <1>4, NoServerNoTable, ServiceInvariant, PTL DEF ServiceSpec
==============================================================================

--------------------------- MODULE ServerLifecycle ---------------------------
(***************************************************************************)
(* The life of adb-gos: cmd/adb-gos/main.go and internal/server/            *)
(* server_unix.go, for any number of processes started on one socket path.  *)
(*                                                                         *)
(* A process runs main (Listen, then Serve), one goroutine per control      *)
(* request (handleConn), the goroutine of Serve that waits for the signal   *)
(* context, and the body of Shutdown, in whichever goroutine is first.  The  *)
(* process is gone, goroutines and all, when main returns.  ForwardRegistry *)
(* and ReverseRegistry have the registries' detail; here only what outlives *)
(* the process is kept of them, the reverses on the devices, and of the     *)
(* device registry when its map is in use.                                  *)
(***************************************************************************)
EXTENDS Integers, FiniteSets

CONSTANTS
    Servers,   \* processes, each started at most once
    Requests,  \* control requests; a create's registration goes by its request
    Missing,   \* nothing at the socket path
    File       \* something at the socket path that is not a socket

ASSUME LifecycleAssumption ==
    /\ Missing \notin Servers /\ File \notin Servers /\ Missing # File
    /\ IsFiniteSet(Servers) /\ IsFiniteSet(Requests)

VARIABLES
    path,       \* what is at the socket path; a server stands for the socket it bound
    main,       \* the main goroutine of a process
    listener,   \* s.listener: "none", "open", "closed"
    signalled,  \* the signal context is done
    calls,      \* history: calls of Shutdown made so far
    down,       \* the next step of the body of shutdownOnce, "none" before it
    doneCloses, \* history: how often s.done was closed
    reverses,   \* s.reverses: registrations
    onDevice,   \* reverses some device listens for
    server,     \* the server a request was accepted by
    command,    \* its command, "ping" before it has one and after the reply
    step,       \* the next step of its handleConn
    contended   \* history: a start met another start, a shutdown or a slow server

registries == <<reverses, onDevice>>
requestVars == <<server, command, step>>
shutdownVars == <<signalled, calls, down, doneCloses>>
vars == <<path, main, listener, shutdownVars, registries, requestVars, contended>>

Commands == {"shutdown", "reverse_create", "reverse_remove", "reverse_remove_all", "device_register", "device_list"}

Starting(p) == main[p] \in {"lstat", "ping", "remove", "bind"}
Live(p) == Starting(p) \/ main[p] = "serve"

Init ==
    /\ path \in {Missing, File}
    /\ main = [p \in Servers |-> "off"] /\ listener = [p \in Servers |-> "none"]
    /\ signalled = [p \in Servers |-> FALSE] /\ calls = [p \in Servers |-> 0]
    /\ down = [p \in Servers |-> "none"] /\ doneCloses = [p \in Servers |-> 0]
    /\ reverses = [p \in Servers |-> {}] /\ onDevice = {}
    /\ server = [r \in Requests |-> Missing] /\ command = [r \in Requests |-> "ping"]
    /\ step = [r \in Requests |-> "unsent"]
    /\ contended = FALSE

-----------------------------------------------------------------------------
(* run and Listen.                                                         *)

Goto(p, label) == main' = [main EXCEPT ![p] = label]

\* A process is started.
start(p) ==
    /\ main[p] = "off"
    /\ Goto(p, "lstat")
    /\ contended' = (contended \/ \E q \in Servers : Live(q) /\ (Starting(q) \/ down[q] # "none"))
    /\ UNCHANGED <<path, listener, shutdownVars, registries, requestVars>>

lstat(p) ==
    /\ main[p] = "lstat"
    /\ Goto(p, CASE path = Missing -> "bind" [] path = File -> "failed" [] OTHER -> "ping")
    /\ UNCHANGED <<path, listener, shutdownVars, registries, requestVars, contended>>

Answers == path \in Servers /\ Live(path) /\ listener[path] = "open"

\* Mutant: a server that answers is taken for a stale socket.
pingIgnored(p) ==
    /\ main[p] = "ping"
    /\ Goto(p, "remove")
    /\ UNCHANGED <<path, listener, shutdownVars, registries, requestVars, contended>>

\* Ping: a server that answers within the 200 ms of probeContext is running;
\* every error, a timeout included, means a stale socket.
ping(p) ==
    /\ main[p] = "ping"
    /\ \/ /\ Answers
          /\ Goto(p, "failed")
          /\ UNCHANGED contended
       \/ /\ Goto(p, "remove")
          /\ contended' = (contended \/ Answers)
    /\ UNCHANGED <<path, listener, shutdownVars, registries, requestVars>>

\* Mutant: the stale socket is left where it is.
removeStaleKeeps(p) ==
    /\ main[p] = "remove"
    /\ Goto(p, "bind")
    /\ UNCHANGED <<path, listener, shutdownVars, registries, requestVars, contended>>

\* os.Remove, which fails when the path is gone by now.
removeStale(p) ==
    /\ main[p] = "remove"
    /\ path' = Missing
    /\ Goto(p, IF path = Missing THEN "failed" ELSE "bind")
    /\ UNCHANGED <<listener, shutdownVars, registries, requestVars, contended>>

\* Mutant: the listener is not stored.
bindForgetsListener(p) ==
    /\ main[p] = "bind"
    /\ \/ /\ path = Missing
          /\ path' = p
          /\ Goto(p, "serve")
       \/ /\ path # Missing
          /\ Goto(p, "failed")
          /\ UNCHANGED path
    /\ UNCHANGED <<listener, shutdownVars, registries, requestVars, contended>>

\* net.Listen, which does not replace what is at the path.
bind(p) ==
    /\ main[p] = "bind"
    /\ \/ /\ path = Missing
          /\ path' = p
          /\ listener' = [listener EXCEPT ![p] = "open"]
          /\ Goto(p, "serve")
       \/ /\ path # Missing
          /\ Goto(p, "failed")
          /\ UNCHANGED <<path, listener>>
    /\ UNCHANGED <<shutdownVars, registries, requestVars, contended>>

-----------------------------------------------------------------------------
(* Serve and the end of the process.                                       *)

\* The process is gone, and with it the goroutines of its requests.
Die(p, label) ==
    /\ Goto(p, label)
    /\ step' = [r \in Requests |-> IF server[r] = p THEN "done" ELSE step[r]]
    /\ command' = [r \in Requests |-> IF server[r] = p THEN "ping" ELSE command[r]]

\* A client connects to the socket path, is accepted and sends its request.
accept(r) ==
    /\ step[r] = "unsent"
    /\ Answers /\ main[path] = "serve"
    /\ server' = [server EXCEPT ![r] = path]
    /\ \E c \in Commands : command' = [command EXCEPT ![r] = c]
    /\ step' = [step EXCEPT ![r] = "handle"]
    /\ UNCHANGED <<path, main, listener, shutdownVars, registries, contended>>

\* Accept reports net.ErrClosed: Serve returns nil and the process exits.
serveReturns(p) ==
    /\ main[p] = "serve" /\ listener[p] = "closed"
    /\ Die(p, "exited")
    /\ UNCHANGED <<path, listener, shutdownVars, registries, server, contended>>

\* Accept fails otherwise: the process exits, and its socket stays behind.
acceptFails(p) ==
    /\ main[p] = "serve" /\ listener[p] = "open"
    /\ Die(p, "failed")
    /\ UNCHANGED <<path, listener, shutdownVars, registries, server, contended>>

\* The process is killed.
crash(p) ==
    /\ Live(p)
    /\ Die(p, "crashed")
    /\ UNCHANGED <<path, listener, shutdownVars, registries, server, contended>>

\* The interrupt ends the context; the goroutine Serve started calls Shutdown.
interrupt(p) ==
    /\ main[p] = "serve" /\ ~signalled[p]
    /\ signalled' = [signalled EXCEPT ![p] = TRUE]
    /\ calls' = [calls EXCEPT ![p] = @ + 1]
    /\ UNCHANGED <<path, main, listener, down, doneCloses, registries, requestVars, contended>>

-----------------------------------------------------------------------------
(* Shutdown.                                                               *)

NextDown(p, label) == down' = [down EXCEPT ![p] = label]

\* shutdownOnce.Do: the first call runs the body, the others wait for it.
Shutdown(p) ==
    /\ Live(p) /\ calls[p] > 0 /\ down[p] = "none"
    /\ NextDown(p, "listener")
    /\ contended' = (contended \/ \E q \in Servers : Starting(q))
    /\ UNCHANGED <<path, main, listener, signalled, calls, doneCloses, registries, requestVars>>

\* Mutant: the listener is only closed, its socket is not unlinked.
closeListenerKeepsSocket(p) ==
    /\ Live(p) /\ down[p] = "listener"
    /\ listener' = [listener EXCEPT ![p] = "closed"]
    /\ NextDown(p, "forwards")
    /\ UNCHANGED <<path, main, signalled, calls, doneCloses, registries, requestVars, contended>>

\* listener.Close, which also unlinks the path, whatever is there.
closeListener(p) ==
    /\ Live(p) /\ down[p] = "listener"
    /\ path' = Missing
    /\ listener' = [listener EXCEPT ![p] = "closed"]
    /\ NextDown(p, "forwards")
    /\ UNCHANGED <<main, signalled, calls, doneCloses, registries, requestVars, contended>>

\* forwards.close; the listeners and connections would end with the process.
closeForwards(p) ==
    /\ Live(p) /\ down[p] = "forwards"
    /\ NextDown(p, "reverses")
    /\ UNCHANGED <<path, main, listener, signalled, calls, doneCloses, registries, requestVars, contended>>

closeReverses(p) ==
    /\ Live(p) /\ down[p] = "reverses"
    /\ reverses' = [reverses EXCEPT ![p] = {}]
    /\ onDevice' = onDevice \ reverses[p]
    /\ NextDown(p, "socket")
    /\ UNCHANGED <<path, main, listener, signalled, calls, doneCloses, requestVars, contended>>

\* os.Lstat and os.Remove of a socket, whoever bound it.
removeSocket(p) ==
    /\ Live(p) /\ down[p] = "socket"
    /\ path' = IF path \in Servers THEN Missing ELSE path
    /\ NextDown(p, "close")
    /\ UNCHANGED <<main, listener, signalled, calls, doneCloses, registries, requestVars, contended>>

\* The deferred close(s.done).
closeDone(p) ==
    /\ Live(p) /\ down[p] = "close"
    /\ doneCloses' = [doneCloses EXCEPT ![p] = @ + 1]
    /\ NextDown(p, "done")
    /\ UNCHANGED <<path, main, listener, signalled, calls, registries, requestVars, contended>>

-----------------------------------------------------------------------------
(* handleConn and handleRequest.  Commands that leave nothing behind are     *)
(* left out, but for device_list, which reads a map without a mutex.         *)

Reply(r) == step' = [step EXCEPT ![r] = "done"] /\ command' = [command EXCEPT ![r] = "ping"]

\* The reply to shutdown is written, then a goroutine calls Shutdown.
handleShutdown(r) ==
    /\ step[r] = "handle" /\ command[r] = "shutdown"
    /\ Reply(r)
    /\ calls' = [calls EXCEPT ![server[r]] = @ + 1]
    /\ UNCHANGED <<path, main, listener, signalled, down, doneCloses, registries, server, contended>>

\* reverse_create registers on the device first, and in the registry later.
reverseRegister(r) ==
    /\ step[r] = "handle" /\ command[r] = "reverse_create"
    /\ onDevice' = onDevice \cup {r}
    /\ step' = [step EXCEPT ![r] = "publish"]
    /\ UNCHANGED <<path, main, listener, shutdownVars, reverses, server, command, contended>>

reversePublish(r) ==
    /\ step[r] = "publish"
    /\ reverses' = [reverses EXCEPT ![server[r]] = @ \cup {r}]
    /\ Reply(r)
    /\ UNCHANGED <<path, main, listener, shutdownVars, onDevice, server, contended>>

\* reverse_remove, of a registration the server has or of one it does not know.
reverseRemove(r) ==
    /\ step[r] = "handle" /\ command[r] = "reverse_remove"
    /\ Reply(r)
    /\ \E named \in Requests :
         /\ reverses' = [reverses EXCEPT ![server[r]] = @ \ {named}]
         /\ onDevice' = onDevice \ (reverses[server[r]] \cap {named})
    /\ UNCHANGED <<path, main, listener, shutdownVars, server, contended>>

reverseRemoveAll(r) ==
    /\ step[r] = "handle" /\ command[r] = "reverse_remove_all"
    /\ Reply(r)
    /\ reverses' = [reverses EXCEPT ![server[r]] = {}]
    /\ onDevice' = onDevice \ reverses[server[r]]
    /\ UNCHANGED <<path, main, listener, shutdownVars, server, contended>>

\* register and list use bySerial from here to the reply.
useDevices(r) ==
    /\ step[r] = "handle" /\ command[r] \in {"device_register", "device_list"}
    /\ step' = [step EXCEPT ![r] = "inMap"]
    /\ UNCHANGED <<path, main, listener, shutdownVars, registries, server, command, contended>>

leaveDevices(r) ==
    /\ step[r] = "inMap"
    /\ Reply(r)
    /\ UNCHANGED <<path, main, listener, shutdownVars, registries, server, contended>>

\* The runtime detects a map written while another goroutine uses it, and ends
\* the process.
mapRace(r) ==
    /\ step[r] = "inMap" /\ command[r] = "device_register"
    /\ \E other \in Requests \ {r} : step[other] = "inMap" /\ server[other] = server[r]
    /\ Die(server[r], "crashed")
    /\ UNCHANGED <<path, listener, shutdownVars, registries, server, contended>>

-----------------------------------------------------------------------------
MainStep(p) == lstat(p) \/ ping(p) \/ removeStale(p) \/ bind(p) \/ serveReturns(p)

ShutdownStep(p) ==
    Shutdown(p) \/ closeListener(p) \/ closeForwards(p) \/ removeSocket(p) \/ closeDone(p)

RequestStep(r) ==
    \/ handleShutdown(r) \/ reverseRegister(r) \/ reversePublish(r) \/ reverseRemove(r)
    \/ reverseRemoveAll(r) \/ useDevices(r) \/ leaveDevices(r)

Next ==
    \/ \E p \in Servers : MainStep(p) \/ ShutdownStep(p) \/ closeReverses(p)
    \/ \E p \in Servers : start(p) \/ acceptFails(p) \/ crash(p) \/ interrupt(p)
    \/ \E r \in Requests : RequestStep(r) \/ accept(r) \/ mapRace(r)

Spec == Init /\ [][Next]_vars

\* main and the goroutine in Shutdown run when they can.  Nothing is assumed of
\* closeReverses, which can hang (RemovalReturns of ReverseRegistry).
Fairness == \A p \in Servers : WF_vars(MainStep(p)) /\ WF_vars(ShutdownStep(p))

FairSpec == Spec /\ Fairness

-----------------------------------------------------------------------------
MainLabels == {"off", "lstat", "ping", "remove", "bind", "serve", "exited", "failed", "crashed"}
DownLabels == {"none", "listener", "forwards", "reverses", "socket", "close", "done"}

ProcessType ==
    /\ path \in Servers \cup {Missing, File}
    /\ main \in [Servers -> MainLabels] /\ listener \in [Servers -> {"none", "open", "closed"}]
    /\ signalled \in [Servers -> BOOLEAN] /\ calls \in [Servers -> Nat]
    /\ down \in [Servers -> DownLabels] /\ doneCloses \in [Servers -> Nat]
    /\ contended \in BOOLEAN
RegistryType ==
    /\ reverses \in [Servers -> SUBSET Requests] /\ onDevice \in SUBSET Requests
RequestType ==
    /\ server \in [Requests -> Servers \cup {Missing}] /\ command \in [Requests -> Commands \cup {"ping"}]
    /\ step \in [Requests -> {"unsent", "handle", "publish", "inMap", "done"}]

\* Every variable keeps its type; a request is served by a process that runs
\* Serve, and a server that serves has had a listener.
TypeOK ==
    /\ ProcessType /\ RegistryType /\ RequestType
    /\ \A r \in Requests :
         /\ step[r] # "unsent" => server[r] \in Servers
         /\ step[r] \notin {"unsent", "done"} => main[server[r]] = "serve"
    /\ \A p \in Servers : main[p] = "serve" => listener[p] # "none"

\* A server whose listener is open is reachable at the socket path, and so it is
\* the only one, unless a start has overlapped another start or a shutdown, or
\* found a running server too slow to answer.
SocketOwned ==
    ~contended => \A p \in Servers : main[p] = "serve" /\ listener[p] = "open" => path = p

\* s.done is closed once, although the signal and any number of shutdown
\* requests all call Shutdown; a second close would panic.
DoneOnce == \A p \in Servers : doneCloses[p] <= 1

\* Once Shutdown is called the process ends and its socket is gone, even if
\* closing the reverses hangs.
ShutdownEnds ==
    \A p \in Servers :
      calls[p] > 0 ~> main[p] \in {"crashed", "failed"} \/ (main[p] = "exited" /\ path # p)

Alone(p) == main[p] = "lstat" /\ path # File /\ \A q \in Servers \ {p} : ~Live(q)

\* A server started while no other runs gets to serve, whatever socket a crash
\* has left behind, unless it is killed or another one is started.
StaleSocketRecovered ==
    \A p \in Servers :
      Alone(p) ~> main[p] \in {"serve", "crashed"} \/ \E q \in Servers \ {p} : Live(q)

\* docs/reverse-forwarding-design.md:179: the server unregisters the device-side
\* listeners of its mappings during shutdown.
ShutdownUnregisters ==
    \A p \in Servers : main[p] = "exited" => reverses[p] \cap onDevice = {}
=============================================================================

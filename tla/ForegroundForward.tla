-------------------------- MODULE ForegroundForward --------------------------
(***************************************************************************)
(* A process of adb-go after its arguments are parsed: connect, then one      *)
(* command.  The command is one of ClientSession's operations, or forward     *)
(* without a server flag (custom/forward.go), which runs client.Forward       *)
(* (client/forward.go) until it is interrupted.                              *)
(*                                                                         *)
(* For the forward the transport has the detail ClientSession leaves out:    *)
(* WriteMessage writes a header and a payload under writeMu                   *)
(* (protocol/message.go), and a USB transport does one bulk transfer at a     *)
(* time under its mutex, which the reader keeps while it waits for the device *)
(* (internal/usb/bulk_linux.go).  Nothing is written to a stalled transport:  *)
(* whoever writes holds writeMu, and on USB the mutex, until it is closed.    *)
(***************************************************************************)
EXTENDS ClientSession

CONSTANTS
    Conns,   \* the connections of host programs to the forward's listener
    Nobody

ASSUME ForwardAssumption ==
    Nobody \notin Conns \cup {"up", "down", "done"} \cup ({"open", "wrte"} \X Conns)

VARIABLES
    command,    \* what the process runs, "operation" or "forward"
    link,       \* "tcp" or "usb"
    main,       \* main's goroutine
    exit,       \* its exit code, when known
    listener,   \* "none", "open", "closed"
    acceptor,   \* acceptLoop: "none", "accept", "drain", "done"
    acceptErr,  \* the error it reports
    watch,      \* the goroutine of ForwardLocalTCP that waits for forwardCtx
    cancelled,  \* f.cancel was called
    closed,     \* f.closed
    active,     \* f.active
    todo,       \* what Close has copied of it and has still to close
    at,         \* handleConn, by connection
    conn,       \* the host connection: "none", "open", "closed"
    adb,        \* its stream: "none", "opening", "refused", "open", "closed"
    copying,    \* the two copies of a bridge, "up" to the device and "down"
    once,       \* who runs closeBoth, or "done"
    reader,     \* readLoop: "none", "idle", "reading", "acknowledge", "dead"
    writer,     \* who has written a header and holds writeMu for the payload
    due,        \* the message whose payload the device is waiting for
    cut,        \* history: a message's payload could not be written
    misframed   \* history: the device has taken something else for a payload

closeVars == <<closed, active, todo>>
bridgeVars == <<at, conn, adb, copying, once>>
wireVars == <<reader, writer, due, cut, misframed>>
sessionVars == <<main, exit, listener, acceptor, acceptErr, watch, cancelled>>
forwardVars == <<command, link, sessionVars, closeVars, bridgeVars, wireVars>>
allVars == <<vars, forwardVars>>

Ways == {"up", "down"}

ForwardInit ==
    /\ Init
    /\ command \in {"operation", "forward"} /\ link \in {"tcp", "usb"}
    /\ command = "operation" => link = "tcp"
    /\ main = "connect" /\ exit = 0 /\ listener = "none"
    /\ acceptor = "none" /\ acceptErr = FALSE /\ watch = "none" /\ cancelled = FALSE
    /\ closed = FALSE /\ active = {} /\ todo = {}
    /\ at = [b \in Conns |-> "none"] /\ conn = [b \in Conns |-> "none"] /\ adb = [b \in Conns |-> "none"]
    /\ copying = [b \in Conns |-> [w \in Ways |-> "none"]] /\ once = [b \in Conns |-> Nobody]
    /\ reader = "none" /\ writer = Nobody /\ due = Nobody /\ cut = FALSE /\ misframed = FALSE

Running == command = "forward" /\ main # "exited"
\* forwardCtx: the command's context, or f.cancel.
forwardDone == connectCtx \/ cancelled

-----------------------------------------------------------------------------
(* The transport.                                                          *)

\* The mutex of a USB transport is free: the reader has it while it waits for the
\* device.
BusFree == link = "tcp" \/ Gone \/ reader # "reading"

\* Mutant: writeMessage does not take writeMu.
CanWriteAnyTime == BusFree

\* writeMu is free too.
CanWriteMessage == writer = Nobody /\ BusFree

\* An error of the transport: it is closed or lost, or, on USB, one transfer fails.
MayFail == Gone \/ (link = "usb" /\ transport = "open")

\* A header arrives at the device.
HeaderArrives(m) ==
    /\ misframed' = (misframed \/ due # Nobody)
    /\ due' = IF due = Nobody THEN m ELSE due

\* WriteMessage of a header with no payload, OKAY or CLSE.  Its errors are ignored.
WriteHeaderOnly ==
    /\ CanWriteMessage
    /\ \/ transport = "open" /\ HeaderArrives(Nobody)
       \/ MayFail /\ UNCHANGED <<misframed, due>>
    /\ UNCHANGED <<writer, cut>>

\* WriteMessage of message m, its first half ...
WriteHeader(m) ==
    /\ CanWriteMessage /\ transport = "open"
    /\ HeaderArrives(m)
    /\ writer' = m
    /\ UNCHANGED <<reader, cut>>

\* ... and its second.
WritePayload(m) ==
    /\ writer = m /\ BusFree /\ transport = "open"
    /\ writer' = Nobody
    /\ due' = IF due = m THEN Nobody ELSE due
    /\ UNCHANGED <<reader, cut, misframed>>

\* Mutant: writeMu is not unlocked when a write fails.
WriteFailsLocked(m) ==
    /\ MayFail
    /\ CanWriteMessage \/ (writer = m /\ BusFree)
    /\ UNCHANGED wireVars

\* One of the two fails, and writeMessage returns the error.
WriteFails(m) ==
    /\ MayFail
    /\ \/ CanWriteMessage /\ UNCHANGED <<writer, cut>>
       \/ writer = m /\ BusFree /\ writer' = Nobody /\ cut' = (cut \/ transport = "open")
    /\ UNCHANGED <<reader, due, misframed>>

\* ReadMessage of the next message.
readMessage ==
    /\ Running /\ reader = "idle" /\ transport = "open"
    /\ reader' = "reading"
    /\ UNCHANGED <<vars, command, link, sessionVars, closeVars, bridgeVars, writer, due, cut, misframed>>

\* handleStreamMessage: what the device sends is data, and OKAY is written; an
\* answer to an OPEN; or the end of a stream.
handleMessage ==
    /\ Running /\ reader = "reading" /\ transport = "open"
    /\ \/ /\ \E b \in Conns : adb[b] = "open"
          /\ reader' = "acknowledge" /\ UNCHANGED adb
       \/ /\ \E b \in Conns :
               \/ adb[b] = "opening" /\ \E a \in {"open", "refused"} : adb' = [adb EXCEPT ![b] = a]
               \/ adb[b] = "open" /\ adb' = [adb EXCEPT ![b] = "closed"]
          /\ reader' = "idle"
    /\ UNCHANGED <<vars, command, link, sessionVars, closeVars, at, conn, copying, once, writer, due, cut, misframed>>

acknowledge ==
    /\ Running /\ reader = "acknowledge"
    /\ WriteHeaderOnly
    /\ reader' = "idle"
    /\ UNCHANGED <<vars, command, link, sessionVars, closeVars, bridgeVars>>

\* A read fails: readLoop ends and closes all streams.
readLoopFails ==
    /\ Running /\ reader \in {"idle", "reading"} /\ MayFail
    /\ reader' = "dead"
    /\ adb' = [b \in Conns |-> CASE adb[b] = "opening" -> "refused" [] adb[b] = "open" -> "closed" [] OTHER -> adb[b]]
    /\ UNCHANGED <<vars, command, link, sessionVars, closeVars, at, conn, copying, once, writer, due, cut, misframed>>

-----------------------------------------------------------------------------
(* Forward.Close, by the goroutine that waits for the context or by main.     *)

\* addActive closes a stream with f.mu locked.
MuHeld == \E b \in Conns : at[b] = "closeLate"

\* The first half: f.cancel, and under f.mu the flag and the copy of active.  A
\* second Close returns.
CloseBegins(next, ret) ==
    /\ ~MuHeld
    /\ cancelled' = TRUE
    /\ closed' = TRUE
    /\ IF closed THEN ret /\ UNCHANGED todo ELSE next /\ todo' = active
    /\ UNCHANGED active

CloseListener == listener' = "closed" /\ UNCHANGED <<cancelled, closeVars, bridgeVars, wireVars>>

\* Stream.Close: CLSE if the stream is established and not closed.
StreamClose(b) ==
    /\ IF adb[b] = "open" THEN WriteHeaderOnly /\ UNCHANGED reader ELSE UNCHANGED wireVars
    /\ adb' = [adb EXCEPT ![b] = "closed"]
ConnClose(b) == conn' = [conn EXCEPT ![b] = "closed"]

\* One of the active connections and streams, in any order.
CloseActive ==
    /\ \E item \in todo :
         /\ todo' = todo \ {item}
         /\ IF item[1] = "conn" THEN ConnClose(item[2]) /\ UNCHANGED <<adb, wireVars>>
                                ELSE StreamClose(item[2]) /\ UNCHANGED conn
    /\ UNCHANGED <<cancelled, listener, closed, active, at, copying, once>>

watchStep ==
    /\ Running
    /\ \/ /\ watch = "wait" /\ forwardDone
          /\ CloseBegins(watch' = "listener", watch' = "ended")
          /\ UNCHANGED <<listener, bridgeVars, wireVars>>
       \/ watch = "listener" /\ CloseListener /\ watch' = "active"
       \/ watch = "active" /\ CloseActive /\ UNCHANGED watch
       \/ /\ watch = "active" /\ todo = {} /\ watch' = "ended"
          /\ UNCHANGED <<listener, cancelled, closeVars, bridgeVars, wireVars>>
    /\ UNCHANGED <<vars, command, link, main, exit, acceptor, acceptErr>>

-----------------------------------------------------------------------------
(* acceptLoop and handleConn.                                              *)

\* A host program connects, and bridgeWG counts the goroutine that serves it.
accept(b) ==
    /\ Running /\ acceptor = "accept" /\ listener = "open" /\ at[b] = "none"
    /\ at' = [at EXCEPT ![b] = "accepted"] /\ conn' = [conn EXCEPT ![b] = "open"]
    /\ UNCHANGED <<vars, command, link, sessionVars, closeVars, adb, copying, once, wireVars>>

\* Accept fails: the listener is closed, or there are no descriptors left.
acceptFails ==
    /\ Running /\ acceptor = "accept" /\ ~MuHeld
    /\ acceptor' = "drain"
    /\ acceptErr' = (listener = "open" /\ ~forwardDone /\ ~closed)
    /\ UNCHANGED <<vars, command, link, main, exit, listener, watch, cancelled, closeVars, bridgeVars, wireVars>>

\* Mutant: the loop does not wait for its bridges.
bridgesDoneAlways == TRUE

\* bridgeWG.Wait returns.
bridgesDone == \A b \in Conns : at[b] \in {"none", "ended"}

acceptDone ==
    /\ Running /\ acceptor = "drain" /\ bridgesDone
    /\ acceptor' = "done"
    /\ UNCHANGED <<vars, command, link, main, exit, listener, acceptErr, watch, cancelled, closeVars, bridgeVars, wireVars>>

Go(b, label) == at' = [at EXCEPT ![b] = label]
Open(b) == <<"open", b>>
Wrte(b) == <<"wrte", b>>
sameBridge == <<vars, command, link, sessionVars>>

\* OpenContext up to startReader.
openService(b) ==
    /\ Running /\ at[b] = "accepted"
    /\ IF forwardDone \/ reader = "dead"
         THEN Go(b, "ended") /\ ConnClose(b) /\ UNCHANGED reader
         ELSE /\ Go(b, "open") /\ UNCHANGED conn
              /\ reader' = IF reader = "none" THEN "idle" ELSE reader
    /\ UNCHANGED <<sameBridge, closeVars, adb, copying, once, writer, due, cut, misframed>>

\* The OPEN message.  A stream registered after readLoop has closed them all waits
\* for its context.
writeOpen(b) ==
    /\ Running
    /\ \/ at[b] = "open" /\ WriteHeader(Open(b)) /\ Go(b, "openPayload") /\ UNCHANGED <<conn, adb>>
       \/ /\ at[b] = "openPayload" /\ WritePayload(Open(b)) /\ Go(b, "await") /\ UNCHANGED conn
          /\ \E a \in {"opening", "refused"} :
               (a = "refused" => reader = "dead") /\ adb' = [adb EXCEPT ![b] = a]
       \/ /\ at[b] \in {"open", "openPayload"} /\ WriteFails(Open(b))
          /\ (at[b] = "openPayload") = (writer = Open(b))
          /\ Go(b, "ended") /\ ConnClose(b) /\ UNCHANGED adb
    /\ UNCHANGED <<sameBridge, closeVars, copying, once>>

\* The answer, or the end of the context.
openEnds(b) ==
    /\ Running /\ at[b] = "await"
    /\ \/ adb[b] = "open" /\ Go(b, "addConn") /\ UNCHANGED <<conn, adb, wireVars>>
       \/ adb[b] = "refused" /\ Go(b, "ended") /\ ConnClose(b) /\ UNCHANGED <<adb, wireVars>>
       \/ forwardDone /\ StreamClose(b) /\ Go(b, "ended") /\ ConnClose(b)
    /\ UNCHANGED <<sameBridge, closeVars, copying, once>>

\* Mutant: addActive does not look at f.closed.
addActiveAnyway(b, label) ==
    /\ active' = active \cup {<<label, b>>}
    /\ Go(b, IF label = "conn" THEN "addStream" ELSE "copy") /\ UNCHANGED conn

\* addActive closes what comes too late; a stream in a step of its own.
addActive(b, label) ==
    IF ~closed THEN /\ active' = active \cup {<<label, b>>}
                    /\ Go(b, IF label = "conn" THEN "addStream" ELSE "copy") /\ UNCHANGED conn
    ELSE /\ UNCHANGED active
         /\ IF label = "conn" THEN ConnClose(b) /\ Go(b, "addStream")
            ELSE Go(b, "closeLate") /\ UNCHANGED conn

addBoth(b) ==
    /\ Running
    /\ \/ /\ ~MuHeld /\ UNCHANGED <<adb, wireVars>>
          /\ \/ at[b] = "addConn" /\ addActive(b, "conn")
             \/ at[b] = "addStream" /\ addActive(b, "stream")
       \/ at[b] = "closeLate" /\ StreamClose(b) /\ Go(b, "copy") /\ UNCHANGED <<active, conn>>
    /\ UNCHANGED <<sameBridge, closed, todo, copying, once>>

Copy(b, w, label) == copying' = [copying EXCEPT ![b][w] = label]

startCopies(b) ==
    /\ Running /\ at[b] = "copy"
    /\ Go(b, "bridge") /\ copying' = [copying EXCEPT ![b] = [w \in Ways |-> "copy"]]
    /\ UNCHANGED <<sameBridge, closeVars, conn, adb, once, wireVars>>

\* io.Copy(stream, conn): the host program writes, and a WRTE goes out.
copyUp(b) ==
    /\ Running
    /\ \/ /\ copying[b].up = "copy" /\ conn[b] = "open" /\ adb[b] = "open"
          /\ WriteHeader(Wrte(b)) /\ Copy(b, "up", "payload")
       \/ copying[b].up = "payload" /\ WritePayload(Wrte(b)) /\ Copy(b, "up", "copy")
       \/ copying[b].up = "payload" /\ writer = Wrte(b) /\ WriteFails(Wrte(b)) /\ Copy(b, "up", "over")
    /\ UNCHANGED <<sameBridge, closeVars, at, conn, adb, once>>

\* A copy ends when the host program or the device does, when a side is closed,
\* or when a write fails.
bridgeCopyEnds(b, w) ==
    /\ Running /\ copying[b][w] = "copy" /\ Copy(b, w, "over")
    /\ UNCHANGED <<sameBridge, closeVars, at, conn, adb, once, wireVars>>
\* Then it has to.
copyMustEnd(b, w) == (conn[b] = "closed" \/ adb[b] = "closed") /\ bridgeCopyEnds(b, w)

\* once.Do(closeBoth): the first copy closes both sides, the second waits for it.
closeBoth(b, w) ==
    /\ Running
    /\ \/ copying[b][w] = "over" /\ once[b] = Nobody /\ once' = [once EXCEPT ![b] = w]
          /\ ConnClose(b) /\ UNCHANGED <<adb, copying, wireVars>>
       \/ copying[b][w] = "over" /\ once[b] = w /\ once' = [once EXCEPT ![b] = "done"]
          /\ StreamClose(b) /\ Copy(b, w, "ended") /\ UNCHANGED conn
       \/ copying[b][w] = "over" /\ once[b] = "done" /\ Copy(b, w, "ended")
          /\ UNCHANGED <<once, conn, adb, wireVars>>
    /\ UNCHANGED <<sameBridge, closeVars, at>>

\* copies.Wait, and the deferred removeActive and bridgeWG.Done.
bridgeEnds(b) ==
    /\ Running /\ ~MuHeld
    /\ at[b] = "bridge" /\ \A w \in Ways : copying[b][w] = "ended"
    /\ Go(b, "ended")
    /\ active' = active \ {<<"conn", b>>, <<"stream", b>>}
    /\ UNCHANGED <<sameBridge, closed, todo, conn, adb, copying, once, wireVars>>

-----------------------------------------------------------------------------
(* The command.                                                            *)

\* ForwardLocalTCP, after connectTarget.
startForward ==
    /\ Running /\ main = "connect" /\ phase = "connected"
    /\ \/ /\ ~connectCtx
          /\ main' = "wait" /\ listener' = "open" /\ acceptor' = "accept" /\ watch' = "wait" /\ UNCHANGED exit
       \/ main' = "closeClient" /\ exit' = 1 /\ UNCHANGED <<listener, acceptor, watch>>
    /\ UNCHANGED <<vars, command, link, acceptErr, cancelled, closeVars, bridgeVars, wireVars>>

connectFails ==
    /\ Running /\ main = "connect" /\ phase = "failed"
    /\ main' = "exited" /\ exit' = 1
    /\ UNCHANGED <<vars, command, link, listener, acceptor, acceptErr, watch, cancelled, closeVars, bridgeVars, wireVars>>

\* Forward.Wait returns.
waitReturns ==
    /\ Running /\ main = "wait" /\ acceptor = "done"
    /\ main' = "close" /\ exit' = IF acceptErr THEN 1 ELSE 0
    /\ UNCHANGED <<vars, command, link, listener, acceptor, acceptErr, watch, cancelled, closeVars, bridgeVars, wireVars>>

\* The deferred Forward.Close ...
mainCloses ==
    /\ Running
    /\ \/ /\ main = "close"
          /\ CloseBegins(main' = "listener", main' = "closeClient")
          /\ UNCHANGED <<listener, bridgeVars, wireVars>>
       \/ main = "listener" /\ CloseListener /\ main' = "active"
       \/ main = "active" /\ CloseActive /\ UNCHANGED main
       \/ /\ main = "active" /\ todo = {} /\ main' = "closeClient"
          /\ UNCHANGED <<listener, cancelled, closeVars, bridgeVars, wireVars>>
    /\ UNCHANGED <<vars, command, link, exit, acceptor, acceptErr, watch>>

\* ... and Client.Close, and the process ends.
closeClient ==
    /\ Running /\ main = "closeClient"
    /\ main' = "exited"
    /\ ConnectionClose
    /\ UNCHANGED <<handshakeVars, connectCtx, watcher, callVars, service, inbox, sent, final, pc, ctx, late, got,
                   pmOutput, result, worldVars>>
    /\ UNCHANGED <<command, link, exit, listener, acceptor, acceptErr, watch, cancelled, closeVars, bridgeVars, wireVars>>

\* Ctrl+C ends the context of signal.NotifyContext.
interrupt ==
    /\ Running /\ ~connectCtx
    /\ connectCtx' = TRUE
    /\ UNCHANGED <<handshakeVars, watcher, transport, opVars, worldVars, forwardVars>>

\* Mutant: Close of the USB transport takes its mutex.
usbCloseWaits == BusFree

\* Close of the USB transport does not wait for its mutex.
usbClose == TRUE

\* The goroutine of OpenBulkTransport.
usbCancel ==
    /\ Running /\ link = "usb" /\ connectCtx /\ ~Gone
    /\ usbClose
    /\ transport' = "closed"
    /\ UNCHANGED <<handshakeVars, connectCtx, watcher, opVars, worldVars, forwardVars>>

-----------------------------------------------------------------------------
HandleConn(b) ==
    \/ openService(b) \/ writeOpen(b) \/ openEnds(b) \/ addBoth(b) \/ startCopies(b) \/ copyUp(b) \/ bridgeEnds(b)
    \/ \E w \in Ways : closeBoth(b, w) \/ bridgeCopyEnds(b, w)

ReaderStep == readMessage \/ acknowledge \/ readLoopFails
MainStep == startForward \/ connectFails \/ waitReturns \/ mainCloses \/ closeClient

ForwardNext ==
    \/ command = "operation" /\ Next /\ UNCHANGED forwardVars
    \/ /\ Running /\ (ConnectStep \/ cancelWatch \/ deviceGreets \/ deviceStalls \/ deviceLost)
       /\ UNCHANGED forwardVars
    \/ interrupt \/ usbCancel \/ watchStep \/ acceptFails \/ acceptDone
    \/ ReaderStep \/ handleMessage \/ MainStep
    \/ \E b \in Conns : accept(b) \/ HandleConn(b)

ForwardSpec == ForwardInit /\ [][ForwardNext]_allVars

\* The steps towards the end of a session.
Must ==
    \/ MainStep \/ watchStep \/ acceptDone \/ (listener = "closed" /\ acceptFails)
    \/ Gone /\ readLoopFails
    \/ \E b \in Conns :
         \/ openService(b) \/ writeOpen(b) \/ openEnds(b) \/ addBoth(b) \/ startCopies(b) \/ bridgeEnds(b)
         \/ \E w \in Ways : closeBoth(b, w) \/ copyMustEnd(b, w)

\* Some goroutine that can run does run, and Go's mutexes are fair to those that
\* wait for them.  A write to a stalled transport is not one that can.
ForwardFairness ==
    /\ WF_allVars(usbCancel) /\ SF_allVars(Must)
    /\ \A b \in Conns : WF_allVars(copying[b].up = "payload" /\ copyUp(b))

FairForwardSpec == ForwardSpec /\ Fairness /\ ForwardFairness

-----------------------------------------------------------------------------
\* Every variable of the client and of the forward keeps its type, and writeMu is
\* locked only by a goroutine that is in the middle of its message.
ForwardTypeOK ==
    /\ TypeOK
    /\ command \in {"operation", "forward"} /\ link \in {"tcp", "usb"}
    /\ main \in {"connect", "wait", "close", "listener", "active", "closeClient", "exited"} /\ exit \in {0, 1}
    /\ listener \in {"none", "open", "closed"}
    /\ acceptor \in {"none", "accept", "drain", "done"} /\ acceptErr \in BOOLEAN
    /\ watch \in {"none", "wait", "listener", "active", "ended"} /\ cancelled \in BOOLEAN
    /\ closed \in BOOLEAN /\ active \subseteq {"conn", "stream"} \X Conns /\ todo \subseteq {"conn", "stream"} \X Conns
    /\ at \in [Conns -> {"none", "accepted", "open", "openPayload", "await", "addConn", "addStream", "closeLate",
                         "copy", "bridge", "ended"}]
    /\ conn \in [Conns -> {"none", "open", "closed"}]
    /\ adb \in [Conns -> {"none", "opening", "refused", "open", "closed"}]
    /\ copying \in [Conns -> [Ways -> {"none", "copy", "payload", "over", "ended"}]]
    /\ once \in [Conns -> Ways \cup {Nobody, "done"}]
    /\ reader \in {"none", "idle", "reading", "acknowledge", "dead"}
    /\ writer \in {Nobody} \cup ({"open", "wrte"} \X Conns) /\ due \in {Nobody} \cup ({"open", "wrte"} \X Conns)
    /\ cut \in BOOLEAN /\ misframed \in BOOLEAN
    /\ \A b \in Conns :
         /\ writer = Open(b) <=> at[b] = "openPayload"
         /\ writer = Wrte(b) <=> copying[b].up = "payload"

\* Wait blocks until the listener and all active bridges have stopped: when it
\* returns, no goroutine serves a connection, and every host connection and every
\* stream a bridge has opened is closed, whoever closed them in whichever order.
WaitMeansIdle ==
    acceptor = "done" =>
      \A b \in Conns : at[b] \in {"none", "ended"} /\ conn[b] # "open" /\ adb[b] # "open"

Closing == watch \in {"listener", "active"} \/ main \in {"listener", "active"}

\* A Close that has run leaves no bridge that carries data, also of connections
\* that were accepted before it and added to active after it.
CloseEndsBridges ==
    closed /\ ~Closing =>
      \A b \in Conns :
        /\ at[b] \in {"addStream", "closeLate", "copy", "bridge"} => conn[b] = "closed"
        /\ at[b] \in {"copy", "bridge"} => adb[b] = "closed"

\* The device never takes the header of one message for the payload of another,
\* although bridges, the reader and Close write at the same time; unless a write
\* of a payload has failed, after which the connection is not closed.
Framed == misframed => cut

\* Ctrl+C ends the command: over USB whatever the device does, also when it
\* neither sends nor takes data and a transfer keeps the transport's mutex; over
\* TCP unless the device takes no more data while a connection is served, whose
\* streams cannot be closed then.
InterruptEnds ==
    (command = "forward" /\ connectCtx) ~>
      \/ main = "exited"
      \/ link = "tcp" /\ transport = "stalled" /\ phase = "connected" /\ ~bridgesDone
=============================================================================

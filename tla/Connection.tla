------------------------------ MODULE Connection ------------------------------
(***************************************************************************)
(* The stream layer of protocol.Connection (protocol/stream.go and the     *)
(* Close method of protocol/connection.go), after the CNXN handshake: one  *)
(* ADB transport that carries any number of logical streams.               *)
(*                                                                         *)
(* Concurrency.  One goroutine (Reader) runs readLoop.  Threads are the    *)
(* goroutines of the program that call OpenContext, Write, Close,          *)
(* HandleOpen, RemoveOpenHandler and Connection.Close.  Each stream the    *)
(* program holds has one goroutine that calls Read, as io.Copy does in     *)
(* every user of the package.  A step is one critical section of c.mu or   *)
(* s.mu, one channel operation, or one packet written under writeMu; what  *)
(* happens between two of them interleaves.                                *)
(*                                                                         *)
(* The device at the other end is external: it follows the ADB protocol    *)
(* (one unacknowledged WRTE per stream, no CLSE in answer to a CLSE) and   *)
(* may refuse an OPEN, close a stream or drop the transport at any time; a *)
(* packet of it may reach the host damaged.  It keeps taking what the host *)
(* writes: a device that does not is the subject of ClientSession.         *)
(***************************************************************************)
EXTENDS Integers, Sequences, FiniteSets

CONSTANTS
    Threads,       \* goroutines of the program that call the package
    Reader,        \* the goroutine that runs readLoop
    Closers,       \* bound: the goroutines of Threads that call Connection.Close
    MaxOpens,      \* bound: calls of OpenContext that allocate a stream
    MaxPeerOpens,  \* bound: OPEN packets the device sends
    Writers,       \* bound: the streams, by the device's ids, on which it writes
    DataCap,       \* capacity of dataCh (16 in the code)
    MaxData,       \* bound: bytes the device writes on one stream
    MaxChunk,      \* bound: bytes of one WRTE payload
    MaxCalls       \* bound: calls of Write and Close on one stream

ASSUME ConnectionAssumption ==
    /\ Reader \notin Threads
    /\ MaxOpens \in Nat /\ MaxPeerOpens \in Nat
    /\ DataCap \in Nat \ {0}
    /\ MaxData \in Nat /\ MaxChunk \in Nat \ {0} /\ MaxCalls \in Nat

Procs == Threads \cup {Reader}

\* Identifiers of either side: 0 is "none", nextLocalID starts at 1.
IDs == 1 .. (MaxOpens + MaxPeerOpens)

Commands == {"OPEN", "OKAY", "WRTE", "CLSE"}
Messages == [cmd : Commands, arg0 : IDs \cup {0}, arg1 : IDs \cup {0}, data : Seq(Nat)]
NoMessage == [cmd |-> "OKAY", arg0 |-> 0, arg1 |-> 0, data |-> <<>>]
Message(cmd, arg0, arg1, data) == [cmd |-> cmd, arg0 |-> arg0, arg1 |-> arg1, data |-> data]

\* The values s.err and openCh carry; "nil" is a clean result.
Errors == {"nil", "ErrClosedPipe", "ErrDeviceClosed", "ErrWrite"}

VARIABLES
    \* Connection
    streams,       \* c.streams: the local ids that are registered
    nextLocalID,   \* c.nextLocalID
    openHandler,   \* c.openHandlers has a handler for the service the device opens
    readerErr,     \* c.readerErr # nil
    transport,     \* "up", "peerGone" (device closed it), "closed" (closer.Close)
    toHost,        \* packets in flight to the host
    toPeer,        \* packets in flight to the device
    panicked,      \* the process died of a send on a closed channel
    \* Stream, by local id
    remoteID,      \* s.remoteID
    openCh,        \* s.openCh: "empty" or the one value openOnce put there
    closed,        \* s.closed, and dataCh is closed
    err,           \* s.err
    dataCh,        \* s.dataCh: the chunks queued
    buf,           \* s.buf
    \* the program's view of its streams
    held,          \* streams OpenContext returned or a handler was started with
    reading,       \* where the goroutine that reads the stream is
    delivered,     \* history: the bytes Read has returned
    calls,         \* history: calls of Write and Close on the stream
    opens,         \* history: calls of OpenContext
    \* goroutines
    pc,            \* the next step of each goroutine
    id,            \* the local id it works on
    todo,          \* streams it has detached from c.streams and must close
    cause,         \* the error it closes them with
    rmsg,          \* the packet the reader handles
    \* the device, by its own ids
    peerNext,      \* ids the device has allotted
    peerState,     \* "free", "opening", "open", "closed"
    peerHost,      \* the host's id of the stream
    peerUnacked,   \* a WRTE of the device waits for its OKAY
    peerSent,      \* bytes the device has written
    peerOpens      \* OPEN packets the device has sent

wireVars   == <<transport, toHost, toPeer>>
connVars   == <<streams, nextLocalID, openHandler, readerErr>>
streamVars == <<remoteID, openCh, closed, err, dataCh, buf>>
appVars    == <<held, reading, delivered, calls, opens>>
procVars   == <<pc, id, todo, cause, rmsg>>
peerVars   == <<peerNext, peerState, peerHost, peerUnacked, peerSent, peerOpens>>
\* What a step that only moves a goroutine, or only writes a packet, leaves alone.
noWrite    == <<connVars, panicked, streamVars, appVars, todo, peerVars>>
noData     == <<noWrite, wireVars>>
vars == <<connVars, wireVars, panicked, streamVars, appVars, procVars, peerVars>>

Init ==
    /\ streams = {} /\ nextLocalID = 0 /\ openHandler = FALSE /\ readerErr = FALSE
    /\ transport = "up" /\ toHost = <<>> /\ toPeer = <<>> /\ panicked = FALSE
    /\ remoteID = [i \in IDs |-> 0]
    /\ openCh = [i \in IDs |-> "empty"]
    /\ closed = [i \in IDs |-> FALSE]
    /\ err = [i \in IDs |-> "nil"]
    /\ dataCh = [i \in IDs |-> <<>>]
    /\ buf = [i \in IDs |-> <<>>]
    /\ held = {} /\ opens = 0
    /\ reading = [i \in IDs |-> "idle"]
    /\ delivered = [i \in IDs |-> <<>>]
    /\ calls = [i \in IDs |-> 0]
    /\ pc = [p \in Procs |-> IF p = Reader THEN "off" ELSE "idle"]
    /\ id = [p \in Procs |-> 0]
    /\ todo = [p \in Procs |-> {}]
    /\ cause = [p \in Procs |-> "nil"]
    /\ rmsg = NoMessage
    /\ peerNext = 0 /\ peerOpens = 0
    /\ peerState = [i \in IDs |-> "free"]
    /\ peerHost = [i \in IDs |-> 0]
    /\ peerUnacked = [i \in IDs |-> FALSE]
    /\ peerSent = [i \in IDs |-> 0]

-----------------------------------------------------------------------------
(***************************************************************************)
(* writeMessage.  A write always succeeds while both ends are up, always   *)
(* fails after closer.Close, and may do either once the device is gone (the *)
(* kernel accepts bytes until it learns of the reset).                      *)
(***************************************************************************)
writeMessage(msg, ok) ==
    /\ ok => transport # "closed"
    /\ ~ok => transport # "up"
    /\ toPeer' = IF ok /\ transport = "up" THEN Append(toPeer, msg) ELSE toPeer
    /\ UNCHANGED <<transport, toHost>>

\* A goroutine's move: on to the next step, into work on stream i, or out of
\* the call, which ends the life of its local variables.
Goto(p, label) == pc' = [pc EXCEPT ![p] = label] /\ UNCHANGED <<id, cause, rmsg>>

Enter(p, label, i, e) ==
    /\ pc' = [pc EXCEPT ![p] = label]
    /\ id' = [id EXCEPT ![p] = i]
    /\ cause' = [cause EXCEPT ![p] = e]
    /\ UNCHANGED rmsg

Return(p, label) ==
    /\ pc' = [pc EXCEPT ![p] = label]
    /\ id' = [id EXCEPT ![p] = 0]
    /\ cause' = [cause EXCEPT ![p] = "nil"]
    /\ rmsg' = IF p = Reader THEN NoMessage ELSE rmsg

\* openOnce.Do: only the first value is sent on openCh.
openOnce(i, value) ==
    openCh' = [openCh EXCEPT ![i] = IF @ = "empty" THEN value ELSE @]

\* Mutant: the id is registered before nextLocalID is incremented.
newStreamLockedPostIncrement(p, remote, label) ==
    /\ nextLocalID + 1 \in IDs
    /\ nextLocalID' = nextLocalID + 1
    /\ streams' = streams \cup {nextLocalID}
    /\ remoteID' = [remoteID EXCEPT ![nextLocalID + 1] = remote]
    /\ Enter(p, label, nextLocalID + 1, "nil")

\* newStreamLocked: the stream gets the next local id and is registered.
newStreamLocked(p, remote, label) ==
    /\ nextLocalID + 1 \in IDs
    /\ nextLocalID' = nextLocalID + 1
    /\ streams' = streams \cup {nextLocalID + 1}
    /\ remoteID' = [remoteID EXCEPT ![nextLocalID + 1] = remote]
    /\ Enter(p, label, nextLocalID + 1, "nil")

\* Mutant: the streams to close stay in the map.
DetachKeeps(p, set) ==
    /\ todo' = [todo EXCEPT ![p] = set]
    /\ streams' = streams
    /\ Goto(p, "closing")
    /\ UNCHANGED <<nextLocalID, openHandler, readerErr, wireVars, panicked, streamVars,
                   appVars, peerVars>>

(***************************************************************************)
(* closeStream and closeAllStreams.  Both first take streams out of the    *)
(* map under c.mu, then call closeWithError for each, which marks the      *)
(* stream closed and closes dataCh under s.mu and after that fires openOnce *)
(***************************************************************************)
Detach(p, set) ==
    /\ todo' = [todo EXCEPT ![p] = set]
    /\ streams' = streams \ set
    /\ Goto(p, "closing")
    /\ UNCHANGED <<nextLocalID, openHandler, readerErr, wireVars, panicked, streamVars,
                   appVars, peerVars>>

closeStream(p) ==
    /\ pc[p] = "closeStream"
    /\ Detach(p, {id[p]} \cap streams)

\* Mutant: the map is swapped for a new one but its streams are not closed.
closeAllStreamsForgets(p) ==
    /\ pc[p] = "closeAll"
    /\ Detach(p, {})

closeAllStreams(p) ==
    /\ pc[p] = "closeAll"
    /\ Detach(p, streams)

\* s.closed, s.err and close(s.dataCh), under s.mu.
closeWithError(p) ==
    /\ pc[p] = "closing"
    /\ \E i \in todo[p] :
         /\ todo' = [todo EXCEPT ![p] = @ \ {i}]
         /\ IF closed[i]
              THEN UNCHANGED <<closed, err, pc, id, cause, rmsg>>
              ELSE /\ closed' = [closed EXCEPT ![i] = TRUE]
                   /\ err' = [err EXCEPT ![i] = cause[p]]
                   /\ Enter(p, "fire", i, cause[p])
    /\ UNCHANGED <<connVars, wireVars, panicked, remoteID, openCh, dataCh, buf, appVars, peerVars>>

\* Mutant: closeWithError does not signal openCh.
fireOpenSilent(p) ==
    /\ pc[p] = "fire"
    /\ Goto(p, "closing")
    /\ UNCHANGED noData

\* The openOnce.Do that ends closeWithError.
fireOpen(p) ==
    /\ pc[p] = "fire"
    /\ openOnce(id[p], cause[p])
    /\ Goto(p, "closing")
    /\ UNCHANGED <<connVars, wireVars, panicked, remoteID, closed, err, dataCh, buf, appVars, todo, peerVars>>

\* The caller goes on: the read loop ends after a read error, and only
\* Connection.Close closes with ErrDeviceClosed outside the reader.
AfterClose(p) ==
    IF p = Reader THEN IF readerErr THEN "stopped" ELSE "read"
    ELSE IF cause[p] = "ErrDeviceClosed" THEN "closeTransport" ELSE "idle"

closeReturn(p) ==
    /\ pc[p] = "closing" /\ todo[p] = {}
    /\ Return(p, AfterClose(p))
    /\ UNCHANGED noData

Closing(p) == closeStream(p) \/ closeAllStreams(p) \/ closeWithError(p) \/ fireOpen(p) \/ closeReturn(p)

-----------------------------------------------------------------------------
(* The calls of the program's goroutines.                                  *)

\* startReader starts readLoop once; step is the caller's own move.
startReader(step) ==
    /\ pc' = [step EXCEPT ![Reader] = IF @ = "off" THEN "read" ELSE @]
    /\ UNCHANGED <<id, cause, rmsg>>

\* OpenContext up to startReader, which hands a dead reader's error back.
OpenContext(t) ==
    /\ pc[t] = "idle" /\ opens < MaxOpens
    /\ ~readerErr
    /\ opens' = opens + 1
    /\ startReader([pc EXCEPT ![t] = "newStream"])
    /\ UNCHANGED <<connVars, wireVars, panicked, streamVars, held, reading, delivered, calls,
                   todo, peerVars>>

newStream(t) ==
    /\ pc[t] = "newStream"
    /\ newStreamLocked(t, 0, "writeOpen")
    /\ UNCHANGED <<openHandler, readerErr, wireVars, panicked, openCh, closed, err, dataCh, buf,
                   appVars, todo, peerVars>>

writeOpen(t) ==
    /\ pc[t] = "writeOpen"
    /\ \E ok \in BOOLEAN :
         /\ writeMessage(Message("OPEN", id[t], 0, <<>>), ok)
         /\ Goto(t, IF ok THEN "awaitOpen" ELSE "removeStream")
    /\ UNCHANGED noWrite

removeStream(t) ==
    /\ pc[t] = "removeStream"
    /\ streams' = streams \ {id[t]}
    /\ Return(t, "idle")
    /\ UNCHANGED <<nextLocalID, openHandler, readerErr, wireVars, panicked, streamVars, appVars,
                   todo, peerVars>>

\* Mutant: the stream is returned whatever openCh says.
openReturnsAnyway(t) ==
    /\ pc[t] = "awaitOpen" /\ openCh[id[t]] # "empty"
    /\ held' = held \cup {id[t]}
    /\ Return(t, "idle")
    /\ UNCHANGED <<connVars, wireVars, panicked, streamVars, reading, delivered, calls, opens,
                   todo, peerVars>>

\* case err := <-stream.openCh: the stream is returned when err is nil.
openReturns(t) ==
    /\ pc[t] = "awaitOpen" /\ openCh[id[t]] # "empty"
    /\ held' = IF openCh[id[t]] = "nil" THEN held \cup {id[t]} ELSE held
    /\ Return(t, "idle")
    /\ UNCHANGED <<connVars, wireVars, panicked, streamVars, reading, delivered, calls, opens,
                   todo, peerVars>>

\* Stream.Close reads s.closed and s.remoteID under s.mu; CLSE is sent only
\* for an established stream nobody has closed.
Close(t, i) ==
    /\ Enter(t, IF ~closed[i] /\ remoteID[i] # 0 THEN "writeClse" ELSE "closeStream",
             i, "ErrClosedPipe")
    /\ UNCHANGED <<connVars, wireVars, panicked, streamVars, held, reading, delivered, opens,
                   todo, peerVars>>

writeClse(t) ==
    /\ pc[t] = "writeClse"
    /\ \E ok \in BOOLEAN : writeMessage(Message("CLSE", id[t], remoteID[id[t]], <<>>), ok)
    /\ Goto(t, "closeStream")
    /\ UNCHANGED noWrite

StreamClose(t) ==
    /\ pc[t] = "idle"
    /\ \E i \in held :
         /\ calls[i] < MaxCalls
         /\ calls' = [calls EXCEPT ![i] = @ + 1]
         /\ Close(t, i)

\* case <-ctx.Done(): the stream being opened is closed.
openCanceled(t) == pc[t] = "awaitOpen" /\ Close(t, id[t]) /\ UNCHANGED calls

\* Write reads s.closed and s.remoteID under s.mu, then writes the packet.
Write(t) ==
    /\ pc[t] = "idle"
    /\ \E i \in held :
         /\ ~closed[i] /\ remoteID[i] # 0
         /\ calls[i] < MaxCalls
         /\ calls' = [calls EXCEPT ![i] = @ + 1]
         /\ Enter(t, "writeData", i, "nil")
    /\ UNCHANGED <<connVars, wireVars, panicked, streamVars, held, reading, delivered, opens,
                   todo, peerVars>>

writeData(t) ==
    /\ pc[t] = "writeData"
    /\ \E ok \in BOOLEAN : writeMessage(Message("WRTE", id[t], remoteID[id[t]], <<>>), ok)
    /\ Return(t, "idle")
    /\ UNCHANGED noWrite

\* Skipped in instances where the device opens nothing.
HandleOpen(t) ==
    /\ pc[t] = "idle" /\ MaxPeerOpens > 0
    /\ openHandler' = TRUE
    /\ Goto(t, "handleOpen")
    /\ UNCHANGED <<streams, nextLocalID, readerErr, wireVars, panicked, streamVars, appVars,
                   todo, peerVars>>

\* The startReader that ends HandleOpen.
handleOpenStart(t) ==
    /\ pc[t] = "handleOpen"
    /\ startReader([pc EXCEPT ![t] = "idle"])
    /\ UNCHANGED noData

RemoveOpenHandler(t) ==
    /\ pc[t] = "idle" /\ openHandler
    /\ openHandler' = FALSE
    /\ UNCHANGED <<streams, nextLocalID, readerErr, wireVars, panicked, streamVars, appVars,
                   procVars, peerVars>>

\* Connection.Close: closeAllStreams, then closer.Close.
ConnectionClose(t) ==
    /\ t \in Closers
    /\ pc[t] = "idle" /\ transport # "closed"
    /\ Enter(t, "closeAll", 0, "ErrDeviceClosed")
    /\ UNCHANGED noData

closeTransport(t) ==
    /\ pc[t] = "closeTransport"
    /\ transport' = "closed"
    /\ Return(t, "idle")
    /\ UNCHANGED <<connVars, toHost, toPeer, panicked, streamVars, appVars,
                   todo, peerVars>>

-----------------------------------------------------------------------------
(* Stream.Read, called in a loop by the goroutine that reads stream i.     *)

readFrame == <<connVars, wireVars, panicked, remoteID, openCh, closed, err,
               held, calls, opens, procVars, peerVars>>

\* Mutant: s.buf keeps the last byte it returned.
readBufRepeats(i) ==
    /\ reading[i] = "idle" /\ buf[i] # <<>>
    /\ \E n \in 1 .. Len(buf[i]) :
         /\ delivered' = [delivered EXCEPT ![i] = @ \o SubSeq(buf[i], 1, n)]
         /\ buf' = [buf EXCEPT ![i] = SubSeq(@, n, Len(@))]
    /\ UNCHANGED <<readFrame, dataCh, reading>>

\* Bytes already in s.buf are returned first, as many as fit in p.
readBuf(i) ==
    /\ reading[i] = "idle" /\ buf[i] # <<>>
    /\ \E n \in 1 .. Len(buf[i]) :
         /\ delivered' = [delivered EXCEPT ![i] = @ \o SubSeq(buf[i], 1, n)]
         /\ buf' = [buf EXCEPT ![i] = SubSeq(@, n + 1, Len(@))]
    /\ UNCHANGED <<readFrame, dataCh, reading>>

\* s.closed is read under s.mu and decides how dataCh is received from.
readCheck(i) ==
    /\ reading[i] = "idle" /\ buf[i] = <<>>
    /\ reading' = [reading EXCEPT ![i] = IF closed[i] THEN "drain" ELSE "wait"]
    /\ UNCHANGED <<readFrame, dataCh, buf, delivered>>

\* A chunk is received and appended to s.buf, which only this goroutine uses.
readChunk(i) ==
    /\ reading[i] \in {"wait", "drain"} /\ dataCh[i] # <<>>
    /\ dataCh' = [dataCh EXCEPT ![i] = Tail(@)]
    /\ buf' = [buf EXCEPT ![i] = @ \o Head(dataCh[i])]
    /\ reading' = [reading EXCEPT ![i] = "idle"]
    /\ UNCHANGED <<readFrame, delivered>>

\* The blocking receive sees the closed channel: once more around the loop.
readWake(i) ==
    /\ reading[i] = "wait" /\ dataCh[i] = <<>> /\ closed[i]
    /\ reading' = [reading EXCEPT ![i] = "idle"]
    /\ UNCHANGED <<readFrame, dataCh, buf, delivered>>

\* Mutant: a closed stream ends at once, whatever is still queued.
readEndEarly(i) ==
    /\ reading[i] = "drain"
    /\ reading' = [reading EXCEPT ![i] = IF err[i] = "nil" THEN "eof" ELSE "error"]
    /\ UNCHANGED <<readFrame, dataCh, buf, delivered>>

\* Nothing is left of a closed stream: Read returns s.err, or io.EOF.
readEnd(i) ==
    /\ reading[i] = "drain" /\ dataCh[i] = <<>>
    /\ reading' = [reading EXCEPT ![i] = IF err[i] = "nil" THEN "eof" ELSE "error"]
    /\ UNCHANGED <<readFrame, dataCh, buf, delivered>>

Read(i) == i \in held /\ (readBuf(i) \/ readCheck(i) \/ readChunk(i) \/ readWake(i) \/ readEnd(i))

-----------------------------------------------------------------------------
(* readLoop and handleStreamMessage.                                       *)

readMessage ==
    /\ pc[Reader] = "read"
    /\ transport # "closed" /\ toHost # <<>>
    /\ rmsg' = Head(toHost)
    /\ toHost' = Tail(toHost)
    /\ pc' = [pc EXCEPT ![Reader] = "handle"]
    /\ UNCHANGED <<connVars, transport, toPeer, panicked, streamVars, appVars,
                   id, cause, todo, peerVars>>

\* ReadMessage fails, because the transport is gone (packets the device sent
\* before may be lost) or the magic or the checksum of the next packet is wrong,
\* with the transport still up: readerErr is set, then every stream is closed.
readFailed ==
    /\ pc[Reader] = "read" /\ (transport # "up" \/ toHost # <<>>)
    /\ readerErr' = TRUE
    /\ Enter(Reader, "closeAll", 0, "ErrDeviceClosed")
    /\ UNCHANGED <<streams, nextLocalID, openHandler, wireVars, panicked, streamVars, appVars,
                   todo, peerVars>>

\* Where the reader goes with a packet for a registered stream.
HandlerOf(cmd) == IF cmd = "CLSE" THEN "peerClose" ELSE "establish"

\* streamByLocalID: a packet for an id that is not registered is dropped.
streamByLocalID ==
    /\ pc[Reader] = "handle" /\ rmsg.cmd # "OPEN"
    /\ IF rmsg.arg1 \in streams
         THEN Enter(Reader, HandlerOf(rmsg.cmd), rmsg.arg1, "nil")
         ELSE Return(Reader, "read")
    /\ UNCHANGED noData

\* establish: the first OKAY or WRTE fixes s.remoteID under s.mu.
establish ==
    /\ pc[Reader] = "establish"
    /\ remoteID' = [remoteID EXCEPT ![id[Reader]] = IF @ = 0 THEN rmsg.arg0 ELSE @]
    /\ Goto(Reader, "established")
    /\ UNCHANGED <<connVars, wireVars, panicked, openCh, closed, err, dataCh, buf, appVars,
                   todo, peerVars>>

\* Mutant: establish does not signal openCh.
establishedSilent ==
    /\ pc[Reader] = "established"
    /\ IF rmsg.cmd = "WRTE" THEN Goto(Reader, "ack") ELSE Return(Reader, "read")
    /\ UNCHANGED noData

\* The openOnce.Do that ends establish.
established ==
    /\ pc[Reader] = "established"
    /\ openOnce(id[Reader], "nil")
    /\ IF rmsg.cmd = "WRTE" THEN Goto(Reader, "ack") ELSE Return(Reader, "read")
    /\ UNCHANGED <<connVars, wireVars, panicked, remoteID, closed, err, dataCh, buf, appVars, todo, peerVars>>

\* The WRTE is acknowledged before its payload is queued.
acknowledge ==
    /\ pc[Reader] = "ack"
    /\ \E ok \in BOOLEAN : writeMessage(Message("OKAY", id[Reader], rmsg.arg0, <<>>), ok)
    /\ Goto(Reader, "receive")
    /\ UNCHANGED noWrite

\* s.dataCh <- chunk, without s.mu: it blocks while the channel is full and
\* panics once the channel is closed.
receive ==
    /\ pc[Reader] = "receive"
    /\ \/ /\ closed[id[Reader]]
          /\ panicked' = TRUE
          /\ UNCHANGED <<dataCh, pc, id, cause, rmsg>>
       \/ /\ ~closed[id[Reader]] /\ Len(dataCh[id[Reader]]) < DataCap
          /\ dataCh' = [dataCh EXCEPT ![id[Reader]] = Append(@, rmsg.data)]
          /\ Return(Reader, "read")
          /\ UNCHANGED panicked
    /\ UNCHANGED <<connVars, wireVars, remoteID, openCh, closed, err, buf, appVars,
                   todo, peerVars>>

\* Mutant: a CLSE of an established stream is dropped.
peerCloseIgnored ==
    /\ pc[Reader] = "peerClose"
    /\ Return(Reader, "read")
    /\ UNCHANGED noData

\* Mutant: a CLSE is always taken for a refused OPEN.
peerCloseAbrupt ==
    /\ pc[Reader] = "peerClose"
    /\ Enter(Reader, "closeStream", id[Reader], "ErrDeviceClosed")
    /\ UNCHANGED noData

\* CLSE: a clean end for an established stream, a refused OPEN otherwise.
peerClose ==
    /\ pc[Reader] = "peerClose"
    /\ Enter(Reader, "closeStream", id[Reader],
             IF remoteID[id[Reader]] # 0 THEN "nil" ELSE "ErrDeviceClosed")
    /\ UNCHANGED noData

\* handlePeerOpen looks the handler up and later starts the one it found.
handlePeerOpen ==
    /\ pc[Reader] = "handle" /\ rmsg.cmd = "OPEN"
    /\ Goto(Reader, IF openHandler THEN "accept" ELSE "refuse")
    /\ UNCHANGED noData

refuse ==
    /\ pc[Reader] = "refuse"
    /\ \E ok \in BOOLEAN : writeMessage(Message("CLSE", 0, rmsg.arg0, <<>>), ok)
    /\ Return(Reader, "read")
    /\ UNCHANGED noWrite

\* Mutant: the accepted stream does not learn the device's id.
newAcceptedStreamAnonymous ==
    /\ pc[Reader] = "accept"
    /\ newStreamLocked(Reader, 0, "writeOkay")
    /\ openOnce(nextLocalID + 1, "nil")
    /\ UNCHANGED <<openHandler, readerErr, wireVars, panicked, closed, err, dataCh, buf, appVars,
                   todo, peerVars>>

newAcceptedStream ==
    /\ pc[Reader] = "accept"
    /\ newStreamLocked(Reader, rmsg.arg0, "writeOkay")
    /\ openOnce(nextLocalID + 1, "nil")
    /\ UNCHANGED <<openHandler, readerErr, wireVars, panicked, closed, err, dataCh, buf, appVars,
                   todo, peerVars>>

\* The handler's goroutine starts, holding the stream, once OKAY is written.
acceptOkay ==
    /\ pc[Reader] = "writeOkay"
    /\ \E ok \in BOOLEAN :
         /\ writeMessage(Message("OKAY", id[Reader], rmsg.arg0, <<>>), ok)
         /\ held' = IF ok THEN held \cup {id[Reader]} ELSE held
         /\ IF ok THEN Return(Reader, "read")
                  ELSE Enter(Reader, "closeStream", id[Reader], "ErrWrite")
    /\ UNCHANGED <<connVars, panicked, streamVars, reading, delivered, calls, opens,
                   todo, peerVars>>

-----------------------------------------------------------------------------
(* The device (external): adbd's side of the protocol.                     *)

hostFrame == <<connVars, panicked, streamVars, appVars, procVars>>

peerReply(msg) ==
    /\ toHost' = Append(toHost, msg)
    /\ toPeer' = Tail(toPeer)

peerAccept ==
    /\ Head(toPeer).cmd = "OPEN" /\ peerNext + 1 \in IDs
    /\ peerNext' = peerNext + 1
    /\ peerState' = [peerState EXCEPT ![peerNext + 1] = "open"]
    /\ peerHost' = [peerHost EXCEPT ![peerNext + 1] = Head(toPeer).arg0]
    /\ peerReply(Message("OKAY", peerNext + 1, Head(toPeer).arg0, <<>>))
    /\ UNCHANGED <<peerUnacked, peerSent, peerOpens>>

peerRefuse ==
    /\ Head(toPeer).cmd = "OPEN"
    /\ peerReply(Message("CLSE", 0, Head(toPeer).arg0, <<>>))
    /\ UNCHANGED peerVars

\* OKAY: the answer to the device's OPEN, or to its last WRTE.
peerOkay ==
    /\ Head(toPeer).cmd = "OKAY"
    /\ LET m == Head(toPeer) IN
         IF peerState[m.arg1] = "opening"
           THEN /\ peerState' = [peerState EXCEPT ![m.arg1] = "open"]
                /\ peerHost' = [peerHost EXCEPT ![m.arg1] = m.arg0]
                /\ UNCHANGED peerUnacked
           ELSE /\ peerUnacked' = [peerUnacked EXCEPT ![m.arg1] = FALSE]
                /\ UNCHANGED <<peerState, peerHost>>
    /\ toPeer' = Tail(toPeer)
    /\ UNCHANGED <<toHost, peerNext, peerSent, peerOpens>>

\* WRTE: data for an open stream is acknowledged, any other dropped.
peerWrte ==
    /\ Head(toPeer).cmd = "WRTE"
    /\ LET m == Head(toPeer) IN
         \/ /\ peerState[m.arg1] = "open"
            /\ peerReply(Message("OKAY", m.arg1, m.arg0, <<>>))
         \/ /\ peerState[m.arg1] # "open"
            /\ toPeer' = Tail(toPeer) /\ UNCHANGED toHost
    /\ UNCHANGED peerVars

peerClse ==
    /\ Head(toPeer).cmd = "CLSE"
    /\ peerState' = [peerState EXCEPT ![Head(toPeer).arg1] = "closed"]
    /\ toPeer' = Tail(toPeer)
    /\ UNCHANGED <<toHost, peerNext, peerHost, peerUnacked, peerSent, peerOpens>>

PeerReceives ==
    /\ transport = "up" /\ toPeer # <<>>
    /\ peerAccept \/ peerRefuse \/ peerOkay \/ peerWrte \/ peerClse
    /\ UNCHANGED <<transport, hostFrame>>

PeerWrites(q) ==
    /\ q \in Writers
    /\ transport = "up" /\ peerState[q] = "open" /\ ~peerUnacked[q]
    /\ \E n \in 1 .. MaxChunk :
         /\ peerSent[q] + n <= MaxData
         /\ peerSent' = [peerSent EXCEPT ![q] = @ + n]
         /\ toHost' = Append(toHost, Message("WRTE", q, peerHost[q], [k \in 1 .. n |-> peerSent[q] + k]))
    /\ peerUnacked' = [peerUnacked EXCEPT ![q] = TRUE]
    /\ UNCHANGED <<transport, toPeer, hostFrame, peerNext, peerState, peerHost, peerOpens>>

PeerCloses(q) ==
    /\ transport = "up" /\ peerState[q] = "open"
    /\ peerState' = [peerState EXCEPT ![q] = "closed"]
    /\ toHost' = Append(toHost, Message("CLSE", q, peerHost[q], <<>>))
    /\ UNCHANGED <<transport, toPeer, hostFrame, peerNext, peerHost, peerUnacked, peerSent, peerOpens>>

PeerOpens ==
    /\ transport = "up" /\ peerOpens < MaxPeerOpens /\ peerNext + 1 \in IDs
    /\ peerOpens' = peerOpens + 1
    /\ peerNext' = peerNext + 1
    /\ peerState' = [peerState EXCEPT ![peerNext + 1] = "opening"]
    /\ toHost' = Append(toHost, Message("OPEN", peerNext + 1, 0, <<>>))
    /\ UNCHANGED <<transport, toPeer, hostFrame, peerHost, peerUnacked, peerSent>>

PeerLeaves ==
    /\ transport = "up"
    /\ transport' = "peerGone"
    /\ UNCHANGED <<toHost, toPeer, hostFrame, peerVars>>

-----------------------------------------------------------------------------
ReaderStep ==
    \/ readMessage \/ readFailed \/ streamByLocalID \/ establish \/ established
    \/ acknowledge \/ receive \/ peerClose \/ handlePeerOpen \/ refuse
    \/ newAcceptedStream \/ acceptOkay \/ Closing(Reader)

\* What a goroutine does once inside a call.
ThreadStep(t) ==
    \/ newStream(t) \/ writeOpen(t) \/ removeStream(t) \/ openReturns(t)
    \/ writeClse(t) \/ writeData(t) \/ handleOpenStart(t) \/ closeTransport(t)
    \/ Closing(t)

\* The calls it may make, and the cancellation of one.
ThreadCall(t) ==
    \/ OpenContext(t) \/ openCanceled(t) \/ StreamClose(t) \/ Write(t)
    \/ HandleOpen(t) \/ RemoveOpenHandler(t) \/ ConnectionClose(t)

PeerStep ==
    \/ PeerReceives \/ PeerOpens \/ PeerLeaves
    \/ \E q \in IDs : PeerWrites(q) \/ PeerCloses(q)

Next ==
    /\ ~panicked
    /\ \/ ReaderStep
       \/ \E t \in Threads : ThreadStep(t) \/ ThreadCall(t)
       \/ \E i \in IDs : Read(i)
       \/ PeerStep

Spec == Init /\ [][Next]_vars

\* The Go scheduler runs every goroutine that can run, the program keeps
\* reading the streams it holds, and the device answers what it receives.
Fairness ==
    /\ WF_vars(~panicked /\ ReaderStep)
    /\ \A t \in Threads : WF_vars(~panicked /\ ThreadStep(t))
    /\ \A i \in IDs : WF_vars(~panicked /\ Read(i))
    /\ WF_vars(~panicked /\ PeerReceives)

FairSpec == Spec /\ Fairness

-----------------------------------------------------------------------------
Labels == {"off", "stopped", "idle", "read", "handle", "establish", "established", "ack", "receive",
           "peerClose", "accept", "refuse", "writeOkay", "newStream", "writeOpen", "removeStream",
           "awaitOpen", "writeClse", "writeData", "handleOpen", "closeTransport",
           "closeStream", "closeAll", "closing", "fire"}

\* Steps at which a goroutine works on the stream id[p].
OnStream == {"establish", "established", "ack", "receive", "peerClose", "writeOkay", "writeOpen",
             "removeStream", "awaitOpen", "writeClse", "writeData", "closeStream", "fire"}

ConnType ==
    /\ streams \in SUBSET IDs /\ nextLocalID \in Nat
    /\ openHandler \in BOOLEAN /\ readerErr \in BOOLEAN /\ panicked \in BOOLEAN
WireType ==
    /\ transport \in {"up", "peerGone", "closed"}
    /\ toHost \in Seq(Messages) /\ toPeer \in Seq(Messages)
StreamType ==
    /\ remoteID \in [IDs -> IDs \cup {0}]
    /\ openCh \in [IDs -> Errors \cup {"empty"}]
    /\ closed \in [IDs -> BOOLEAN] /\ err \in [IDs -> Errors]
    /\ dataCh \in [IDs -> Seq(Seq(Nat))] /\ buf \in [IDs -> Seq(Nat)]
AppType ==
    /\ held \in SUBSET IDs /\ opens \in Nat
    /\ reading \in [IDs -> {"idle", "wait", "drain", "eof", "error"}]
    /\ delivered \in [IDs -> Seq(Nat)] /\ calls \in [IDs -> Nat]
ProcType ==
    /\ pc \in [Procs -> Labels] /\ id \in [Procs -> IDs \cup {0}]
    /\ \A p \in Procs : pc[p] \in OnStream => id[p] \in IDs
    /\ todo \in [Procs -> SUBSET IDs] /\ cause \in [Procs -> Errors]
    /\ rmsg \in Messages
PeerType ==
    /\ peerNext \in Nat /\ peerOpens \in Nat
    /\ peerState \in [IDs -> {"free", "opening", "open", "closed"}]
    /\ peerHost \in [IDs -> IDs \cup {0}]
    /\ peerUnacked \in [IDs -> BOOLEAN] /\ peerSent \in [IDs -> Nat]

\* Every variable keeps its type, and a goroutine at a step that uses a
\* stream has one: no local id of 0 is ever looked up in stream.go's map.
TypeOK == ConnType /\ WireType /\ StreamType /\ AppType /\ ProcType /\ PeerType

\* What a reader sees is what the device wrote: no byte of a stream is lost,
\* repeated or out of order between WRTE, dataCh, buf and Read, and io.EOF means
\* that all of it was read; a stream cut short by either side's Close reports an
\* error instead.
FaithfulDelivery ==
    \A i \in IDs :
      /\ \A k \in 1 .. Len(delivered[i] \o buf[i]) : (delivered[i] \o buf[i])[k] = k
      /\ reading[i] = "eof" => Len(delivered[i]) = peerSent[remoteID[i]]

\* c.mu hands each stream to exactly one closer, so close(s.dataCh) runs at
\* most once although Close, CLSE, a read error and Connection.Close race.
CloseOnce ==
    \A p \in Procs :
      /\ \A i \in todo[p] : ~closed[i] /\ i \notin streams
      /\ \A q \in Procs \ {p} : todo[p] \cap todo[q] = {}

\* No lost wakeup: whoever closes a stream signals the OpenContext that waits
\* for it, or is just about to.
OpenSignalled ==
    \A i \in IDs : closed[i] /\ openCh[i] = "empty" => \E p \in Procs : pc[p] = "fire" /\ id[p] = i

\* Once the reader has stopped, no stream the program holds is left open: a
\* Read on it cannot block for ever.
DeadReaderClosesHeld ==
    pc[Reader] = "stopped" =>
      \A i \in held : closed[i] \/ \E p \in Procs : i \in todo[p]

\* A stream the program holds is joined to exactly one stream of the device,
\* and that one to it.
HeldMatchesPeer ==
    \A i \in held :
      /\ remoteID[i] # 0
      /\ peerHost[remoteID[i]] \in {0, i} /\ peerState[remoteID[i]] # "free"
      /\ \A j \in held \ {i} : remoteID[j] # remoteID[i]

\* Nothing more can be read from the device: the transport is gone, or readLoop
\* has given up on it.
Lost == transport # "up" \/ readerErr

\* OpenContext gets its answer, also while data of another stream fills its dataCh
\* and the reader waits there, while the transport is lost and when a damaged packet
\* stops the reader.  The one exception is the opener that registered its stream
\* (stream.go:84) after the dying reader had emptied c.streams: nobody is left to
\* answer or to close that stream, and only its context ends the wait.
OpenAnswered ==
    \A t \in Threads :
      pc[t] = "awaitOpen" ~>
        \/ pc[t] # "awaitOpen" \/ panicked
        \/ pc[Reader] = "stopped" /\ id[t] \in streams

\* When the device closes a stream, the transport goes away or the reader gives
\* up, the goroutine that reads the stream gets its EOF or error.
DeadStreamEnds ==
    \A i \in IDs :
      (i \in held /\ (peerState[remoteID[i]] = "closed" \/ Lost))
        ~> (reading[i] \in {"eof", "error"} \/ panicked)

\* The device's side of stream i: what it has written, and whether it is done.
\* A stream it does not know of yet has neither.
Sent(i) == IF \E q \in IDs : peerHost[q] = i THEN peerSent[CHOOSE q \in IDs : peerHost[q] = i] ELSE 0
Shut(i) == \E q \in IDs : peerHost[q] = i /\ peerState[q] = "closed"

\* The program is inside Connection.Close.
ConnectionClosing == \E t \in Threads : cause[t] = "ErrDeviceClosed" \/ pc[t] = "closeTransport"

\* The program's own Close has ended stream i, or is about to end every stream.
OwnClose(i) == transport = "closed" \/ ConnectionClosing \/ err[i] = "ErrClosedPipe"

\* What may end a stream early: the program's own Close, or the loss of the transport.
Cut(i) == Lost \/ OwnClose(i)

\* What Read has told the goroutine that reads stream i.
Ended(i) == IF reading[i] \in {"eof", "error"} THEN reading[i] ELSE "no"

\* Each stream as the goroutine that reads it sees it.
Pipe == INSTANCE StreamPipe WITH
    Streams <- IDs, MaxWrite <- MaxChunk,
    sent <- [i \in IDs |-> Sent(i)], shut <- [i \in IDs |-> Shut(i)], cut <- {i \in IDs : Cut(i)},
    read <- delivered,
    ended <- [i \in IDs |-> Ended(i)]

\* Every stream of a connection is a StreamPipe, however WRTE, CLSE, closes from
\* either side and the loss of the transport interleave around dataCh and buf: Read
\* returns only bytes the device has written, in order and once, io.EOF only after the
\* last one, an error only if the program's own close or the transport cut the stream,
\* and nothing after either.
ImplementsPipe == Pipe!Spec

\* stream.go:164 lets any goroutine close a stream while the connection is in
\* use: no interleaving of Close with the reader may kill the process.
NoSendOnClosedChannel == ~panicked
=============================================================================

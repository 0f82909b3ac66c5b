---------------------------- MODULE ClientSession ----------------------------
(***************************************************************************)
(* One client.Client from the dial to its last operation: the connection   *)
(* and its handshake (client/transport.go, protocol/connection.go), then    *)
(* the operations of client/client.go, sync.go, install.go, screencap.go    *)
(* and reboot.go, by any number of goroutines at once.  Logcat, GetProp and *)
(* Properties are shell commands.                                          *)
(*                                                                         *)
(* A stream is what Connection shows it to be: it delivers what the device *)
(* wrote, in order, and then EOF, if the device ended it; when it is closed *)
(* on this side, or the transport is, a part of that and then an error.    *)
(* Its contents are chunks, numbered; a sync packet or a message of pm is  *)
(* an item of its own.  The goroutine closeOnCancel starts may close the   *)
(* stream of an operation at any time after its context ended.             *)
(* All local destinations are one path, at which other programs may also    *)
(* create a file.  The device, external, answers, refuses, fails, ends a    *)
(* stream or goes away whenever it likes.  It may also stop taking data for  *)
(* good, which stalls the transport: a write then blocks with writeMu locked, *)
(* and so does every later one, until this side closes the transport.         *)
(***************************************************************************)
EXTENDS Integers, Sequences, FiniteSets

CONSTANTS
    Callers,      \* goroutines, each with one operation
    Kinds,        \* the operations they choose from
    Credentials,  \* HandshakeOptions.AuthCredentials, in order
    Size,         \* bound: chunks of a file or of a command's output
    Other         \* the owner of a destination no operation created

AllKinds == {"shell", "pull", "push", "install", "screencap", "reboot"}

ASSUME ClientAssumption ==
    /\ Kinds \subseteq AllKinds
    /\ Credentials \in Seq([signer : BOOLEAN, key : BOOLEAN])
    /\ Size \in Nat \ {0} /\ Other \notin Callers /\ "absent" \notin Callers \cup {Other}

VARIABLES
    \* connect and handshake
    phase,            \* the step of connectWithTransportOptions
    silent,           \* the device never answers the handshake
    answer,           \* the handshake message of the device not yet read
    credentialIndex, publicKeyOffered,
    connectCtx,       \* the context of the connect has ended
    watcher,          \* closeOnCancel's goroutine: "none", "select", "stop", "ended"
    transport,        \* "none", "open", "stalled", "closed" by this side, "lost"
    \* operations, by caller
    kind, pc, overwrite,
    service,          \* the service of its stream; for sync, the last packet written
    ctx,              \* its context has ended
    late,             \* the context of the clean-up has ended
    stream,           \* "none", "opening", "refused", "open", "eof", "closed"
    inbox,            \* what the device wrote on it that was not read
    sent,             \* chunks the device wrote, or the host in a push
    final,            \* the device has nothing more to say on it
    got,              \* chunks read
    pmOutput,         \* what pm install printed
    result,           \* "none", "ok", "error"
    \* what is left behind
    file,             \* the local destination: who created it, and its chunks
    remote,           \* the file a push writes: "absent", "partial", "complete"
    installed         \* callers whose package is installed

handshakeVars == <<phase, silent, answer, credentialIndex, publicKeyOffered>>
connectVars   == <<handshakeVars, connectCtx, watcher, transport>>
callVars      == <<kind, overwrite>>
streamVars    == <<service, stream, inbox, sent, final>>
worldVars     == <<file, remote, installed>>
opVars        == <<callVars, streamVars, pc, ctx, late, got, pmOutput, result>>
vars == <<connectVars, opVars, worldVars>>

Init ==
    /\ phase = "dial" /\ silent \in BOOLEAN /\ answer = "none"
    /\ credentialIndex = 0 /\ publicKeyOffered = FALSE
    /\ connectCtx = FALSE /\ watcher = "none" /\ transport = "none"
    /\ kind = [o \in Callers |-> "none"] /\ pc = [o \in Callers |-> "idle"]
    /\ overwrite = [o \in Callers |-> FALSE]
    /\ service = [o \in Callers |-> "none"]
    /\ ctx = [o \in Callers |-> FALSE] /\ late = [o \in Callers |-> FALSE]
    /\ stream = [o \in Callers |-> "none"] /\ inbox = [o \in Callers |-> <<>>]
    /\ sent = [o \in Callers |-> 0] /\ final = [o \in Callers |-> FALSE] /\ got = [o \in Callers |-> 0]
    /\ pmOutput = [o \in Callers |-> "none"] /\ result = [o \in Callers |-> "none"]
    /\ file = [owner |-> "absent", chunks |-> {}]
    /\ remote = [o \in Callers |-> "absent"] /\ installed = {}

\* Reads and writes of the transport fail.
Gone == transport \notin {"open", "stalled"}

-----------------------------------------------------------------------------
(* Connecting.                                                             *)

\* The handshake returns and its locals go out of scope; stopCancelCloser runs.
HandshakeEnds(outcome) ==
    /\ phase' = outcome
    /\ credentialIndex' = 0 /\ publicKeyOffered' = FALSE /\ answer' = "none"
    /\ watcher' = IF watcher = "select" THEN "stop" ELSE watcher

\* Mutant: a failed handshake leaves the transport open.
handshakeFailsOpen == HandshakeEnds("failed") /\ UNCHANGED <<transport, silent, connectCtx>>

handshakeFails ==
    /\ HandshakeEnds("failed")
    /\ transport' = "closed"
    /\ UNCHANGED <<silent, connectCtx>>

dial ==
    /\ phase = "dial"
    /\ \/ phase' = "failed" /\ UNCHANGED transport
       \/ ~connectCtx /\ phase' = "dialed" /\ transport' = "open"
    /\ UNCHANGED <<silent, answer, credentialIndex, publicKeyOffered, connectCtx, watcher, opVars, worldVars>>

\* HandshakeWithOptions asks the context before it starts the goroutine that watches it.
handshake ==
    /\ phase = "dialed"
    /\ IF connectCtx THEN handshakeFails
       ELSE /\ phase' = "cnxn" /\ watcher' = "select"
            /\ UNCHANGED <<silent, answer, credentialIndex, publicKeyOffered, connectCtx, transport>>
    /\ UNCHANGED <<opVars, worldVars>>

writeCnxn ==
    /\ phase = "cnxn"
    /\ \/ /\ transport = "open" /\ phase' = "await"
          /\ UNCHANGED <<silent, answer, credentialIndex, publicKeyOffered, connectCtx, watcher, transport>>
       \/ Gone /\ handshakeFails
    /\ UNCHANGED <<opVars, worldVars>>

\* The device's reply: CNXN, an AUTH with a token, or something else.
deviceGreets ==
    /\ phase = "await" /\ ~silent /\ answer = "none" /\ transport = "open"
    /\ answer' \in {"CNXN", "TOKEN", "unexpected"}
    /\ UNCHANGED <<phase, silent, credentialIndex, publicKeyOffered, connectCtx, watcher, transport, opVars, worldVars>>

readCnxn ==
    /\ phase = "await" /\ answer = "CNXN" /\ transport # "closed"
    /\ HandshakeEnds("connected")
    /\ UNCHANGED <<silent, connectCtx, transport, opVars, worldVars>>

\* A read error, or a message that is neither CNXN nor a token.
readFails ==
    /\ phase = "await"
    /\ answer = "unexpected" \/ Gone
    /\ handshakeFails
    /\ UNCHANGED <<opVars, worldVars>>

Signers == {i \in DOMAIN Credentials : i > credentialIndex /\ Credentials[i].signer}
Keys == {i \in DOMAIN Credentials : Credentials[i].key}
First(S) == CHOOSE i \in S : \A j \in S : i <= j

\* Mutant: publicKeyOffered is never set.
nextAuthReplyForever ==
    \/ Signers # {} /\ credentialIndex' = First(Signers) /\ UNCHANGED publicKeyOffered
    \/ Signers = {} /\ Keys # {} /\ credentialIndex' = Len(Credentials) /\ UNCHANGED publicKeyOffered

\* nextAuthReply, when it has one: the next signature, then one public key.
nextAuthReply ==
    \/ Signers # {} /\ credentialIndex' = First(Signers) /\ UNCHANGED publicKeyOffered
    \/ /\ Signers = {} /\ ~publicKeyOffered /\ Keys # {}
       /\ credentialIndex' = Len(Credentials) /\ publicKeyOffered' = TRUE

\* A token is answered and the answer sent.
authReply ==
    /\ phase = "await" /\ answer = "TOKEN" /\ transport = "open"
    /\ nextAuthReply
    /\ answer' = "none"
    /\ UNCHANGED <<phase, silent, connectCtx, watcher, transport, opVars, worldVars>>

\* Nothing is left to offer, signing fails, or the reply cannot be written.
authFails ==
    /\ phase = "await" /\ answer = "TOKEN"
    /\ Signers # {} \/ publicKeyOffered \/ Keys = {} \/ Gone
    /\ handshakeFails
    /\ UNCHANGED <<opVars, worldVars>>

ConnectStep == dial \/ handshake \/ writeCnxn \/ readCnxn \/ readFails \/ authReply \/ authFails

\* Connection.Close: every stream that has not ended ends with an error, which
\* is what an OPEN without an answer returns.
ConnectionClose ==
    /\ transport' = "closed"
    /\ stream' = [o \in Callers |-> CASE stream[o] = "opening" -> "refused"
                                     [] stream[o] = "open" -> "closed"
                                     [] OTHER -> stream[o]]

\* The goroutine of Connection.closeOnCancel.  When the context has ended and
\* the handshake is over, select picks either case.
cancelWatch ==
    /\ \/ watcher \in {"select", "stop"} /\ connectCtx /\ ConnectionClose
       \/ watcher = "stop" /\ UNCHANGED <<transport, stream>>
    /\ watcher' = "ended"
    /\ UNCHANGED <<handshakeVars, connectCtx, callVars, service, inbox, sent, final, pc, ctx, late, got,
                   pmOutput, result, worldVars>>

connectCanceled ==
    /\ ~connectCtx /\ phase # "failed" /\ watcher # "ended"
    /\ connectCtx' = TRUE
    /\ UNCHANGED <<handshakeVars, watcher, transport, opVars, worldVars>>

\* Client.Close.
clientClose ==
    /\ phase = "connected" /\ ~Gone
    /\ ConnectionClose
    /\ UNCHANGED <<handshakeVars, connectCtx, watcher, callVars, service, inbox, sent, final, pc, ctx, late, got,
                   pmOutput, result, worldVars>>

\* The device takes no more data; one that only pauses is a slow one.
deviceStalls ==
    /\ transport = "open"
    /\ transport' = "stalled"
    /\ UNCHANGED <<handshakeVars, connectCtx, watcher, opVars, worldVars>>

deviceLost ==
    /\ ~Gone
    /\ transport' = "lost"
    /\ UNCHANGED <<handshakeVars, connectCtx, watcher, opVars, worldVars>>

-----------------------------------------------------------------------------
(* Operations: their beginning, their streams and their end.               *)

Goto(o, label) == pc' = [pc EXCEPT ![o] = label] /\ UNCHANGED result
Finish(o, r) == pc' = [pc EXCEPT ![o] = "done"] /\ result' = [result EXCEPT ![o] = r]
\* Stream.Close, if there is a stream: the CLSE for one that is open is a write.
CloseStream(o) ==
    /\ stream[o] = "open" => transport # "stalled"
    /\ stream' = [stream EXCEPT ![o] = IF @ = "refused" THEN @ ELSE "closed"]

\* What an operation leaves alone: everything of the connection, and ...
sameCall == <<connectVars, callVars, ctx, late, final>>
sameRead == <<sameCall, service, sent, pmOutput>>

\* The context of the call the operation is in.
Done(o) == IF service[o] = "rm" THEN late[o] ELSE ctx[o]
CanWrite(o) == transport = "open" /\ stream[o] = "open"
CanRead(o) == inbox[o] # <<>>
\* What was on its way when this side closed, or the transport broke, is lost.
Broken(o) == stream[o] = "closed" \/ Gone
EOF(o) == inbox[o] = <<>> /\ stream[o] = "eof"

start(o) ==
    /\ phase = "connected" /\ pc[o] = "idle"
    /\ \E k \in Kinds, w \in BOOLEAN :
         /\ w => k = "pull"
         /\ kind' = [kind EXCEPT ![o] = k] /\ overwrite' = [overwrite EXCEPT ![o] = w]
         /\ service' = [service EXCEPT ![o] = CASE k \in {"pull", "push", "install"} -> "sync"
                                                [] k = "reboot" -> "reboot"
                                                [] OTHER -> "shell"]
         /\ Goto(o, CASE k = "pull" /\ ~w -> "stat" [] k \in {"push", "install"} -> "source" [] OTHER -> "open")
    /\ UNCHANGED <<connectVars, ctx, late, final, stream, inbox, sent, got, pmOutput, worldVars>>

\* A pull without Overwrite looks at its destination first.
stat(o) ==
    /\ pc[o] = "stat"
    /\ (file.owner = "absent" /\ Goto(o, "open")) \/ Finish(o, "error")
    /\ UNCHANGED <<sameRead, stream, inbox, got, worldVars>>

\* A push opens its source, which may be missing or a directory.
source(o) ==
    /\ pc[o] = "source"
    /\ Goto(o, "open") \/ Finish(o, "error")
    /\ UNCHANGED <<sameRead, stream, inbox, got, worldVars>>

OpenService(o) ==
    /\ pc[o] = "open" /\ ~Done(o)
    /\ Goto(o, "sendOpen")
    /\ stream' = [stream EXCEPT ![o] = "none"] /\ inbox' = [inbox EXCEPT ![o] = <<>>]
    /\ sent' = [sent EXCEPT ![o] = 0] /\ got' = [got EXCEPT ![o] = 0] /\ final' = [final EXCEPT ![o] = FALSE]
    /\ UNCHANGED <<connectVars, callVars, ctx, late, service, pmOutput, worldVars>>

\* The OPEN; nothing asks the context while it is written.
sendOpen(o) ==
    /\ pc[o] = "sendOpen" /\ transport = "open"
    /\ Goto(o, "await")
    /\ stream' = [stream EXCEPT ![o] = "opening"]
    /\ UNCHANGED <<sameRead, inbox, got, worldVars>>

opened(o) ==
    /\ pc[o] = "await" /\ stream[o] \in {"open", "eof", "closed"}
    /\ Goto(o, CASE service[o] = "reboot" -> "closeService"
                 [] service[o] = "sync" /\ kind[o] = "pull" -> "recv"
                 [] service[o] = "sync" /\ kind[o] # "pull" -> "send"
                 [] OTHER -> "copy")
    /\ UNCHANGED <<sameRead, stream, inbox, got, worldVars>>

\* InstallAPKWithOptions: what follows the push, pm and rm of one installation.
\* Mutant: clean up only what pm has installed.
installNextKeeps(o, r) ==
    CASE service[o] = "DONE" /\ r = "ok" -> "pm"
      [] service[o] = "pm" /\ r = "ok" -> "rm"
      [] OTHER -> "return"

installNext(o, r) ==
    CASE service[o] \notin {"pm", "rm"} /\ r = "ok" -> "pm"
      [] service[o] = "pm" -> "rm"
      [] OTHER -> "return"

\* pmInstallSucceeded.
Verdict(o) == IF service[o] = "rm" /\ pmOutput[o] = "Success" THEN "ok" ELSE "error"

\* A call on a stream returns r: a push, a pull, or a shell command.
Returns(o, r) ==
    /\ CloseStream(o)
    /\ IF kind[o] = "install" /\ installNext(o, r) # "return"
         THEN /\ Goto(o, "open") /\ service' = [service EXCEPT ![o] = installNext(o, r)]
              /\ pmOutput' = IF service[o] = "pm" /\ r # "ok" THEN [pmOutput EXCEPT ![o] = "none"] ELSE pmOutput
         ELSE /\ IF kind[o] = "screencap" /\ r = "ok" THEN Goto(o, "createPng")
                 ELSE Finish(o, IF kind[o] = "install" THEN Verdict(o) ELSE r)
              /\ UNCHANGED <<service, pmOutput>>

\* The context has ended, before the OPEN or while it waits for its answer, the
\* device refuses, or the transport does not carry it.
openFails(o) ==
    /\ \/ pc[o] = "open" /\ (Done(o) \/ Gone)
       \/ pc[o] = "sendOpen" /\ Gone
       \/ pc[o] = "await" /\ (stream[o] = "refused" \/ Gone \/ Done(o))
    /\ Returns(o, "error")
    /\ UNCHANGED <<sameCall, inbox, sent, got, worldVars>>

\* The context of the operation ends.
canceled(o) ==
    /\ pc[o] \notin {"idle", "done"} /\ ~ctx[o]
    /\ ctx' = [ctx EXCEPT ![o] = TRUE]
    /\ UNCHANGED <<connectVars, callVars, streamVars, pc, late, got, pmOutput, result, worldVars>>

\* The five seconds of the clean-up are over.
cleanupTimeout(o) ==
    /\ service[o] = "rm" /\ pc[o] # "done" /\ ~late[o]
    /\ late' = [late EXCEPT ![o] = TRUE]
    /\ UNCHANGED <<connectVars, callVars, streamVars, pc, ctx, got, pmOutput, result, worldVars>>

\* Mutant: the transfers of sync.go start no such goroutine.
cancelClosesShell(o) ==
    /\ Done(o) /\ stream[o] \in {"open", "eof"} /\ pc[o] = "copy"
    /\ CloseStream(o)

\* The goroutine of closeOnCancel.
closeOnCancel(o) ==
    /\ Done(o) /\ stream[o] \in {"open", "eof"} /\ pc[o] \notin {"await", "closeService"}
    /\ CloseStream(o)

cancelCloses(o) ==
    /\ closeOnCancel(o)
    /\ UNCHANGED <<connectVars, callVars, service, inbox, sent, final, pc, ctx, late, got, pmOutput, result, worldVars>>

-----------------------------------------------------------------------------
(* ShellStream, and what ScreencapFile and Reboot add.                     *)

Take(o) == inbox' = [inbox EXCEPT ![o] = Tail(@)]

copy(o) ==
    /\ pc[o] = "copy" /\ CanRead(o)
    /\ Take(o)
    /\ IF service[o] = "pm" THEN pmOutput' = [pmOutput EXCEPT ![o] = Head(inbox[o])] /\ UNCHANGED got
                            ELSE got' = [got EXCEPT ![o] = @ + 1] /\ UNCHANGED pmOutput
    /\ UNCHANGED <<sameCall, service, sent, stream, pc, result, worldVars>>

\* io.Copy ends without error at EOF only, and the context is asked first; it
\* also ends when the caller's stdout fails.
copyEnds(o) ==
    /\ pc[o] = "copy"
    /\ \/ EOF(o) /\ Returns(o, IF Done(o) THEN "error" ELSE "ok")
       \/ (Broken(o) \/ (kind[o] = "shell" /\ CanRead(o))) /\ Returns(o, "error")
    /\ UNCHANGED <<sameCall, inbox, sent, got, worldVars>>

createPng(o) ==
    /\ pc[o] = "createPng"
    /\ \/ /\ file.owner = "absent"
          /\ file' = [owner |-> o, chunks |-> {}]
          /\ Goto(o, "writePng")
       \/ Finish(o, "error") /\ UNCHANGED file
    /\ UNCHANGED <<sameRead, stream, inbox, got, remote, installed>>

\* A failed write removes the file again.  normalizeScreencapPNG has taken back
\* the carriage returns a terminal inserts, within the chunks: none is dropped.
writePng(o) ==
    /\ pc[o] = "writePng"
    /\ \/ Finish(o, "ok") /\ file' = [file EXCEPT !.chunks = 1 .. got[o]]
       \/ Finish(o, "error") /\ file' = [owner |-> "absent", chunks |-> {}]
    /\ UNCHANGED <<sameRead, stream, inbox, got, remote, installed>>

\* Stream.Close reports no error.
closeService(o) ==
    /\ pc[o] = "closeService"
    /\ CloseStream(o)
    /\ Finish(o, "ok")
    /\ UNCHANGED <<sameRead, inbox, got, worldVars>>

-----------------------------------------------------------------------------
(* PullFileWithOptions.                                                    *)

\* writeSyncRequest and writeSyncHeader: the device has the packet, or the call
\* ends, or, on a stalled transport, it does neither.  (A packet taken by a
\* transport that is gone changes only the place of the error: the next read
\* fails.)
WriteSync(o, packet, label) ==
    \/ CanWrite(o) /\ service' = [service EXCEPT ![o] = packet] /\ Goto(o, label) /\ UNCHANGED <<stream, pmOutput>>
    \/ (Gone \/ stream[o] # "open") /\ Returns(o, "error")

recv(o) ==
    /\ pc[o] = "recv"
    /\ WriteSync(o, "RECV", "header")
    /\ UNCHANGED <<sameCall, inbox, sent, got, worldVars>>

\* The loop's switch on the next header: "header" until the destination was
\* created, "nextHeader" from then on.  Closing the destination may fail.
readSyncHeader(o) ==
    /\ pc[o] \in {"header", "nextHeader"} /\ CanRead(o)
    /\ Take(o)
    /\ LET created == pc[o] = "nextHeader" IN
         CASE Head(inbox[o]) = "DATA" -> /\ Goto(o, IF created THEN "copyN" ELSE "createOut")
                                         /\ UNCHANGED <<service, stream, pmOutput>>
           [] Head(inbox[o]) = "DONE" -> \/ ~created /\ Goto(o, "createDone") /\ UNCHANGED <<service, stream, pmOutput>>
                                         \/ created /\ \E r \in {"ok", "error"} : Returns(o, r)
           [] OTHER -> Returns(o, "error")
    /\ UNCHANGED <<sameCall, sent, got, worldVars>>

\* Mutant: O_EXCL is forgotten.
mayCreateAlways(o) == TRUE

\* O_EXCL unless opts.Overwrite, which truncates.
mayCreate(o) == file.owner = "absent" \/ overwrite[o]

createOut(o) ==
    /\ pc[o] \in {"createOut", "createDone"}
    /\ \/ /\ mayCreate(o)
          /\ file' = [owner |-> o, chunks |-> {}]
          /\ IF pc[o] = "createDone" THEN \E r \in {"ok", "error"} : Returns(o, r)
             ELSE Goto(o, "copyN") /\ UNCHANGED <<service, stream, pmOutput>>
       \/ Returns(o, "error") /\ UNCHANGED file
    /\ UNCHANGED <<sameCall, inbox, sent, got, remote, installed>>

\* io.CopyN into the destination, which may also fail on the local side.
copyN(o) ==
    /\ pc[o] = "copyN" /\ CanRead(o)
    /\ Take(o)
    /\ \/ /\ got' = [got EXCEPT ![o] = @ + 1]
          /\ file' = [file EXCEPT !.chunks = @ \cup {got[o] + 1}]
          /\ Goto(o, "nextHeader") /\ UNCHANGED <<service, stream, pmOutput>>
       \/ Returns(o, "error") /\ UNCHANGED <<got, file>>
    /\ UNCHANGED <<sameCall, sent, remote, installed>>

\* Mutant: the end of the stream is taken for the end of the file.
pullEndsQuietly(o) == Returns(o, IF pc[o] = "nextHeader" THEN "ok" ELSE "error")

\* The stream ended where a header or data was due.
pullEnds(o) == Returns(o, "error")

readSyncFails(o) ==
    /\ pc[o] \in {"header", "nextHeader", "copyN"} /\ (EOF(o) \/ Broken(o))
    /\ pullEnds(o)
    /\ UNCHANGED <<sameCall, inbox, sent, got, worldVars>>

-----------------------------------------------------------------------------
(* PushFile.                                                               *)

\* The device has created the file when it has SEND.
send(o) ==
    /\ pc[o] = "send"
    /\ WriteSync(o, "SEND", "data")
    /\ remote' = IF CanWrite(o) THEN [remote EXCEPT ![o] = "partial"] ELSE remote
    /\ UNCHANGED <<sameCall, inbox, sent, got, file, installed>>

\* One read of the source and the DATA packet for it.
data(o) ==
    /\ pc[o] = "data"
    /\ \/ sent[o] < Size /\ WriteSync(o, "SEND", "data") /\ sent' = [sent EXCEPT ![o] = IF CanWrite(o) THEN @ + 1 ELSE @]
       \/ sent[o] = Size /\ Goto(o, "writeDone") /\ UNCHANGED <<service, stream, pmOutput, sent>>
       \/ Returns(o, "error") /\ UNCHANGED sent
    /\ UNCHANGED <<sameCall, inbox, got, worldVars>>

writeDone(o) ==
    /\ pc[o] = "writeDone"
    /\ WriteSync(o, "DONE", "response")
    /\ UNCHANGED <<sameCall, inbox, sent, got, worldVars>>

response(o) ==
    /\ pc[o] = "response"
    /\ \/ CanRead(o) /\ Take(o) /\ Returns(o, IF Head(inbox[o]) = "OKAY" THEN "ok" ELSE "error")
       \/ (EOF(o) \/ Broken(o)) /\ UNCHANGED inbox /\ Returns(o, "error")
    /\ UNCHANGED <<sameCall, sent, got, worldVars>>

-----------------------------------------------------------------------------
(* The device and the other programs.                                      *)

sameHost == <<connectVars, callVars, service, pc, ctx, late, got, pmOutput, result, file>>
DeviceWrites(o, items) == inbox' = [inbox EXCEPT ![o] = @ \o items]
EndOfStream(o) == stream' = [stream EXCEPT ![o] = "eof"]
LastItem(o, item) ==
    /\ DeviceWrites(o, <<item>>) /\ final' = [final EXCEPT ![o] = TRUE]
    /\ UNCHANGED <<stream, sent>>

deviceAccepts(o) ==
    /\ transport = "open" /\ stream[o] = "opening"
    /\ \E s \in {"open", "refused"} : stream' = [stream EXCEPT ![o] = s]
    /\ UNCHANGED <<sameHost, inbox, sent, final, remote, installed>>

\* Output of a command, or a DATA packet of a pull.
deviceSends(o) ==
    /\ CanWrite(o) /\ ~final[o] /\ sent[o] < Size /\ service[o] \in {"shell", "RECV"}
    /\ DeviceWrites(o, IF service[o] = "shell" THEN <<"out">> ELSE <<"DATA", "body">>)
    /\ sent' = [sent EXCEPT ![o] = @ + 1]
    /\ UNCHANGED <<sameHost, stream, final, remote, installed>>

\* The packets that end a transfer, and the output of pm.
deviceAnswers(o) ==
    /\ CanWrite(o) /\ ~final[o]
    /\ \/ service[o] = "RECV" /\ (LastItem(o, "DONE") \/ LastItem(o, "FAIL")) /\ UNCHANGED <<remote, installed>>
       \/ /\ service[o] = "DONE" /\ LastItem(o, "OKAY")
          /\ remote' = [remote EXCEPT ![o] = IF sent[o] = Size THEN "complete" ELSE @] /\ UNCHANGED installed
       \/ /\ service[o] \in {"SEND", "DONE"} /\ LastItem(o, "FAIL")
          /\ \E r \in {"absent", "partial"} : remote' = [remote EXCEPT ![o] = r]
          /\ UNCHANGED installed
       \/ /\ service[o] = "pm" /\ remote[o] = "complete" /\ LastItem(o, "Success")
          /\ installed' = installed \cup {o} /\ UNCHANGED remote
       \/ service[o] = "pm" /\ LastItem(o, "Failure") /\ UNCHANGED <<remote, installed>>
    /\ UNCHANGED sameHost

\* The device ends a stream, maybe after the header of a DATA packet; a command
\* ends when it has run.
deviceEnds(o) ==
    /\ CanWrite(o) /\ EndOfStream(o)
    /\ \/ UNCHANGED inbox
       \/ service[o] = "RECV" /\ ~final[o] /\ DeviceWrites(o, <<"DATA">>)
    /\ remote' = IF service[o] = "rm" THEN [remote EXCEPT ![o] = "absent"] ELSE remote
    /\ UNCHANGED <<sameHost, sent, final, installed>>

\* Another program creates the destination.
otherCreates ==
    /\ file.owner = "absent"
    /\ file' = [owner |-> Other, chunks |-> {}]
    /\ UNCHANGED <<connectVars, opVars, remote, installed>>

-----------------------------------------------------------------------------
OpStep(o) ==
    \/ stat(o) \/ source(o) \/ OpenService(o) \/ sendOpen(o) \/ opened(o) \/ openFails(o)
    \/ copy(o) \/ copyEnds(o) \/ createPng(o) \/ writePng(o) \/ closeService(o)
    \/ recv(o) \/ readSyncHeader(o) \/ createOut(o) \/ copyN(o) \/ readSyncFails(o)
    \/ send(o) \/ data(o) \/ writeDone(o) \/ response(o)

DeviceStep(o) == deviceAccepts(o) \/ deviceSends(o) \/ deviceAnswers(o) \/ deviceEnds(o)

Next ==
    \/ ConnectStep \/ cancelWatch \/ connectCanceled \/ clientClose
    \/ deviceGreets \/ deviceStalls \/ deviceLost \/ otherCreates
    \/ \E o \in Callers : start(o) \/ OpStep(o) \/ canceled(o) \/ cleanupTimeout(o) \/ cancelCloses(o) \/ DeviceStep(o)

Spec == Init /\ [][Next]_vars

\* Goroutines that can run do run, timers fire, and a device that is not silent
\* answers the handshake.  Nothing is assumed of what it does afterwards.
Fairness ==
    /\ WF_vars(ConnectStep) /\ WF_vars(cancelWatch) /\ WF_vars(deviceGreets)
    /\ \A o \in Callers : WF_vars(OpStep(o)) /\ WF_vars(cancelCloses(o)) /\ WF_vars(cleanupTimeout(o))

FairSpec == Spec /\ Fairness

-----------------------------------------------------------------------------
Labels == {"idle", "done", "stat", "source", "open", "sendOpen", "await", "copy", "createPng", "writePng", "closeService",
           "recv", "header", "nextHeader", "createOut", "createDone", "copyN",
           "send", "data", "writeDone", "response"}
Items == {"out", "DATA", "body", "DONE", "FAIL", "OKAY", "Success", "Failure"}

ConnectType ==
    /\ phase \in {"dial", "dialed", "cnxn", "await", "connected", "failed"}
    /\ silent \in BOOLEAN /\ connectCtx \in BOOLEAN /\ publicKeyOffered \in BOOLEAN
    /\ answer \in {"none", "CNXN", "TOKEN", "unexpected"}
    /\ credentialIndex \in 0 .. Len(Credentials)
    /\ watcher \in {"none", "select", "stop", "ended"}
    /\ transport \in {"none", "open", "stalled", "closed", "lost"}
OpType ==
    /\ kind \in [Callers -> Kinds \cup {"none"}] /\ pc \in [Callers -> Labels]
    /\ overwrite \in [Callers -> BOOLEAN]
    /\ service \in [Callers -> {"none", "sync", "RECV", "SEND", "DONE", "shell", "pm", "rm", "reboot"}]
    /\ ctx \in [Callers -> BOOLEAN] /\ late \in [Callers -> BOOLEAN] /\ final \in [Callers -> BOOLEAN]
    /\ stream \in [Callers -> {"none", "opening", "refused", "open", "eof", "closed"}]
    /\ inbox \in [Callers -> Seq(Items)]
    /\ sent \in [Callers -> 0 .. Size] /\ got \in [Callers -> 0 .. Size]
    /\ pmOutput \in [Callers -> Items \cup {"none"}]
    /\ result \in [Callers -> {"none", "ok", "error"}]
WorldType ==
    /\ file \in [owner : Callers \cup {Other, "absent"}, chunks : SUBSET (1 .. Size)]
    /\ remote \in [Callers -> {"absent", "partial", "complete"}] /\ installed \subseteq Callers

\* Every variable keeps its type: no more credentials are used than there are,
\* and no more chunks are counted than a file has.
TypeOK == ConnectType /\ OpType /\ WorldType

Clobbered(o) == \E p \in Callers \ {o} : overwrite[o] \/ overwrite[p]

\* An operation that reports success has done all of it, whatever the device,
\* the transport and cancellation did meanwhile: the whole file is here or there,
\* all output was read, the package is installed.
SuccessMeansDone ==
    \A o \in Callers : result[o] = "ok" =>
      /\ kind[o] \in {"pull", "screencap"} /\ ~Clobbered(o) => file = [owner |-> o, chunks |-> 1 .. sent[o]]
      /\ kind[o] = "push" => remote[o] = "complete"
      /\ kind[o] = "shell" => got[o] = sent[o]
      /\ kind[o] = "install" => o \in installed

\* What is at the destination is only replaced by a pull told to overwrite it,
\* and only removed by the screenshot that made it, or that such a pull replaced: Stat, the creation and other
\* programs may come in any order.
NoClobber ==
    [][\A o \in Callers \cup {Other} : file.owner = o /\ file'.owner # o =>
         \/ file'.owner \in Callers /\ overwrite[file'.owner]
         \/ file'.owner = "absent" /\ (pc[o] = "writePng" \/ (o \in Callers /\ overwrite[o]))]_vars

\* A connect that fails leaves no transport open, and an installation that got as
\* far as pm, canceled or not, leaves its temporary APK on the device only if the
\* device is gone, takes no more data, refuses the rm, or takes longer than five seconds.  (One whose
\* push failed leaves what it pushed.)
LeavesNothingBehind ==
    /\ phase = "failed" => Gone
    /\ \A o \in Callers : service[o] \in {"pm", "rm"} /\ result[o] # "none" /\ remote[o] = "complete" =>
         transport # "open" \/ late[o] \/ stream[o] = "refused"

\* A connect ends: a device that answers can only ask for so many signatures, and
\* one that does not answer, or takes no data, is left when the context ends.  An
\* operation whose context has ended returns, wherever it was waiting for the
\* device, unless the device takes no data (CancelUnblocks).
CallsEnd ==
    /\ (phase = "await" /\ ~silent) ~> (phase \in {"connected", "failed"} \/ transport = "stalled")
    /\ (phase = "await" /\ connectCtx) ~> phase \in {"connected", "failed"}
    /\ \A o \in Callers : ctx[o] ~> (result[o] # "none" \/ transport = "stalled")

\* docs/init/SPEC.md:100: cancellation closes the stream or the connection when
\* needed to unblock reads and writes, so a canceled operation always returns.
CancelUnblocks == \A o \in Callers : ctx[o] ~> result[o] # "none"
=============================================================================

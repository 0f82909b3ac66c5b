--------------------------- MODULE ConnectionProofs ---------------------------
(***************************************************************************)
(* Proofs about Connection.  First type correctness, one lemma per group   *)
(* of actions; then the ownership invariant IInv, of which CloseOnce,      *)
(* OpenSignalled and DeadReaderClosesHeld are parts or consequences.       *)
(* LInv adds what the packets in flight say about the tables of the two    *)
(* sides, and gives HeldMatchesPeer; DInv follows the bytes of each stream *)
(* from the device to Read, and gives FaithfulDelivery.  CInv says why a   *)
(* stream is closed, and BInv that nothing is received before it is sent:  *)
(* with them every stream is shown to be a StreamPipe.                     *)
(***************************************************************************)
EXTENDS Connection, TLAPS

\* Stream ids are positive: 0 is free to mean "none" (stream.go:153, 170,
\* 179).
LEMMA IDsNat == IDs \subseteq Nat \ {0}
  BY ConnectionAssumption DEF IDs

\* The reader's empty packet slot is a packet.
LEMMA NoMessageType == NoMessage \in Messages
  BY DEF NoMessage, Messages, Commands

\* A packet built from ids and a payload is well formed.
LEMMA MessageType ==
    ASSUME NEW cmd \in Commands, NEW a \in IDs \cup {0}, NEW b \in IDs \cup {0}, NEW d \in Seq(Nat)
    PROVE  Message(cmd, a, b, d) \in Messages
  BY DEF Message, Messages

\* So are the packets stream.go writes, whose payload the model leaves out.
LEMMA ControlMessage ==
    ASSUME NEW a \in IDs \cup {0}, NEW b \in IDs \cup {0}
    PROVE  /\ Message("OPEN", a, b, <<>>) \in Messages
           /\ Message("OKAY", a, b, <<>>) \in Messages
           /\ Message("WRTE", a, b, <<>>) \in Messages
           /\ Message("CLSE", a, b, <<>>) \in Messages
  BY DEF Message, Messages, Commands

\* A new Connection, with no stream and no reader, is well typed.
THEOREM InitType == Init => TypeOK
<1> SUFFICES ASSUME Init PROVE TypeOK OBVIOUS
<1>1. ConnType BY DEF Init, ConnType
<1>2. WireType BY DEF Init, WireType
<1>3. StreamType BY DEF Init, StreamType, Errors
<1>4. AppType BY DEF Init, AppType
<1>5. ProcType BY NoMessageType DEF Init, ProcType, Procs, Labels, OnStream, Errors
<1>6. PeerType BY DEF Init, PeerType
<1> QED BY <1>1, <1>2, <1>3, <1>4, <1>5, <1>6 DEF TypeOK

\* What a step leaves alone keeps its type.
LEMMA FrameType ==
    ASSUME TypeOK
    PROVE  /\ UNCHANGED <<connVars, panicked>> => ConnType'
           /\ UNCHANGED wireVars => WireType'
           /\ UNCHANGED streamVars => StreamType'
           /\ UNCHANGED appVars => AppType'
           /\ UNCHANGED procVars => ProcType'
           /\ UNCHANGED peerVars => PeerType'
  BY DEF TypeOK, ConnType, WireType, StreamType, AppType, ProcType, PeerType, connVars, wireVars,
         streamVars, appVars, procVars, peerVars

\* Moving a goroutine on keeps its local variables typed.
LEMMA GotoType ==
    ASSUME TypeOK, NEW p \in Procs, NEW label \in Labels, UNCHANGED todo, Goto(p, label),
           label \in OnStream => id[p] \in IDs
    PROVE  ProcType'
  BY DEF TypeOK, ProcType, Goto

\* So does starting work on a stream that exists.
LEMMA EnterType ==
    ASSUME TypeOK, NEW p \in Procs, NEW label \in Labels, NEW i \in IDs \cup {0}, NEW e \in Errors,
           label \in OnStream => i \in IDs,
           UNCHANGED todo, Enter(p, label, i, e)
    PROVE  ProcType'
  BY DEF TypeOK, ProcType, Enter

\* So does returning from a call.
LEMMA ReturnType ==
    ASSUME TypeOK, NEW p \in Procs, NEW label \in Labels \ OnStream, UNCHANGED todo, Return(p, label)
    PROVE  ProcType'
  BY NoMessageType DEF TypeOK, ProcType, Return, Errors

\* writeMessage keeps the wire typed, whether or not the write succeeds.
LEMMA WriteType ==
    ASSUME TypeOK, NEW msg \in Messages, NEW ok \in BOOLEAN, writeMessage(msg, ok)
    PROVE  WireType'
  BY DEF TypeOK, WireType, writeMessage

\* closeStream, closeAllStreams and closeWithError keep every type.
LEMMA CloseType == ASSUME TypeOK, NEW p \in Procs, Closing(p) PROVE TypeOK'
<1> USE FrameType DEF TypeOK, noData, noWrite
<1>1. CASE closeStream(p)
  BY <1>1 DEF closeStream, Detach, Goto, ConnType, ProcType, connVars, wireVars, streamVars, appVars,
              peerVars, Labels, OnStream
<1>2. CASE closeAllStreams(p)
  BY <1>2 DEF closeAllStreams, Detach, Goto, ConnType, ProcType, connVars, wireVars, streamVars, appVars,
              peerVars, Labels, OnStream
<1>3. CASE closeWithError(p)
  <2>1. PICK i \in todo[p] : closeWithError(p)!2!(i) BY <1>3 DEF closeWithError
  <2>2. i \in IDs BY <2>1 DEF ProcType
  <2>3. todo' \in [Procs -> SUBSET IDs] BY <2>1, <2>2 DEF ProcType
  <2>4. CASE closed[i]
    BY <1>3, <2>1, <2>2, <2>3, <2>4 DEF closeWithError, StreamType, ProcType
  <2>5. CASE ~closed[i]
    <3>a. UNCHANGED <<remoteID, openCh, dataCh, buf>> BY <1>3 DEF closeWithError
    <3>b. closed' \in [IDs -> BOOLEAN] BY <2>1, <2>2, <2>5 DEF StreamType
    <3>c. err' \in [IDs -> Errors] BY <2>1, <2>2, <2>5 DEF StreamType, ProcType
    <3>1. StreamType' BY <3>a, <3>b, <3>c DEF StreamType
    <3>2. ProcType' BY <2>1, <2>2, <2>3, <2>5 DEF Enter, ProcType, Labels, OnStream
    <3> QED BY <1>3, <3>1, <3>2 DEF closeWithError
  <2> QED BY <2>4, <2>5
<1>4. CASE fireOpen(p)
  <2>1. ProcType' BY <1>4, GotoType DEF fireOpen, Labels, OnStream
  <2>2. StreamType' BY <1>4 DEF fireOpen, openOnce, StreamType, ProcType, OnStream
  <2> QED BY <1>4, <2>1, <2>2 DEF fireOpen
<1>5. CASE closeReturn(p)
  <2>1. AfterClose(p) \in Labels \ OnStream BY DEF AfterClose, Labels, OnStream
  <2>2. ProcType' BY <1>5, <2>1, ReturnType DEF closeReturn
  <2> QED BY <1>5, <2>2 DEF closeReturn
<1> QED BY <1>1, <1>2, <1>3, <1>4, <1>5 DEF Closing

\* The steps inside OpenContext, Write, Close and HandleOpen keep every type.
LEMMA ThreadStepType == ASSUME TypeOK, NEW t \in Threads, ThreadStep(t) PROVE TypeOK'
<1> USE FrameType DEF TypeOK, noData, noWrite
<1>a. t \in Procs BY DEF Procs
<1>b. /\ {"idle", "newStream", "handleOpen", "closeTransport"} \subseteq Labels \ OnStream
      /\ {"writeOpen", "awaitOpen", "removeStream", "closeStream"} \subseteq Labels \cap OnStream
  BY DEF Labels, OnStream
<1>1. CASE newStream(t)
  <2>1. ProcType' BY <1>1, <1>a, <1>b, EnterType DEF newStream, newStreamLocked, Errors
  <2>2. ConnType' /\ StreamType' BY <1>1 DEF newStream, newStreamLocked, ConnType, StreamType
  <2> QED BY <1>1, <2>1, <2>2 DEF newStream
<1>2. CASE writeOpen(t)
  <2>0. id[t] \in IDs BY <1>2, <1>a DEF writeOpen, ProcType, OnStream
  <2>1. Message("OPEN", id[t], 0, <<>>) \in Messages BY <2>0, ControlMessage
  <2>2. WireType' BY <1>2, <2>1, WriteType DEF writeOpen
  <2>3. ProcType' BY <1>2, <1>a, <1>b, <2>0, GotoType DEF writeOpen
  <2> QED BY <1>2, <2>2, <2>3 DEF writeOpen
<1>3. CASE removeStream(t)
  <2>1. ProcType' BY <1>3, <1>a, <1>b, ReturnType DEF removeStream
  <2>2. ConnType' BY <1>3 DEF removeStream, ConnType
  <2> QED BY <1>3, <2>1, <2>2 DEF removeStream
<1>4. CASE openReturns(t)
  <2>1. ProcType' BY <1>4, <1>a, <1>b, ReturnType DEF openReturns
  <2>2. AppType' BY <1>4, <1>a DEF openReturns, AppType, ProcType, OnStream
  <2> QED BY <1>4, <2>1, <2>2 DEF openReturns
<1>5. CASE writeClse(t)
  <2>0. id[t] \in IDs /\ remoteID[id[t]] \in IDs \cup {0}
    BY <1>5, <1>a DEF writeClse, ProcType, StreamType, OnStream
  <2>1. Message("CLSE", id[t], remoteID[id[t]], <<>>) \in Messages BY <2>0, ControlMessage
  <2>2. WireType' BY <1>5, <2>1, WriteType DEF writeClse
  <2>3. ProcType' BY <1>5, <1>a, <1>b, <2>0, GotoType DEF writeClse
  <2> QED BY <1>5, <2>2, <2>3 DEF writeClse
<1>6. CASE writeData(t)
  <2>0. id[t] \in IDs /\ remoteID[id[t]] \in IDs \cup {0}
    BY <1>6, <1>a DEF writeData, ProcType, StreamType, OnStream
  <2>1. Message("WRTE", id[t], remoteID[id[t]], <<>>) \in Messages BY <2>0, ControlMessage
  <2>2. WireType' BY <1>6, <2>1, WriteType DEF writeData
  <2>3. ProcType' BY <1>6, <1>a, <1>b, ReturnType DEF writeData
  <2> QED BY <1>6, <2>2, <2>3 DEF writeData
<1>7. CASE handleOpenStart(t)
  <2>1. ProcType'
    BY <1>7, <1>a DEF handleOpenStart, startReader, ProcType, Procs, Labels, OnStream
  <2> QED BY <1>7, <2>1 DEF handleOpenStart
<1>8. CASE closeTransport(t)
  <2>1. ProcType' BY <1>8, <1>a, <1>b, ReturnType DEF closeTransport
  <2>2. WireType' BY <1>8 DEF closeTransport, WireType
  <2> QED BY <1>8, <2>1, <2>2 DEF closeTransport
<1>9. CASE Closing(t) BY <1>9, <1>a, CloseType
<1> QED BY <1>1, <1>2, <1>3, <1>4, <1>5, <1>6, <1>7, <1>8, <1>9 DEF ThreadStep

\* Starting or cancelling a call keeps every type.
LEMMA ThreadCallType == ASSUME TypeOK, NEW t \in Threads, ThreadCall(t) PROVE TypeOK'
<1> USE FrameType DEF TypeOK, noData, noWrite
<1>a. t \in Procs BY DEF Procs
<1>b. /\ {"idle", "newStream", "handleOpen", "closeAll"} \subseteq Labels \ OnStream
      /\ {"writeClse", "closeStream", "writeData"} \subseteq Labels \cap OnStream
  BY DEF Labels, OnStream
<1>c. \A i \in IDs : UNCHANGED todo /\ Close(t, i) => ProcType'
  BY <1>a, <1>b, EnterType DEF Close, Errors
<1>1. CASE OpenContext(t)
  <2>1. ProcType' BY <1>1, <1>a DEF OpenContext, startReader, ProcType, Procs, Labels, OnStream
  <2>2. AppType' BY <1>1 DEF OpenContext, AppType
  <2> QED BY <1>1, <2>1, <2>2 DEF OpenContext
<1>2. CASE openCanceled(t)
  <2>0. id[t] \in IDs BY <1>2, <1>a DEF openCanceled, ProcType, OnStream
  <2>1. ProcType' BY <1>2, <1>c, <2>0 DEF openCanceled, Close
  <2>2. AppType' BY <1>2 DEF openCanceled, Close, AppType
  <2> QED BY <1>2, <2>1, <2>2 DEF openCanceled, Close
<1>3. CASE StreamClose(t)
  <2>1. PICK i \in held : calls' = [calls EXCEPT ![i] = @ + 1] /\ Close(t, i) BY <1>3 DEF StreamClose
  <2>2. i \in IDs BY DEF AppType
  <2>3. ProcType' BY <1>c, <2>1, <2>2 DEF Close
  <2>4. AppType' BY <2>1, <2>2 DEF Close, AppType
  <2> QED BY <2>1, <2>3, <2>4 DEF Close
<1>4. CASE Write(t)
  <2>1. PICK i \in held : calls' = [calls EXCEPT ![i] = @ + 1] /\ Enter(t, "writeData", i, "nil")
    BY <1>4 DEF Write
  <2>2. i \in IDs BY DEF AppType
  <2>3. ProcType' BY <1>4, <1>a, <1>b, <2>1, <2>2, EnterType DEF Write, Errors
  <2>4. AppType' BY <1>4, <2>1, <2>2 DEF Write, AppType
  <2> QED BY <1>4, <2>3, <2>4 DEF Write
<1>5. CASE HandleOpen(t)
  <2>1. ProcType' BY <1>5, <1>a, <1>b, GotoType DEF HandleOpen
  <2>2. ConnType' BY <1>5 DEF HandleOpen, ConnType
  <2> QED BY <1>5, <2>1, <2>2 DEF HandleOpen
<1>6. CASE RemoveOpenHandler(t)
  <2>1. ConnType' BY <1>6 DEF RemoveOpenHandler, ConnType
  <2> QED BY <1>6, <2>1 DEF RemoveOpenHandler
<1>7. CASE ConnectionClose(t)
  <2>1. ProcType' BY <1>7, <1>a, <1>b, EnterType DEF ConnectionClose, Errors
  <2> QED BY <1>7, <2>1 DEF ConnectionClose
<1> QED BY <1>1, <1>2, <1>3, <1>4, <1>5, <1>6, <1>7 DEF ThreadCall

\* What Read takes from the front of buf, and what it leaves there.
LEMMA Prefix ==
    ASSUME NEW b \in Seq(Nat), NEW n \in 1 .. Len(b)
    PROVE  /\ SubSeq(b, 1, n) \in Seq(Nat) /\ Len(SubSeq(b, 1, n)) = n
           /\ SubSeq(b, n + 1, Len(b)) \in Seq(Nat) /\ Len(SubSeq(b, n + 1, Len(b))) = Len(b) - n
           /\ SubSeq(b, 1, n) = [k \in 1 .. n |-> b[k]] /\ \A k \in 1 .. n : k \in 1 .. Len(b)
<1>1. Len(b) \in Nat /\ n \in Nat /\ n <= Len(b) OBVIOUS
<1>2. SubSeq(b, 1, n) \in Seq(Nat) /\ Len(SubSeq(b, 1, n)) = n BY <1>1
<1>3. \A k \in 1 .. n : k \in 1 .. Len(b) /\ SubSeq(b, 1, n)[k] = b[k] BY <1>1
<1>4. SubSeq(b, 1, n) = [k \in 1 .. n |-> SubSeq(b, 1, n)[k]] BY <1>2
<1>5. SubSeq(b, n + 1, Len(b)) \in Seq(Nat) /\ Len(SubSeq(b, n + 1, Len(b))) = Len(b) - n BY <1>1
<1> QED BY <1>2, <1>3, <1>4, <1>5

\* Stream.Read keeps every type.
LEMMA ReadType == ASSUME TypeOK, NEW i \in IDs, Read(i) PROVE TypeOK'
<1> USE FrameType DEF TypeOK
<1>a. dataCh[i] \in Seq(Seq(Nat)) /\ buf[i] \in Seq(Nat) /\ delivered[i] \in Seq(Nat)
  BY DEF StreamType, AppType
<1>1. CASE readBuf(i)
  <2>1. PICK n \in 1 .. Len(buf[i]) :
           /\ delivered' = [delivered EXCEPT ![i] = @ \o SubSeq(buf[i], 1, n)]
           /\ buf' = [buf EXCEPT ![i] = SubSeq(@, n + 1, Len(@))]
    BY <1>1 DEF readBuf
  <2>2. SubSeq(buf[i], 1, n) \in Seq(Nat) /\ SubSeq(buf[i], n + 1, Len(buf[i])) \in Seq(Nat)
    BY <1>a, Prefix
  <2>3. StreamType' BY <1>1, <2>1, <2>2 DEF readBuf, readFrame, StreamType
  <2>4. AppType' BY <1>1, <1>a, <2>1, <2>2 DEF readBuf, readFrame, AppType
  <2> QED BY <1>1, <2>3, <2>4 DEF readBuf, readFrame
<1>2. CASE readCheck(i)
  <2>1. StreamType' /\ AppType' BY <1>2 DEF readCheck, readFrame, StreamType, AppType
  <2> QED BY <1>2, <2>1 DEF readCheck, readFrame
<1>3. CASE readChunk(i)
  <2>1. Tail(dataCh[i]) \in Seq(Seq(Nat)) /\ buf[i] \o Head(dataCh[i]) \in Seq(Nat)
    BY <1>3, <1>a DEF readChunk
  <2>2. StreamType' /\ AppType' BY <1>3, <2>1 DEF readChunk, readFrame, StreamType, AppType
  <2> QED BY <1>3, <2>2 DEF readChunk, readFrame
<1>4. CASE readWake(i)
  <2>1. StreamType' /\ AppType' BY <1>4 DEF readWake, readFrame, StreamType, AppType
  <2> QED BY <1>4, <2>1 DEF readWake, readFrame
<1>5. CASE readEnd(i)
  <2>1. StreamType' /\ AppType' BY <1>5 DEF readEnd, readFrame, StreamType, AppType
  <2> QED BY <1>5, <2>1 DEF readEnd, readFrame
<1> QED BY <1>1, <1>2, <1>3, <1>4, <1>5 DEF Read

\* readLoop and the handlers it calls keep every type.
LEMMA ReaderType == ASSUME TypeOK, ReaderStep PROVE TypeOK'
<1> USE FrameType DEF TypeOK, noData, noWrite
<1>a. Reader \in Procs BY DEF Procs
<1>b. /\ {"read", "handle", "closeAll", "accept", "refuse"} \subseteq Labels \ OnStream
      /\ {"establish", "established", "peerClose", "ack", "receive", "writeOkay", "closeStream"}
           \subseteq Labels \cap OnStream
  BY DEF Labels, OnStream
<1>c. /\ rmsg.arg0 \in IDs \cup {0} /\ rmsg.arg1 \in IDs \cup {0} /\ rmsg.data \in Seq(Nat)
      /\ {"nil", "ErrDeviceClosed", "ErrWrite"} \subseteq Errors
  BY DEF ProcType, Messages, Errors
<1>d. pc[Reader] \in OnStream => id[Reader] \in IDs BY <1>a DEF ProcType
<1>1. CASE readMessage
  <2>1. Head(toHost) \in Messages /\ Tail(toHost) \in Seq(Messages) BY <1>1 DEF readMessage, WireType
  <2>2. WireType' BY <1>1, <2>1 DEF readMessage, WireType
  <2>3. ProcType' BY <1>1, <1>a, <1>b, <2>1 DEF readMessage, ProcType
  <2> QED BY <1>1, <2>2, <2>3 DEF readMessage
<1>2. CASE readFailed
  <2>1. ProcType' BY <1>2, <1>a, <1>b, <1>c, EnterType DEF readFailed
  <2>2. ConnType' BY <1>2 DEF readFailed, ConnType
  <2> QED BY <1>2, <2>1, <2>2 DEF readFailed
<1>3. CASE streamByLocalID
  <2>1. CASE rmsg.arg1 \in streams
    <3>1. rmsg.arg1 \in IDs BY <2>1 DEF ConnType
    <3>2. HandlerOf(rmsg.cmd) \in Labels \cap OnStream BY <1>b DEF HandlerOf
    <3>3. ProcType' BY <1>3, <1>a, <1>c, <2>1, <3>1, <3>2, EnterType DEF streamByLocalID
    <3> QED BY <1>3, <3>3 DEF streamByLocalID
  <2>2. CASE rmsg.arg1 \notin streams
    <3>1. ProcType' BY <1>3, <1>a, <1>b, <2>2, ReturnType DEF streamByLocalID
    <3> QED BY <1>3, <3>1 DEF streamByLocalID
  <2> QED BY <2>1, <2>2
<1>4. CASE establish
  <2>1. ProcType' BY <1>4, <1>a, <1>b, <1>d, GotoType DEF establish
  <2>2. StreamType' BY <1>4, <1>c DEF establish, StreamType
  <2> QED BY <1>4, <2>1, <2>2 DEF establish
<1>5. CASE established
  <2>1. ProcType' BY <1>5, <1>a, <1>b, <1>d, GotoType, ReturnType DEF established
  <2>2. StreamType' BY <1>5, <1>c DEF established, openOnce, StreamType
  <2> QED BY <1>5, <2>1, <2>2 DEF established
<1>6. CASE acknowledge
  <2>1. Message("OKAY", id[Reader], rmsg.arg0, <<>>) \in Messages
    BY <1>6, <1>b, <1>c, <1>d, ControlMessage DEF acknowledge
  <2>2. WireType' BY <1>6, <2>1, WriteType DEF acknowledge
  <2>3. ProcType' BY <1>6, <1>a, <1>b, <1>d, GotoType DEF acknowledge
  <2> QED BY <1>6, <2>2, <2>3 DEF acknowledge
<1>7. CASE receive
  <2>0. id[Reader] \in IDs BY <1>7, <1>b, <1>d DEF receive
  <2>1. CASE closed[id[Reader]]
    BY <1>7, <2>1 DEF receive, ConnType, connVars, StreamType, ProcType
  <2>2. CASE ~closed[id[Reader]]
    <3>0. Append(dataCh[id[Reader]], rmsg.data) \in Seq(Seq(Nat)) BY <2>0, <1>c DEF StreamType
    <3>1. StreamType' BY <1>7, <2>0, <2>2, <3>0 DEF receive, StreamType
    <3>2. ProcType' BY <1>7, <1>a, <1>b, <2>2, ReturnType DEF receive
    <3> QED BY <1>7, <2>2, <3>1, <3>2 DEF receive
  <2> QED BY <2>1, <2>2
<1>8. CASE peerClose
  <2>1. ProcType' BY <1>8, <1>a, <1>b, <1>c, <1>d, EnterType DEF peerClose
  <2> QED BY <1>8, <2>1 DEF peerClose
<1>9. CASE handlePeerOpen
  <2>1. ProcType' BY <1>9, <1>a, <1>b, GotoType DEF handlePeerOpen
  <2> QED BY <1>9, <2>1 DEF handlePeerOpen
<1>10. CASE refuse
  <2>1. Message("CLSE", 0, rmsg.arg0, <<>>) \in Messages BY <1>c, ControlMessage
  <2>2. WireType' BY <1>10, <2>1, WriteType DEF refuse
  <2>3. ProcType' BY <1>10, <1>a, <1>b, ReturnType DEF refuse
  <2> QED BY <1>10, <2>2, <2>3 DEF refuse
<1>11. CASE newAcceptedStream
  <2>1. ProcType' BY <1>11, <1>a, <1>b, <1>c, EnterType DEF newAcceptedStream, newStreamLocked
  <2>2. ConnType' /\ StreamType'
    BY <1>11, <1>c DEF newAcceptedStream, newStreamLocked, openOnce, ConnType, StreamType
  <2> QED BY <1>11, <2>1, <2>2 DEF newAcceptedStream
<1>12. CASE acceptOkay
  <2>0. id[Reader] \in IDs BY <1>12, <1>b, <1>d DEF acceptOkay
  <2>1. Message("OKAY", id[Reader], rmsg.arg0, <<>>) \in Messages BY <1>c, <2>0, ControlMessage
  <2>2. WireType' BY <1>12, <2>1, WriteType DEF acceptOkay
  <2>3. ProcType' BY <1>12, <1>a, <1>b, <1>c, <2>0, EnterType, ReturnType DEF acceptOkay
  <2>4. AppType' BY <1>12, <2>0 DEF acceptOkay, AppType
  <2> QED BY <1>12, <2>2, <2>3, <2>4 DEF acceptOkay
<1>13. CASE Closing(Reader) BY <1>13, <1>a, CloseType
<1> QED BY <1>1, <1>2, <1>3, <1>4, <1>5, <1>6, <1>7, <1>8, <1>9, <1>10, <1>11, <1>12, <1>13 DEF ReaderStep

\* What the device does keeps every type.
LEMMA PeerStepType == ASSUME TypeOK, PeerStep PROVE TypeOK'
<1> USE FrameType DEF TypeOK, hostFrame
<1>1. CASE PeerReceives
  <2>0. /\ Head(toPeer) \in Messages /\ Tail(toPeer) \in Seq(Messages)
        /\ Head(toPeer).arg0 \in IDs \cup {0} /\ Head(toPeer).arg1 \in IDs \cup {0}
    <3>1. Head(toPeer) \in Messages /\ Tail(toPeer) \in Seq(Messages) BY <1>1 DEF PeerReceives, WireType
    <3> QED BY <3>1 DEF Messages
  <2>a. \A msg \in Messages : peerReply(msg) /\ UNCHANGED transport => WireType'
    BY <2>0 DEF peerReply, WireType
  <2>1. CASE peerAccept
    <3>1. Message("OKAY", peerNext + 1, Head(toPeer).arg0, <<>>) \in Messages
      BY <2>0, <2>1, ControlMessage DEF peerAccept
    <3>2. WireType' BY <1>1, <2>1, <2>a, <3>1 DEF PeerReceives, peerAccept
    <3>3. PeerType' BY <2>0, <2>1 DEF peerAccept, PeerType
    <3> QED BY <1>1, <3>2, <3>3 DEF PeerReceives
  <2>2. CASE peerRefuse
    <3>1. Message("CLSE", 0, Head(toPeer).arg0, <<>>) \in Messages BY <2>0, ControlMessage
    <3>2. WireType' BY <1>1, <2>2, <2>a, <3>1 DEF PeerReceives, peerRefuse
    <3> QED BY <1>1, <2>2, <3>2 DEF PeerReceives, peerRefuse
  <2>3. CASE peerOkay
    <3>1. WireType' BY <1>1, <2>0, <2>3 DEF PeerReceives, peerOkay, WireType
    <3>2. PeerType' BY <2>0, <2>3 DEF peerOkay, PeerType
    <3> QED BY <1>1, <3>1, <3>2 DEF PeerReceives
  <2>4. CASE peerWrte
    <3>1. Message("OKAY", Head(toPeer).arg1, Head(toPeer).arg0, <<>>) \in Messages
      BY <2>0, ControlMessage
    <3>2. WireType'
      <4>1. CASE peerReply(Message("OKAY", Head(toPeer).arg1, Head(toPeer).arg0, <<>>))
        BY <1>1, <2>a, <3>1, <4>1 DEF PeerReceives
      <4>2. CASE toPeer' = Tail(toPeer) /\ UNCHANGED toHost
        BY <1>1, <2>0, <4>2 DEF PeerReceives, WireType
      <4> QED BY <2>4, <4>1, <4>2 DEF peerWrte
    <3> QED BY <1>1, <2>4, <3>2 DEF PeerReceives, peerWrte
  <2>5. CASE peerClse
    <3>1. WireType' BY <1>1, <2>0, <2>5 DEF PeerReceives, peerClse, WireType
    <3>2. PeerType' BY <2>0, <2>5 DEF peerClse, PeerType
    <3> QED BY <1>1, <3>1, <3>2 DEF PeerReceives
  <2> QED BY <1>1, <2>1, <2>2, <2>3, <2>4, <2>5 DEF PeerReceives
<1>2. CASE PeerOpens
  <2>1. Message("OPEN", peerNext + 1, 0, <<>>) \in Messages BY <1>2, ControlMessage DEF PeerOpens
  <2>2. WireType' BY <1>2, <2>1 DEF PeerOpens, WireType
  <2>3. PeerType' BY <1>2 DEF PeerOpens, PeerType
  <2> QED BY <1>2, <2>2, <2>3 DEF PeerOpens
<1>3. CASE PeerLeaves
  <2>1. WireType' BY <1>3 DEF PeerLeaves, WireType
  <2> QED BY <1>3, <2>1 DEF PeerLeaves
<1>4. ASSUME NEW q \in IDs, PeerWrites(q) PROVE TypeOK'
  <2>1. PICK n \in 1 .. MaxChunk :
           /\ peerSent' = [peerSent EXCEPT ![q] = @ + n]
           /\ toHost' = Append(toHost, Message("WRTE", q, peerHost[q], [k \in 1 .. n |-> peerSent[q] + k]))
    BY <1>4 DEF PeerWrites
  <2>2. n \in Nat /\ peerSent[q] \in Nat /\ peerHost[q] \in IDs \cup {0}
    BY ConnectionAssumption DEF PeerType
  <2>3. [k \in 1 .. n |-> peerSent[q] + k] \in Seq(Nat) BY <2>2
  <2>4. Message("WRTE", q, peerHost[q], [k \in 1 .. n |-> peerSent[q] + k]) \in Messages
    BY <2>2, <2>3, MessageType DEF Commands
  <2>5. WireType' BY <1>4, <2>1, <2>4 DEF PeerWrites, WireType
  <2>6. PeerType' BY <1>4, <2>1, <2>2 DEF PeerWrites, PeerType
  <2> QED BY <1>4, <2>5, <2>6 DEF PeerWrites
<1>5. ASSUME NEW q \in IDs, PeerCloses(q) PROVE TypeOK'
  <2>1. Message("CLSE", q, peerHost[q], <<>>) \in Messages BY ControlMessage DEF PeerType
  <2>2. WireType' BY <1>5, <2>1 DEF PeerCloses, WireType
  <2>3. PeerType' BY <1>5 DEF PeerCloses, PeerType
  <2> QED BY <1>5, <2>2, <2>3 DEF PeerCloses
<1> QED BY <1>1, <1>2, <1>3, <1>4, <1>5 DEF PeerStep

\* TypeOK is inductive.
LEMMA NextType == ASSUME TypeOK, [Next]_vars PROVE TypeOK'
<1>1. CASE Next
  BY <1>1, ReaderType, ThreadStepType, ThreadCallType, ReadType, PeerStepType DEF Next
<1>2. CASE UNCHANGED vars
  BY <1>2, FrameType DEF TypeOK, vars, procVars
<1> QED BY <1>1, <1>2

\* In every reachable state the variables of a Connection have their types
\* and no goroutine works on a stream id of 0.
THEOREM TypeCorrect == Spec => []TypeOK
<1>1. Init => TypeOK BY InitType
<1>2. TypeOK /\ [Next]_vars => TypeOK' BY NextType
<1> QED BY <1>1, <1>2, PTL DEF Spec

-----------------------------------------------------------------------------
(***************************************************************************)
(* The inductive invariant behind CloseOnce, OpenSignalled and             *)
(* DeadReaderClosesHeld.                                                    *)
(***************************************************************************)

\* A stream that can still end: registered, closed, or about to be closed.
Owned(i) == i \in streams \/ closed[i] \/ \E p \in Procs : i \in todo[p]

\* Goroutines inside OpenContext between newStream and its result.
Opening(t) == pc[t] \in {"writeOpen", "awaitOpen", "removeStream"}

\* A registered stream is open.
RegisteredOpen == \A i \in streams : ~closed[i]

\* Ids that have not been allotted are untouched.
Fresh ==
    \A i \in IDs : i > nextLocalID =>
      /\ i \notin streams /\ ~closed[i] /\ i \notin held /\ openCh[i] = "empty"
      /\ \A p \in Procs : i \notin todo[p]

\* A goroutine about to signal openCh has marked the stream closed.
FireClosed == \A p \in Procs : pc[p] = "fire" => closed[id[p]]

\* An opening goroutine has an id of its own, which the program does not hold
\* yet, and waits only for a stream that somebody will close or answer.
Openers ==
    /\ \A t \in Threads : Opening(t) =>
         /\ id[t] <= nextLocalID /\ id[t] \notin held
         /\ \A u \in Threads \ {t} : Opening(u) => id[u] # id[t]
         /\ pc[t] # "removeStream" => Owned(id[t])
    /\ pc[Reader] = "writeOkay" =>
         /\ id[Reader] <= nextLocalID /\ openCh[id[Reader]] = "nil" /\ Owned(id[Reader])
         /\ \A t \in Threads : Opening(t) => id[t] # id[Reader]

\* What the program holds was answered, and is owned.
HeldOwned == \A i \in held : openCh[i] = "nil" /\ Owned(i)

\* After the dying reader swapped the map, no registered stream was answered.
DeadReader ==
    /\ pc[Reader] = "stopped" => readerErr
    /\ readerErr => pc[Reader] \in {"closeAll", "closing", "fire", "stopped"}
    /\ readerErr /\ pc[Reader] # "closeAll" => \A i \in streams : openCh[i] # "nil"

\* Detached streams are never dropped: their closer stays in its loop.
TodoClosing == \A p \in Procs : todo[p] # {} => pc[p] \in {"closing", "fire"}

\* A packet is handled only for an id that was allotted.
ReaderLookup == pc[Reader] \in {"establish", "established"} => id[Reader] <= nextLocalID

IInv ==
    /\ TypeOK /\ CloseOnce /\ OpenSignalled /\ TodoClosing /\ ReaderLookup
    /\ RegisteredOpen /\ Fresh /\ FireClosed /\ Openers /\ HeldOwned /\ DeadReader

\* The variables the invariant speaks of.
invVars == <<streams, nextLocalID, readerErr, closed, openCh, held, todo, pc, id>>

\* A step that touches none of these variables keeps the invariant.
LEMMA IInvFrame == ASSUME IInv, TypeOK', UNCHANGED invVars PROVE IInv'
  BY DEF IInv, invVars, CloseOnce, OpenSignalled, TodoClosing, RegisteredOpen, Fresh, FireClosed, Openers, Opening,
         Owned, HeldOwned, DeadReader, ReaderLookup

\* The inductive invariant holds of a new Connection.
THEOREM InitInv == Init => IInv
<1> SUFFICES ASSUME Init PROVE IInv OBVIOUS
<1>1. TypeOK BY InitType
<1>2. CloseOnce /\ OpenSignalled /\ TodoClosing /\ RegisteredOpen /\ Fresh /\ FireClosed
  BY DEF Init, CloseOnce, OpenSignalled, TodoClosing, RegisteredOpen, Fresh, FireClosed
<1>3. Openers /\ HeldOwned /\ DeadReader /\ ReaderLookup
  BY ConnectionAssumption DEF Init, Openers, Opening, HeldOwned, DeadReader, ReaderLookup, Procs
<1> QED BY <1>1, <1>2, <1>3 DEF IInv

\* The types the steps below rest on.
LEMMA Types ==
    ASSUME TypeOK
    PROVE  /\ pc \in [Procs -> Labels] /\ id \in [Procs -> IDs \cup {0}] /\ todo \in [Procs -> SUBSET IDs]
           /\ closed \in [IDs -> BOOLEAN] /\ streams \subseteq IDs /\ held \subseteq IDs
           /\ openCh \in [IDs -> Errors \cup {"empty"}] /\ cause \in [Procs -> Errors]
           /\ nextLocalID \in Nat /\ Reader \in Procs /\ Threads \subseteq Procs /\ Reader \notin Threads
           /\ \A p \in Procs : pc[p] \in OnStream => id[p] \in IDs
  BY ConnectionAssumption DEF TypeOK, ConnType, StreamType, AppType, ProcType, Procs

\* closeStream, closeAllStreams and closeWithError: c.mu hands a stream to
\* one closer, which signals its opener.
LEMMA ClosingInv == ASSUME IInv, TypeOK', NEW p \in Procs, Closing(p) PROVE IInv'
<1> USE DEF IInv
<1>a. TypeOK BY DEF IInv
<1> USE Types
<1>1. ASSUME NEW set \in SUBSET streams, Detach(p, set), pc[p] \in {"closeStream", "closeAll"},
             pc[p] = "closeAll" => set = streams,
             p = Reader /\ readerErr => pc[p] = "closeAll"
      PROVE  IInv'
  <2>0. /\ todo' = [todo EXCEPT ![p] = set] /\ streams' = streams \ set
        /\ pc' = [pc EXCEPT ![p] = "closing"]
        /\ UNCHANGED <<nextLocalID, readerErr, closed, openCh, held, id>>
    BY <1>1 DEF Detach, Goto, streamVars, appVars
  <2>1. CloseOnce' BY <1>a, <2>0 DEF CloseOnce, RegisteredOpen
  <2>2. OpenSignalled' BY <1>1, <1>a, <2>0 DEF OpenSignalled
  <2>3. RegisteredOpen' /\ Fresh' /\ FireClosed' BY <1>a, <2>0 DEF RegisteredOpen, Fresh, FireClosed
  <2>4. ASSUME NEW i \in IDs, Owned(i) PROVE Owned(i)'
    <3>1. todo[p] = {} BY <1>1, <1>a DEF TodoClosing
    <3> QED BY <1>a, <2>0, <2>4, <3>1 DEF Owned
  <2>5. HeldOwned' /\ TodoClosing' BY <1>a, <2>0, <2>4 DEF HeldOwned, TodoClosing
  <2>6. Openers' BY <1>1, <1>a, <2>0, <2>4 DEF Openers, Opening, TypeOK, ProcType, OnStream
  <2>7. DeadReader' /\ ReaderLookup' BY <1>1, <1>a, <2>0 DEF DeadReader, ReaderLookup
  <2> QED BY <2>1, <2>2, <2>3, <2>5, <2>6, <2>7
<1>2. CASE closeStream(p) BY <1>1, <1>2 DEF closeStream, DeadReader
<1>3. CASE closeAllStreams(p) BY <1>1, <1>3 DEF closeAllStreams
<1>4. CASE closeWithError(p)
  <2>1. PICK i \in todo[p] : closeWithError(p)!2!(i) BY <1>4 DEF closeWithError
  <2>2. i \in IDs /\ ~closed[i] /\ i \notin streams /\ i <= nextLocalID
    <3>1. i \in IDs /\ i \in Nat BY <1>a, IDsNat
    <3> QED BY <1>a, <3>1 DEF CloseOnce, Fresh
  <2>3. /\ todo' = [todo EXCEPT ![p] = @ \ {i}] /\ closed' = [closed EXCEPT ![i] = TRUE]
        /\ pc' = [pc EXCEPT ![p] = "fire"] /\ id' = [id EXCEPT ![p] = i]
        /\ UNCHANGED <<streams, nextLocalID, readerErr, openCh, held>>
        /\ pc[p] = "closing"
    BY <1>4, <2>1, <2>2 DEF closeWithError, Enter, connVars, appVars
  <2>4. CloseOnce' BY <1>a, <2>2, <2>3 DEF CloseOnce
  <2>5. OpenSignalled' BY <1>a, <2>2, <2>3 DEF OpenSignalled
  <2>6. RegisteredOpen' /\ Fresh' /\ FireClosed' BY <1>a, <2>2, <2>3 DEF RegisteredOpen, Fresh, FireClosed
  <2>7. ASSUME NEW j \in IDs, Owned(j) PROVE Owned(j)' BY <1>a, <2>2, <2>3, <2>7 DEF Owned
  <2>8. HeldOwned' /\ TodoClosing' BY <1>a, <2>3, <2>7 DEF HeldOwned, TodoClosing
  <2>9. Openers' BY <1>a, <2>3, <2>7 DEF Openers, Opening, TypeOK, ProcType, OnStream
  <2>10. DeadReader' /\ ReaderLookup' BY <1>a, <2>3 DEF DeadReader, ReaderLookup
  <2> QED BY <2>4, <2>5, <2>6, <2>8, <2>9, <2>10
<1>5. CASE fireOpen(p)
  <2>1. id[p] \in IDs /\ closed[id[p]] /\ cause[p] # "empty" /\ id[p] \notin streams
    BY <1>5, <1>a DEF fireOpen, FireClosed, RegisteredOpen, TypeOK, ProcType, OnStream, Errors
  <2>2. /\ openCh' = [openCh EXCEPT ![id[p]] = IF @ = "empty" THEN cause[p] ELSE @]
        /\ pc' = [pc EXCEPT ![p] = "closing"] /\ pc[p] = "fire"
        /\ UNCHANGED <<streams, nextLocalID, readerErr, closed, held, todo, id>>
    BY <1>5 DEF fireOpen, openOnce, Goto, connVars, appVars
  <2>3. CloseOnce' /\ RegisteredOpen' BY <1>a, <2>2 DEF CloseOnce, RegisteredOpen
  <2>4. OpenSignalled' BY <1>a, <2>1, <2>2 DEF OpenSignalled
  <2>5. Fresh' /\ FireClosed' BY <1>a, <2>1, <2>2 DEF Fresh, FireClosed
  <2>6. ASSUME NEW j \in IDs, Owned(j) PROVE Owned(j)' BY <1>a, <2>2, <2>6 DEF Owned
  <2>7. HeldOwned' /\ TodoClosing' BY <1>a, <2>1, <2>2, <2>6 DEF HeldOwned, TodoClosing
  <2>8. Openers' BY <1>a, <2>1, <2>2, <2>6 DEF Openers, Opening, TypeOK, ProcType, OnStream
  <2>9. DeadReader' /\ ReaderLookup' BY <1>a, <2>1, <2>2 DEF DeadReader, ReaderLookup
  <2> QED BY <2>3, <2>4, <2>5, <2>7, <2>8, <2>9
<1>6. CASE closeReturn(p)
  <2>2. /\ pc' = [pc EXCEPT ![p] = AfterClose(p)] /\ id' = [id EXCEPT ![p] = 0] /\ pc[p] = "closing"
        /\ UNCHANGED <<streams, nextLocalID, readerErr, closed, openCh, held, todo>>
    BY <1>6 DEF closeReturn, Return, noData, noWrite, connVars, streamVars, appVars
  <2>1. /\ AfterClose(p) \in {"stopped", "read", "closeTransport", "idle"}
        /\ p = Reader => AfterClose(p) = (IF readerErr THEN "stopped" ELSE "read")
    BY DEF AfterClose
  <2>3. CloseOnce' /\ RegisteredOpen' /\ Fresh' BY <1>a, <2>2 DEF CloseOnce, RegisteredOpen, Fresh
  <2>4. OpenSignalled' /\ FireClosed' BY <1>a, <2>1, <2>2 DEF OpenSignalled, FireClosed
  <2>6. ASSUME NEW j \in IDs, Owned(j) PROVE Owned(j)' BY <1>a, <2>2, <2>6 DEF Owned
  <2>7. HeldOwned' /\ TodoClosing' BY <1>6, <1>a, <2>2, <2>6 DEF closeReturn, HeldOwned, TodoClosing
  <2>8. Openers' BY <1>a, <2>1, <2>2, <2>6 DEF Openers, Opening, TypeOK, ProcType, OnStream
  <2>9. DeadReader' /\ ReaderLookup' BY <1>a, <2>1, <2>2 DEF DeadReader, ReaderLookup
  <2> QED BY <2>3, <2>4, <2>7, <2>8, <2>9
<1> QED BY <1>2, <1>3, <1>4, <1>5, <1>6 DEF Closing

\* A step that only moves one goroutine, neither out of a close loop nor into
\* a step the invariant speaks of.
LEMMA MoveInv ==
    ASSUME IInv, TypeOK', NEW p \in Procs, NEW label, NEW i,
           pc' = [pc EXCEPT ![p] = label], id' = [id EXCEPT ![p] = i],
           pc[p] \notin {"closing", "fire", "stopped", "closeAll"},
           label \notin {"fire", "writeOpen", "writeOkay", "awaitOpen", "removeStream", "stopped"},
           p = Reader /\ label \in {"establish", "established"} => i <= nextLocalID,
           UNCHANGED <<streams, nextLocalID, readerErr, closed, openCh, held, todo>>
    PROVE  IInv'
<1>a. TypeOK BY DEF IInv
<1> USE <1>a, Types DEF IInv
<1>1. CloseOnce' /\ RegisteredOpen' /\ Fresh' BY DEF CloseOnce, RegisteredOpen, Fresh
<1>2. OpenSignalled' /\ FireClosed' /\ TodoClosing' BY DEF OpenSignalled, FireClosed, TodoClosing
<1>3. ASSUME NEW j \in IDs, Owned(j) PROVE Owned(j)' BY <1>3 DEF Owned
<1>4. HeldOwned' BY <1>3 DEF HeldOwned
<1>5. Openers' BY <1>3 DEF Openers, Opening, OnStream
<1>6. DeadReader' /\ ReaderLookup' BY DEF DeadReader, ReaderLookup
<1> QED BY <1>1, <1>2, <1>4, <1>5, <1>6

\* newStreamLocked allots a fresh id to the goroutine that calls it.
LEMMA NewStreamInv ==
    ASSUME IInv, TypeOK', NEW t \in Threads, newStream(t) PROVE IInv'
<1>a. TypeOK BY DEF IInv
<1>n. PICK n \in Nat : n = nextLocalID + 1 BY <1>a, Types
<1>b. /\ n \in IDs /\ nextLocalID' = n /\ streams' = streams \cup {n}
      /\ pc[t] = "newStream"
      /\ pc' = [pc EXCEPT ![t] = "writeOpen"] /\ id' = [id EXCEPT ![t] = n]
      /\ UNCHANGED <<readerErr, closed, openCh, held, todo>>
  BY <1>n DEF newStream, newStreamLocked, Enter, appVars
<1>c. n > nextLocalID /\ IDs \subseteq Nat /\ nextLocalID \in Nat BY <1>a, <1>n, Types, IDsNat
<1>d. /\ n \notin streams /\ ~closed[n] /\ n \notin held /\ openCh[n] = "empty"
      /\ \A p \in Procs : n \notin todo[p]
  BY <1>b, <1>c DEF IInv, Fresh
<1> USE <1>a, Types DEF IInv
<1>1. CloseOnce' /\ RegisteredOpen' BY <1>b, <1>d DEF CloseOnce, RegisteredOpen
<1>2. Fresh' BY <1>n, <1>b, <1>c, <1>d DEF Fresh
<1>3. OpenSignalled' /\ FireClosed' /\ TodoClosing' BY <1>b DEF OpenSignalled, FireClosed, TodoClosing
<1>4. ASSUME NEW j \in IDs, Owned(j) PROVE Owned(j)' BY <1>b, <1>4 DEF Owned
<1>5. HeldOwned' BY <1>b, <1>4 DEF HeldOwned
<1>6. Owned(n)' BY <1>b DEF Owned
<1>e. \A u \in Procs : pc[u] \in OnStream => id[u] \in IDs /\ id[u] \in Nat BY <1>c
<1>f. ASSUME NEW u \in Threads \ {t}
      PROVE  /\ Opening(u)' <=> Opening(u)
             /\ id'[u] = id[u] /\ pc'[u] = pc[u]
             /\ Opening(u) => id[u] \in IDs /\ id[u] < n
  BY <1>n, <1>b, <1>c, <1>e DEF Opening, Openers, OnStream
<1>7. Openers'
  <2>1. ASSUME NEW u \in Threads, Opening(u)'
        PROVE  /\ id'[u] <= nextLocalID' /\ id'[u] \notin held'
               /\ \A v \in Threads \ {u} : Opening(v)' => id'[v] # id'[u]
               /\ pc'[u] # "removeStream" => Owned(id[u])'
    <3>1. CASE u = t BY <1>n, <1>b, <1>c, <1>d, <1>f, <1>6, <3>1 DEF Owned
    <3>2. CASE u # t
      <4>1. /\ Opening(u) /\ id[u] <= nextLocalID /\ id[u] \notin held /\ id[u] \in IDs
            /\ \A v \in Threads \ {u} : Opening(v) => id[v] # id[u]
            /\ pc[u] # "removeStream" => Owned(id[u])
        BY <1>f, <2>1, <3>2 DEF Openers
      <4>2. id'[u] = id[u] /\ pc'[u] = pc[u] /\ id[u] < n BY <1>f, <3>2, <4>1
      <4>3. \A v \in Threads \ {u} : Opening(v)' => id'[v] # id'[u] BY <1>b, <1>f, <4>1, <4>2
      <4>4. pc'[u] # "removeStream" => Owned(id[u])' BY <1>4, <4>1, <4>2 DEF Owned
      <4>a. id[u] \in Nat /\ nextLocalID' = n BY <1>b, <1>c, <4>1
      <4>5. id'[u] <= nextLocalID' BY <1>n, <1>c, <4>1, <4>2, <4>a
      <4> QED BY <1>b, <4>1, <4>2, <4>3, <4>4, <4>5
    <3> QED BY <3>1, <3>2
  <2>2. ASSUME pc'[Reader] = "writeOkay"
        PROVE  /\ id'[Reader] <= nextLocalID' /\ openCh'[id'[Reader]] = "nil" /\ Owned(id[Reader])'
               /\ \A u \in Threads : Opening(u)' => id'[u] # id'[Reader]
    <3>1. pc[Reader] = "writeOkay" /\ id'[Reader] = id[Reader] /\ id[Reader] \in IDs
      BY <1>b, <1>e, <2>2 DEF OnStream
    <3>2. /\ id[Reader] <= nextLocalID /\ openCh[id[Reader]] = "nil" /\ Owned(id[Reader])
          /\ \A u \in Threads : Opening(u) => id[u] # id[Reader]
      BY <3>1 DEF Openers
    <3>a. id[Reader] \in Nat /\ nextLocalID' = n BY <1>b, <1>c, <3>1
    <3>3. id[Reader] < n /\ id[Reader] <= nextLocalID' BY <1>n, <1>c, <3>a, <3>2
    <3>4. Owned(id[Reader])' BY <1>4, <3>1, <3>2 DEF Owned
    <3>5. \A u \in Threads : Opening(u)' => id'[u] # id'[Reader] BY <1>b, <1>f, <3>1, <3>2, <3>3
    <3> QED BY <1>b, <3>1, <3>2, <3>3, <3>4, <3>5
  <2> QED BY <2>1, <2>2 DEF Openers
<1>8. DeadReader' BY <1>b, <1>d DEF DeadReader
<1>9. ReaderLookup'
  <2>1. CASE pc'[Reader] \in {"establish", "established"}
    <3>1. /\ pc[Reader] \in {"establish", "established"} /\ id'[Reader] = id[Reader]
          /\ id[Reader] \in IDs /\ id[Reader] <= nextLocalID
      BY <1>b, <2>1 DEF ReaderLookup, OnStream
    <3>2. id[Reader] \in Nat BY <1>c, <3>1
    <3>3. id[Reader] <= nextLocalID' BY <1>n, <1>b, <1>c, <3>1, <3>2
    <3> QED BY <3>1, <3>3 DEF ReaderLookup
  <2> QED BY <2>1 DEF ReaderLookup
<1> QED BY <1>1, <1>2, <1>3, <1>5, <1>7, <1>8, <1>9

\* newAcceptedStream registers the device's stream under a fresh id, already
\* answered.
LEMMA NewAcceptedInv == ASSUME IInv, TypeOK', newAcceptedStream PROVE IInv'
<1>a. TypeOK BY DEF IInv
<1>n. PICK n \in Nat : n = nextLocalID + 1 BY <1>a, Types
<1>b. /\ n \in IDs /\ nextLocalID' = n /\ streams' = streams \cup {n}
      /\ pc[Reader] = "accept"
      /\ pc' = [pc EXCEPT ![Reader] = "writeOkay"] /\ id' = [id EXCEPT ![Reader] = n]
      /\ openCh' = [openCh EXCEPT ![n] = IF @ = "empty" THEN "nil" ELSE @]
      /\ UNCHANGED <<readerErr, closed, held, todo>>
  BY <1>n DEF newAcceptedStream, newStreamLocked, openOnce, Enter, appVars
<1>c. n > nextLocalID /\ IDs \subseteq Nat /\ nextLocalID \in Nat BY <1>a, <1>n, Types, IDsNat
<1>d. /\ n \notin streams /\ ~closed[n] /\ n \notin held /\ openCh[n] = "empty"
      /\ \A p \in Procs : n \notin todo[p]
  BY <1>b, <1>c DEF IInv, Fresh
<1> USE <1>a, Types DEF IInv
<1>1. CloseOnce' /\ RegisteredOpen' BY <1>b, <1>d DEF CloseOnce, RegisteredOpen
<1>2. Fresh' BY <1>n, <1>b, <1>c, <1>d DEF Fresh
<1>3. OpenSignalled' /\ FireClosed' /\ TodoClosing' BY <1>b, <1>d DEF OpenSignalled, FireClosed, TodoClosing
<1>4. ASSUME NEW j \in IDs, Owned(j) PROVE Owned(j)' BY <1>b, <1>4 DEF Owned
<1>5. HeldOwned' BY <1>b, <1>d, <1>4 DEF HeldOwned
<1>6. Owned(n)' BY <1>b DEF Owned
<1>e. ASSUME NEW u \in Threads
      PROVE  /\ Opening(u)' <=> Opening(u)
             /\ id'[u] = id[u] /\ pc'[u] = pc[u]
             /\ Opening(u) => id[u] \in IDs /\ id[u] < n
  <2>1. id'[u] = id[u] /\ pc'[u] = pc[u] BY <1>b
  <2>2. Opening(u) => id[u] \in IDs BY DEF Opening, OnStream
  <2>3. Opening(u) => id[u] <= nextLocalID BY DEF Openers
  <2>4. ASSUME Opening(u) PROVE id[u] < n
    <3>1. id[u] \in Nat /\ id[u] <= nextLocalID BY <1>c, <2>2, <2>3, <2>4
    <3> QED BY <1>n, <1>c, <3>1
  <2> QED BY <2>1, <2>2, <2>4 DEF Opening
<1>7. Openers'
  <2>1. ASSUME NEW u \in Threads, Opening(u)'
        PROVE  /\ id'[u] <= nextLocalID' /\ id'[u] \notin held'
               /\ \A v \in Threads \ {u} : Opening(v)' => id'[v] # id'[u]
               /\ pc'[u] # "removeStream" => Owned(id[u])'
    <3>1. /\ Opening(u) /\ id[u] <= nextLocalID /\ id[u] \notin held /\ id[u] \in IDs
          /\ \A v \in Threads \ {u} : Opening(v) => id[v] # id[u]
          /\ pc[u] # "removeStream" => Owned(id[u])
      BY <1>e, <2>1 DEF Openers
    <3>2. id'[u] = id[u] /\ pc'[u] = pc[u] BY <1>e
    <3>3. \A v \in Threads \ {u} : Opening(v)' => id'[v] # id'[u] BY <1>e, <3>1, <3>2
    <3>4. pc'[u] # "removeStream" => Owned(id[u])' BY <1>4, <3>1, <3>2 DEF Owned
    <3>a. id[u] \in Nat /\ nextLocalID' = n BY <1>b, <1>c, <3>1
    <3>5. id'[u] <= nextLocalID' BY <1>n, <1>c, <3>1, <3>2, <3>a
    <3> QED BY <1>b, <3>1, <3>2, <3>3, <3>4, <3>5
  <2>2. /\ id'[Reader] <= nextLocalID' /\ openCh'[id'[Reader]] = "nil" /\ Owned(id[Reader])'
        /\ \A u \in Threads : Opening(u)' => id'[u] # id'[Reader]
    BY <1>n, <1>b, <1>c, <1>d, <1>e, <1>6 DEF Owned
  <2> QED BY <2>1, <2>2 DEF Openers
<1>8. DeadReader' BY <1>b, <1>d DEF DeadReader
<1>9. ReaderLookup'
  <2>1. CASE pc'[Reader] \in {"establish", "established"}
    <3>1. /\ pc[Reader] \in {"establish", "established"} /\ id'[Reader] = id[Reader]
          /\ id[Reader] \in IDs /\ id[Reader] <= nextLocalID
      BY <1>b, <2>1 DEF ReaderLookup, OnStream
    <3>2. id[Reader] \in Nat BY <1>c, <3>1
    <3>3. id[Reader] <= nextLocalID' BY <1>n, <1>b, <1>c, <3>1, <3>2
    <3> QED BY <3>1, <3>3 DEF ReaderLookup
  <2> QED BY <2>1 DEF ReaderLookup
<1> QED BY <1>1, <1>2, <1>3, <1>5, <1>7, <1>8, <1>9

\* The move of a goroutine that may start the reader.
LEMMA StartInv ==
    ASSUME IInv, TypeOK', NEW t \in Threads, NEW label \in {"newStream", "idle"},
           pc[t] \in {"idle", "handleOpen"}, startReader([pc EXCEPT ![t] = label]),
           UNCHANGED <<streams, nextLocalID, readerErr, closed, openCh, held, todo>>
    PROVE  IInv'
<1>a. TypeOK /\ t \in Procs /\ t # Reader BY Types DEF IInv
<1> USE <1>a, Types DEF IInv
<1>b. /\ pc'[t] = label /\ pc'[Reader] = IF pc[Reader] = "off" THEN "read" ELSE pc[Reader]
      /\ \A p \in Procs \ {t, Reader} : pc'[p] = pc[p]
      /\ id' = id
  BY DEF startReader
<1>c. \A p \in Procs : \A l \in {"fire", "closing", "writeOpen", "awaitOpen", "removeStream", "writeOkay"} :
        pc'[p] = l <=> pc[p] = l
  BY <1>b
<1>1. CloseOnce' /\ RegisteredOpen' /\ Fresh' BY DEF CloseOnce, RegisteredOpen, Fresh
<1>2. OpenSignalled' /\ FireClosed' /\ TodoClosing' BY <1>b, <1>c DEF OpenSignalled, FireClosed, TodoClosing
<1>3. ASSUME NEW j \in IDs PROVE Owned(j)' <=> Owned(j) BY DEF Owned
<1>4. HeldOwned' BY <1>3 DEF HeldOwned
<1>5. Openers' BY <1>b, <1>c DEF Openers, Opening, Owned
<1>6. DeadReader' /\ ReaderLookup' BY <1>b DEF DeadReader, ReaderLookup
<1> QED BY <1>1, <1>2, <1>4, <1>5, <1>6

\* The steps inside a call keep the invariant.
LEMMA ThreadStepInv == ASSUME IInv, TypeOK', NEW t \in Threads, ThreadStep(t) PROVE IInv'
<1>a. TypeOK /\ t \in Procs /\ t # Reader BY Types DEF IInv
<1>1. CASE newStream(t) BY <1>1, NewStreamInv
<1>2. CASE writeOpen(t)
  <2>b. /\ pc[t] = "writeOpen" /\ UNCHANGED <<streams, nextLocalID, readerErr, closed, openCh, held, todo, id>>
        /\ \E label \in {"awaitOpen", "removeStream"} : pc' = [pc EXCEPT ![t] = label]
    BY <1>2 DEF writeOpen, Goto, noWrite, connVars, streamVars, appVars
  <2>c. PICK label \in {"awaitOpen", "removeStream"} : pc' = [pc EXCEPT ![t] = label] BY <2>b
  <2> USE <1>a, Types DEF IInv
  <2>1. CloseOnce' /\ RegisteredOpen' /\ Fresh' BY <2>b DEF CloseOnce, RegisteredOpen, Fresh
  <2>2. OpenSignalled' /\ FireClosed' /\ TodoClosing' BY <2>b, <2>c DEF OpenSignalled, FireClosed, TodoClosing
  <2>3. ASSUME NEW j \in IDs, Owned(j) PROVE Owned(j)' BY <2>b, <2>3 DEF Owned
  <2>4. HeldOwned' BY <2>b, <2>3 DEF HeldOwned
  <2>5. Openers' BY <2>b, <2>c, <2>3 DEF Openers, Opening, Owned
  <2>6. DeadReader' /\ ReaderLookup' BY <2>b, <2>c DEF DeadReader, ReaderLookup
  <2> QED BY <2>1, <2>2, <2>4, <2>5, <2>6
<1>3. CASE removeStream(t)
  <2>b. /\ pc[t] = "removeStream" /\ streams' = streams \ {id[t]}
        /\ pc' = [pc EXCEPT ![t] = "idle"] /\ id' = [id EXCEPT ![t] = 0]
        /\ UNCHANGED <<nextLocalID, readerErr, closed, openCh, held, todo>>
    BY <1>3 DEF removeStream, Return, streamVars, appVars
  <2> USE <1>a, Types DEF IInv
  <2>1. CloseOnce' /\ RegisteredOpen' /\ Fresh' BY <2>b DEF CloseOnce, RegisteredOpen, Fresh
  <2>2. OpenSignalled' /\ FireClosed' /\ TodoClosing' BY <2>b DEF OpenSignalled, FireClosed, TodoClosing
  <2>3. ASSUME NEW j \in IDs \ {id[t]}, Owned(j)
        PROVE  j \in streams' \/ closed'[j] \/ \E p \in Procs : j \in todo'[p]
    BY <2>b, <2>3 DEF Owned
  <2>c. Opening(t) BY <2>b DEF Opening
  <2>4. HeldOwned'
    <3>1. id[t] \notin held BY <2>c DEF Openers
    <3> QED BY <2>b, <2>3, <3>1 DEF HeldOwned, Owned
  <2>5. Openers'
    <3>1. ASSUME NEW u \in Threads, Opening(u)'
          PROVE  /\ id'[u] <= nextLocalID' /\ id'[u] \notin held'
                 /\ \A v \in Threads \ {u} : Opening(v)' => id'[v] # id'[u]
                 /\ pc'[u] # "removeStream" => Owned(id[u])'
      <4>1. u # t /\ pc'[u] = pc[u] /\ id'[u] = id[u] /\ Opening(u) BY <2>b, <3>1 DEF Opening
      <4>2. id[u] # id[t] /\ id[u] \in IDs BY <2>c, <4>1 DEF Openers, Opening, OnStream
      <4>3. \A v \in Threads : Opening(v)' => Opening(v) /\ id'[v] = id[v] BY <2>b DEF Opening
      <4>4. pc[u] # "removeStream" => Owned(id[u]) BY <4>1 DEF Openers
      <4>5. pc'[u] # "removeStream" => Owned(id[u])' BY <2>3, <4>1, <4>2, <4>4 DEF Owned
      <4> QED BY <2>b, <4>1, <4>3, <4>5 DEF Openers
    <3>2. ASSUME pc'[Reader] = "writeOkay"
          PROVE  /\ id'[Reader] <= nextLocalID' /\ openCh'[id'[Reader]] = "nil" /\ Owned(id[Reader])'
                 /\ \A u \in Threads : Opening(u)' => id'[u] # id'[Reader]
      <4>1. pc[Reader] = "writeOkay" /\ id'[Reader] = id[Reader] /\ id[Reader] \in IDs
        BY <2>b, <3>2 DEF OnStream
      <4>2. id[Reader] # id[t] /\ Owned(id[Reader]) BY <2>c, <4>1 DEF Openers
      <4>3. \A v \in Threads : Opening(v)' => Opening(v) /\ id'[v] = id[v] BY <2>b DEF Opening
      <4>4. Owned(id[Reader])' BY <2>3, <4>1, <4>2 DEF Owned
      <4> QED BY <2>b, <4>1, <4>3, <4>4 DEF Openers
    <3> QED BY <3>1, <3>2 DEF Openers
  <2>6. DeadReader' /\ ReaderLookup' BY <2>b DEF DeadReader, ReaderLookup
  <2> QED BY <2>1, <2>2, <2>4, <2>5, <2>6
<1>4. CASE openReturns(t)
  <2>b. /\ pc[t] = "awaitOpen" /\ held' = IF openCh[id[t]] = "nil" THEN held \cup {id[t]} ELSE held
        /\ pc' = [pc EXCEPT ![t] = "idle"] /\ id' = [id EXCEPT ![t] = 0]
        /\ UNCHANGED <<streams, nextLocalID, readerErr, closed, openCh, todo>>
    BY <1>4 DEF openReturns, Return, connVars, streamVars
  <2> USE <1>a, Types DEF IInv
  <2>c. Opening(t) /\ id[t] \in IDs /\ id[t] \in Nat /\ id[t] <= nextLocalID /\ Owned(id[t])
    <3>1. Opening(t) /\ id[t] \in IDs BY <2>b DEF Opening, OnStream
    <3> QED BY <2>b, <3>1, IDsNat DEF Openers
  <2>1. CloseOnce' /\ RegisteredOpen' BY <2>b DEF CloseOnce, RegisteredOpen
  <2>7. Fresh'
    <3>1. ASSUME NEW i \in IDs, i > nextLocalID PROVE i # id[t] BY <2>c, <3>1, IDsNat
    <3> QED BY <2>b, <3>1 DEF Fresh
  <2>2. OpenSignalled' /\ FireClosed' /\ TodoClosing' BY <2>b DEF OpenSignalled, FireClosed, TodoClosing
  <2>3. ASSUME NEW j \in IDs, Owned(j)
        PROVE  j \in streams' \/ closed'[j] \/ \E p \in Procs : j \in todo'[p]
    BY <2>b, <2>3 DEF Owned
  <2>4. HeldOwned' BY <2>b, <2>c, <2>3 DEF HeldOwned, Owned
  <2>5. Openers'
    <3>1. ASSUME NEW u \in Threads, Opening(u)'
          PROVE  /\ id'[u] <= nextLocalID' /\ id'[u] \notin held'
                 /\ \A v \in Threads \ {u} : Opening(v)' => id'[v] # id'[u]
                 /\ pc'[u] # "removeStream" => Owned(id[u])'
      <4>1. u # t /\ pc'[u] = pc[u] /\ id'[u] = id[u] /\ Opening(u) BY <2>b, <3>1 DEF Opening
      <4>2. id[u] # id[t] /\ id[u] \in IDs BY <2>c, <4>1 DEF Openers, Opening, OnStream
      <4>3. \A v \in Threads : Opening(v)' => Opening(v) /\ id'[v] = id[v] BY <2>b DEF Opening
      <4>4. pc[u] # "removeStream" => Owned(id[u]) BY <4>1 DEF Openers
      <4>5. pc'[u] # "removeStream" => Owned(id[u])' BY <2>3, <4>1, <4>2, <4>4 DEF Owned
      <4>6. id'[u] \notin held' BY <2>b, <4>1, <4>2 DEF Openers
      <4> QED BY <2>b, <4>1, <4>3, <4>5, <4>6 DEF Openers
    <3>2. ASSUME pc'[Reader] = "writeOkay"
          PROVE  /\ id'[Reader] <= nextLocalID' /\ openCh'[id'[Reader]] = "nil" /\ Owned(id[Reader])'
                 /\ \A u \in Threads : Opening(u)' => id'[u] # id'[Reader]
      <4>1. pc[Reader] = "writeOkay" /\ id'[Reader] = id[Reader] /\ id[Reader] \in IDs
        BY <2>b, <3>2 DEF OnStream
      <4>3. \A v \in Threads : Opening(v)' => Opening(v) /\ id'[v] = id[v] BY <2>b DEF Opening
      <4>4. Owned(id[Reader])' BY <2>3, <4>1 DEF Owned, Openers
      <4> QED BY <2>b, <4>1, <4>3, <4>4 DEF Openers
    <3> QED BY <3>1, <3>2 DEF Openers
  <2>6. DeadReader' /\ ReaderLookup' BY <2>b DEF DeadReader, ReaderLookup
  <2> QED BY <2>1, <2>2, <2>4, <2>5, <2>6, <2>7
<1>5. CASE writeClse(t)
  <2>1. pc' = [pc EXCEPT ![t] = "closeStream"] /\ id' = [id EXCEPT ![t] = id[t]]
    BY <1>5, <1>a, Types DEF writeClse, Goto
  <2> QED BY <1>5, <1>a, <2>1, MoveInv DEF writeClse, noWrite, connVars, streamVars, appVars
<1>6. CASE writeData(t)
  BY <1>6, <1>a, MoveInv DEF writeData, Return, noWrite, connVars, streamVars, appVars
<1>8. CASE closeTransport(t)
  BY <1>8, <1>a, MoveInv DEF closeTransport, Return, connVars, streamVars, appVars
<1>9. CASE Closing(t) BY <1>9, <1>a, ClosingInv
<1>7. CASE handleOpenStart(t)
  BY <1>7, <1>a, StartInv DEF handleOpenStart, noData, noWrite, connVars, streamVars, appVars
<1> QED BY <1>1, <1>2, <1>3, <1>4, <1>5, <1>6, <1>7, <1>8, <1>9 DEF ThreadStep

\* Starting or cancelling a call keeps the invariant.
LEMMA ThreadCallInv == ASSUME IInv, TypeOK', NEW t \in Threads, ThreadCall(t) PROVE IInv'
<1>a. TypeOK /\ t \in Procs /\ t # Reader BY Types DEF IInv
<1>b. ASSUME NEW i, pc[t] \in {"idle", "awaitOpen"}, Close(t, i) PROVE IInv'
  <2>1. PICK label \in {"writeClse", "closeStream"} : Enter(t, label, i, "ErrClosedPipe")
    BY <1>b DEF Close
  <2> QED BY <1>a, <1>b, <2>1, MoveInv DEF Close, Enter, connVars, streamVars
<1>1. CASE OpenContext(t)
  BY <1>1, <1>a, StartInv DEF OpenContext, connVars, streamVars
<1>2. CASE openCanceled(t) BY <1>2, <1>b DEF openCanceled
<1>3. CASE StreamClose(t) BY <1>3, <1>b DEF StreamClose
<1>4. CASE Write(t)
  <2>1. PICK i \in held : Enter(t, "writeData", i, "nil") BY <1>4 DEF Write
  <2> QED BY <1>4, <1>a, <2>1, MoveInv DEF Write, Enter, connVars, streamVars
<1>5. CASE HandleOpen(t)
  <2>1. pc' = [pc EXCEPT ![t] = "handleOpen"] /\ id' = [id EXCEPT ![t] = id[t]]
    BY <1>5, <1>a, Types DEF HandleOpen, Goto
  <2> QED BY <1>5, <1>a, <2>1, MoveInv DEF HandleOpen, streamVars, appVars
<1>6. CASE RemoveOpenHandler(t)
  BY <1>6, IInvFrame DEF RemoveOpenHandler, invVars, streamVars, appVars, procVars
<1>7. CASE ConnectionClose(t)
  BY <1>7, <1>a, MoveInv DEF ConnectionClose, Enter, noData, noWrite, connVars, streamVars, appVars
<1> QED BY <1>1, <1>2, <1>3, <1>4, <1>5, <1>6, <1>7 DEF ThreadCall

\* readLoop and its handlers keep the invariant; a dying reader closes every
\* answered stream.
LEMMA ReaderInv == ASSUME IInv, TypeOK', ReaderStep PROVE IInv'
<1>a. TypeOK /\ Reader \in Procs BY Types DEF IInv
<1>b. pc[Reader] \notin {"closeAll", "closing", "fire", "stopped"} => ~readerErr BY DEF IInv, DeadReader
<1>1. CASE readMessage
  <2>1. id' = [id EXCEPT ![Reader] = id[Reader]] BY <1>1, <1>a, Types DEF readMessage
  <2> QED BY <1>1, <1>a, <2>1, MoveInv DEF readMessage, connVars, streamVars, appVars
<1>2. CASE readFailed
  <2>b. /\ pc[Reader] = "read" /\ readerErr' = TRUE
        /\ pc' = [pc EXCEPT ![Reader] = "closeAll"] /\ id' = [id EXCEPT ![Reader] = 0]
        /\ UNCHANGED <<streams, nextLocalID, closed, openCh, held, todo>>
    BY <1>2 DEF readFailed, Enter, streamVars, appVars
  <2> USE <1>a, Types DEF IInv
  <2>1. CloseOnce' /\ RegisteredOpen' /\ Fresh' BY <2>b DEF CloseOnce, RegisteredOpen, Fresh
  <2>2. OpenSignalled' /\ FireClosed' /\ TodoClosing' BY <2>b DEF OpenSignalled, FireClosed, TodoClosing
  <2>3. HeldOwned' BY <2>b DEF HeldOwned, Owned
  <2>4. Openers' BY <2>b DEF Openers, Opening, Owned
  <2>5. DeadReader' /\ ReaderLookup' BY <2>b DEF DeadReader, ReaderLookup
  <2> QED BY <2>1, <2>2, <2>3, <2>4, <2>5
<1>3. CASE streamByLocalID
  <2>0. ASSUME NEW i \in streams PROVE i <= nextLocalID
    <3>1. i \in IDs /\ i \in Nat /\ nextLocalID \in Nat BY <1>a, Types, IDsNat
    <3> QED BY <3>1 DEF IInv, Fresh
  <2>b. UNCHANGED <<streams, nextLocalID, readerErr, closed, openCh, held, todo>> /\ pc[Reader] = "handle"
    BY <1>3 DEF streamByLocalID, noData, noWrite, connVars, streamVars, appVars
  <2>1. CASE rmsg.arg1 \in streams
    <3>1. PICK label \in {"peerClose", "establish"} : Enter(Reader, label, rmsg.arg1, "nil")
      BY <1>3, <2>1 DEF streamByLocalID, HandlerOf
    <3> QED BY <1>a, <2>0, <2>b, <2>1, <3>1, MoveInv DEF Enter
  <2>2. CASE rmsg.arg1 \notin streams
    BY <1>3, <1>a, <2>b, <2>2, MoveInv DEF streamByLocalID, Return
  <2> QED BY <2>1, <2>2
<1>4. CASE establish
  <2>1. pc' = [pc EXCEPT ![Reader] = "established"] /\ id' = [id EXCEPT ![Reader] = id[Reader]]
    BY <1>4, <1>a, Types DEF establish, Goto
  <2>2. id[Reader] <= nextLocalID BY <1>4 DEF establish, IInv, ReaderLookup
  <2> QED BY <1>4, <1>a, <2>1, <2>2, MoveInv DEF establish, connVars, appVars
<1>5. CASE established
  <2>b. /\ pc[Reader] = "established" /\ ~readerErr
        /\ openCh' = [openCh EXCEPT ![id[Reader]] = IF @ = "empty" THEN "nil" ELSE @]
        /\ UNCHANGED <<streams, nextLocalID, readerErr, closed, held, todo>>
    BY <1>5, <1>b DEF established, openOnce, connVars, appVars
  <2>c. PICK label \in {"ack", "read"} : pc' = [pc EXCEPT ![Reader] = label]
    BY <1>5 DEF established, Goto, Return
  <2>d. \A p \in Procs \ {Reader} : id'[p] = id[p] BY <1>5, <1>a, Types DEF established, Goto, Return
  <2>e. id[Reader] \in IDs BY <2>b, <1>a, Types DEF OnStream
  <2>f. \A i \in IDs : openCh'[i] = "empty" => openCh[i] = "empty" BY <2>b, <1>a, Types
  <2>g. \A i \in IDs : openCh[i] = "nil" => openCh'[i] = "nil" BY <2>b, <1>a, Types
  <2> USE <1>a, Types DEF IInv
  <2>1. CloseOnce' /\ RegisteredOpen' BY <2>b DEF CloseOnce, RegisteredOpen
  <2>2. OpenSignalled' /\ FireClosed' /\ TodoClosing'
    BY <2>b, <2>c, <2>d, <2>f DEF OpenSignalled, FireClosed, TodoClosing
  <2>3. HeldOwned' BY <2>b, <2>g DEF HeldOwned, Owned
  <2>4. Openers' BY <2>b, <2>c, <2>d DEF Openers, Opening, Owned
  <2>5. DeadReader' /\ ReaderLookup' BY <2>b, <2>c DEF DeadReader, ReaderLookup
  <2>6. Fresh'
    <3>1. id[Reader] <= nextLocalID BY <2>b DEF ReaderLookup
    <3>2. ASSUME NEW i \in IDs, i > nextLocalID PROVE i # id[Reader] BY <2>e, <3>1, <3>2, IDsNat
    <3> QED BY <2>b, <3>2 DEF Fresh
  <2> QED BY <2>1, <2>2, <2>3, <2>4, <2>5, <2>6
<1>6. CASE acknowledge
  <2>1. pc' = [pc EXCEPT ![Reader] = "receive"] /\ id' = [id EXCEPT ![Reader] = id[Reader]]
    BY <1>6, <1>a, Types DEF acknowledge, Goto
  <2> QED BY <1>6, <1>a, <2>1, MoveInv DEF acknowledge, noWrite, connVars, streamVars, appVars
<1>7. CASE receive
  <2>1. CASE closed[id[Reader]]
    BY <1>7, <2>1, IInvFrame DEF receive, invVars, connVars, appVars
  <2>2. CASE ~closed[id[Reader]]
    BY <1>7, <1>a, <2>2, MoveInv DEF receive, Return, connVars, appVars
  <2> QED BY <2>1, <2>2
<1>8. CASE peerClose
  BY <1>8, <1>a, MoveInv DEF peerClose, Enter, noData, noWrite, connVars, streamVars, appVars
<1>9. CASE handlePeerOpen
  <2>1. id' = [id EXCEPT ![Reader] = id[Reader]] BY <1>9, <1>a, Types DEF handlePeerOpen, Goto
  <2>2. PICK label \in {"accept", "refuse"} : pc' = [pc EXCEPT ![Reader] = label]
    BY <1>9 DEF handlePeerOpen, Goto
  <2> QED BY <1>9, <1>a, <2>1, <2>2, MoveInv
            DEF handlePeerOpen, noData, noWrite, connVars, streamVars, appVars
<1>10. CASE refuse
  BY <1>10, <1>a, MoveInv DEF refuse, Return, noWrite, connVars, streamVars, appVars
<1>11. CASE newAcceptedStream BY <1>11, NewAcceptedInv
<1>12. CASE acceptOkay
  <2>b. /\ pc[Reader] = "writeOkay" /\ ~readerErr
        /\ held' \in {held, held \cup {id[Reader]}}
        /\ UNCHANGED <<streams, nextLocalID, readerErr, closed, openCh, todo>>
    BY <1>12, <1>b DEF acceptOkay, connVars, streamVars
  <2>c. PICK label \in {"read", "closeStream"} : pc' = [pc EXCEPT ![Reader] = label]
    BY <1>12 DEF acceptOkay, Enter, Return
  <2>d. \A p \in Procs \ {Reader} : id'[p] = id[p] BY <1>12, <1>a, Types DEF acceptOkay, Enter, Return
  <2> USE <1>a, Types DEF IInv
  <2>e. /\ id[Reader] \in IDs /\ id[Reader] <= nextLocalID /\ openCh[id[Reader]] = "nil"
        /\ Owned(id[Reader]) /\ \A t \in Threads : Opening(t) => id[t] # id[Reader]
    BY <2>b DEF Openers, OnStream
  <2>1. CloseOnce' /\ RegisteredOpen' BY <2>b DEF CloseOnce, RegisteredOpen
  <2>2. OpenSignalled' /\ FireClosed' /\ TodoClosing'
    BY <2>b, <2>c, <2>d DEF OpenSignalled, FireClosed, TodoClosing
  <2>3. HeldOwned' BY <2>b, <2>e DEF HeldOwned, Owned
  <2>4. Openers' BY <2>b, <2>c, <2>d, <2>e DEF Openers, Opening, Owned
  <2>5. DeadReader' /\ ReaderLookup' BY <2>b, <2>c DEF DeadReader, ReaderLookup
  <2>6. Fresh'
    <3>1. ASSUME NEW i \in IDs, i > nextLocalID PROVE i # id[Reader] BY <2>e, <3>1, IDsNat
    <3> QED BY <2>b, <3>1 DEF Fresh
  <2> QED BY <2>1, <2>2, <2>3, <2>4, <2>5, <2>6
<1>13. CASE Closing(Reader) BY <1>13, <1>a, ClosingInv
<1> QED BY <1>1, <1>2, <1>3, <1>4, <1>5, <1>6, <1>7, <1>8, <1>9, <1>10, <1>11, <1>12, <1>13 DEF ReaderStep

\* IInv is inductive: every step of every goroutine and of the device keeps
\* it.
LEMMA NextInv == ASSUME IInv, [Next]_vars PROVE IInv'
<1>a. TypeOK' BY NextType DEF IInv
<1>1. CASE ReaderStep BY <1>1, <1>a, ReaderInv
<1>2. ASSUME NEW t \in Threads, ThreadStep(t) \/ ThreadCall(t) PROVE IInv'
  BY <1>2, <1>a, ThreadStepInv, ThreadCallInv
<1>3. ASSUME NEW i \in IDs, Read(i) PROVE IInv'
  BY <1>3, <1>a, IInvFrame DEF Read, readBuf, readCheck, readChunk, readWake, readEnd, readFrame, invVars,
                               connVars, procVars
<1>4. CASE PeerStep
  BY <1>4, <1>a, IInvFrame DEF PeerStep, PeerReceives, PeerOpens, PeerLeaves, PeerWrites, PeerCloses,
                               hostFrame, invVars, connVars, streamVars, appVars, procVars
<1>5. CASE UNCHANGED vars
  BY <1>5, <1>a, IInvFrame DEF vars, invVars, connVars, streamVars, appVars, procVars
<1> QED BY <1>1, <1>2, <1>3, <1>4, <1>5 DEF Next

\* The ownership discipline of stream.go holds in every reachable state, for
\* any number of goroutines, streams and packets.
THEOREM InductiveInvariant == Spec => []IInv
<1>1. Init => IInv BY InitInv
<1>2. IInv /\ [Next]_vars => IInv' BY NextInv
<1> QED BY <1>1, <1>2, PTL DEF Spec

\* For any number of goroutines and streams, close(s.dataCh) runs at most once
\* per stream: stream.go:193 never finds the stream already closed.
THEOREM ClosedAtMostOnce == Spec => []CloseOnce
<1>1. IInv => CloseOnce BY DEF IInv
<1> QED BY <1>1, InductiveInvariant, PTL

\* Closing a stream never loses the wakeup of the OpenContext that waits for it.
THEOREM NoLostWakeup == Spec => []OpenSignalled
<1>1. IInv => OpenSignalled BY DEF IInv
<1> QED BY <1>1, InductiveInvariant, PTL

\* When readLoop has returned, every stream the program holds is closed or is
\* being closed by a goroutine inside Close.
THEOREM NoOrphanAfterReader == Spec => []DeadReaderClosesHeld
<1>1. IInv => DeadReaderClosesHeld
  BY DEF IInv, HeldOwned, DeadReader, DeadReaderClosesHeld, Owned
<1> QED BY <1>1, InductiveInvariant, PTL

-----------------------------------------------------------------------------
(* The two ends of a stream and the packets between them.                  *)

\* Where the reader has a packet in hand, and where it works on a stream it has
\* found in the map.
Handling == {"handle", "establish", "established", "ack", "receive", "peerClose", "accept", "refuse", "writeOkay"}
OnFound == {"establish", "established", "ack", "receive", "peerClose"}

\* No stream of the device is joined to i.
Unknown(i) == \A q \in IDs : peerHost[q] # i

\* OPEN packets on their way.
Asked(i) == \E k \in 1 .. Len(toPeer) : toPeer[k].cmd = "OPEN" /\ toPeer[k].arg0 = i
Offered(q) == \E k \in 1 .. Len(toHost) : toHost[k].cmd = "OPEN" /\ toHost[k].arg0 = q

\* A stream the device was asked for and has not accepted.
Unjoined(i) == remoteID[i] = 0 /\ Unknown(i)
\* A stream the device has opened and the host has not accepted.
Unaccepted(q) == peerHost[q] = 0 /\ \A j \in IDs : remoteID[j] # q

\* What a packet to the host says is so.
ToHost(m) ==
    /\ m.cmd \in {"OKAY", "WRTE"} => m.arg0 \in IDs /\ m.arg1 \in IDs /\ peerHost[m.arg0] = m.arg1
    /\ m.cmd = "CLSE" =>
         /\ m.arg1 \in IDs
         /\ IF m.arg0 = 0 THEN Unjoined(m.arg1) /\ ~Asked(m.arg1) /\ m.arg1 <= nextLocalID
                               /\ \A t \in Threads : pc[t] = "writeOpen" => id[t] # m.arg1
            ELSE peerHost[m.arg0] = m.arg1 /\ peerState[m.arg0] = "closed"
    /\ m.cmd = "OPEN" => m.arg0 \in IDs /\ m.arg0 <= peerNext

\* What a packet to the device says is so.
ToPeer(m) ==
    /\ m.cmd = "OPEN" => m.arg0 \in IDs /\ m.arg0 <= nextLocalID /\ Unjoined(m.arg0)
    /\ m.cmd \in {"OKAY", "WRTE"} => m.arg0 \in IDs /\ m.arg1 \in IDs /\ remoteID[m.arg0] = m.arg1
    /\ m.cmd = "CLSE" => m.arg1 \in IDs /\ m.arg1 <= peerNext

\* Every packet in flight, and the one the reader has in hand, says what is so.
HostPackets ==
    /\ \A k \in 1 .. Len(toHost) : ToHost(toHost[k])
    /\ pc[Reader] \in Handling => ToHost(rmsg)
PeerPackets == \A k \in 1 .. Len(toPeer) : ToPeer(toPeer[k])

\* The device's table: ids are allotted in order, and a joined stream is joined to one.
PeerSide ==
    \A q \in IDs :
      /\ q > peerNext => peerState[q] = "free" /\ peerHost[q] = 0
      /\ q <= peerNext => peerState[q] # "free"
      /\ peerState[q] = "opening" => peerHost[q] = 0
      /\ peerState[q] = "open" => peerHost[q] # 0
      /\ peerHost[q] # 0 => /\ peerHost[q] <= nextLocalID /\ remoteID[peerHost[q]] \in {0, q}
                            /\ \A r \in IDs : peerHost[r] = peerHost[q] => r = q
\* The host's table: a stream that knows the device's id is the only one that does.
HostSide ==
    \A i \in IDs :
      /\ i > nextLocalID => remoteID[i] = 0
      /\ remoteID[i] # 0 => /\ remoteID[i] <= peerNext /\ peerHost[remoteID[i]] \in {0, i}
                            /\ \A j \in IDs : remoteID[j] = remoteID[i] => j = i
      /\ openCh[i] = "nil" => remoteID[i] # 0

\* Each side asks for a stream once.
AskedOnce ==
    /\ \A k, l \in 1 .. Len(toPeer) :
         toPeer[k].cmd = "OPEN" /\ toPeer[l].cmd = "OPEN" /\ toPeer[k].arg0 = toPeer[l].arg0 => k = l
    /\ \A t \in Threads : pc[t] = "writeOpen" => Unjoined(id[t]) /\ ~Asked(id[t])
OfferedOnce ==
    /\ \A k, l \in 1 .. Len(toHost) :
         toHost[k].cmd = "OPEN" /\ toHost[l].cmd = "OPEN" /\ toHost[k].arg0 = toHost[l].arg0 => k = l
    /\ \A q \in IDs : Offered(q) => Unaccepted(q)
    /\ pc[Reader] \in {"handle", "accept", "refuse"} /\ rmsg.cmd = "OPEN" => Unaccepted(rmsg.arg0) /\ ~Offered(rmsg.arg0)

\* Where the reader is tells what it has in hand and what the stream knows.
ReaderAt ==
    /\ pc[Reader] \in OnFound => id[Reader] = rmsg.arg1
    /\ pc[Reader] \in {"establish", "established"} => rmsg.cmd \in {"OKAY", "WRTE"}
    /\ pc[Reader] \in {"ack", "receive"} => rmsg.cmd = "WRTE"
    /\ pc[Reader] \in {"established", "ack", "receive"} => remoteID[id[Reader]] # 0
    /\ pc[Reader] = "peerClose" => rmsg.cmd = "CLSE"
    /\ pc[Reader] \in {"accept", "refuse", "writeOkay"} => rmsg.cmd = "OPEN"
    /\ pc[Reader] = "writeOkay" => remoteID[id[Reader]] = rmsg.arg0

\* Who writes to the device, or closes cleanly, knows its stream.
Joined ==
    /\ \A t \in Threads : pc[t] \in {"writeClse", "writeData"} => remoteID[id[t]] # 0
    /\ \A p \in Procs : cause[p] = "nil" =>
         /\ pc[p] \notin {"closeAll", "writeClse"}
         /\ pc[p] = "closeStream" => p = Reader
         /\ pc[p] \in {"closeStream", "fire"} => remoteID[id[p]] # 0
         /\ \A i \in todo[p] : remoteID[i] # 0

\* The link invariant, inductive relative to IInv.
LInv == HostPackets /\ PeerPackets /\ PeerSide /\ HostSide /\ AskedOnce /\ OfferedOnce /\ ReaderAt /\ Joined

-----------------------------------------------------------------------------
(* What the proofs below use of types and sequences.                       *)

\* The types the proofs below rest on.
LEMMA LinkTypes ==
    ASSUME TypeOK
    PROVE  /\ toHost \in Seq(Messages) /\ toPeer \in Seq(Messages) /\ rmsg \in Messages
           /\ remoteID \in [IDs -> IDs \cup {0}] /\ openCh \in [IDs -> Errors \cup {"empty"}]
           /\ peerHost \in [IDs -> IDs \cup {0}] /\ peerNext \in Nat /\ nextLocalID \in Nat
           /\ peerState \in [IDs -> {"free", "opening", "open", "closed"}]
           /\ pc \in [Procs -> Labels] /\ id \in [Procs -> IDs \cup {0}] /\ cause \in [Procs -> Errors]
           /\ todo \in [Procs -> SUBSET IDs]
           /\ Reader \in Procs /\ Threads \subseteq Procs /\ Reader \notin Threads
           /\ \A p \in Procs : pc[p] \in OnStream => id[p] \in IDs
           /\ IDs \subseteq Nat /\ 0 \notin IDs
  BY ConnectionAssumption, IDsNat DEF TypeOK, ConnType, WireType, StreamType, ProcType, PeerType, Procs

\* The fields of a packet.
LEMMA MessageFields ==
    ASSUME NEW m \in Messages
    PROVE  m.cmd \in Commands /\ m.arg0 \in IDs \cup {0} /\ m.arg1 \in IDs \cup {0} /\ m.data \in Seq(Nat)
  BY DEF Messages

\* The fields of a packet in flight.
LEMMA PacketFields ==
    ASSUME NEW s \in Seq(Messages), NEW k \in 1 .. Len(s)
    PROVE  /\ s[k] \in Messages /\ s[k].cmd \in Commands /\ s[k].arg0 \in IDs \cup {0}
           /\ s[k].arg1 \in IDs \cup {0} /\ s[k].data \in Seq(Nat)
  BY MessageFields

\* The packets of a wire that took one more.
LEMMA Appended ==
    ASSUME NEW s \in Seq(Messages), NEW m \in Messages
    PROVE  /\ Len(s) \in Nat /\ Len(Append(s, m)) = Len(s) + 1 /\ Append(s, m)[Len(s) + 1] = m
           /\ \A k \in 1 .. Len(s) : Append(s, m)[k] = s[k]
           /\ \A k \in 1 .. Len(Append(s, m)) : k \in 1 .. Len(s) \/ k = Len(s) + 1
  OBVIOUS

\* The packets of a wire that lost its first.
LEMMA Taken ==
    ASSUME NEW s \in Seq(Messages), s # <<>>
    PROVE  /\ Len(s) \in Nat /\ Len(Tail(s)) = Len(s) - 1 /\ 1 \in 1 .. Len(s) /\ Head(s) = s[1]
           /\ Head(s) \in Messages /\ Tail(s) \in Seq(Messages)
           /\ \A k \in 1 .. Len(Tail(s)) : k + 1 \in 1 .. Len(s) /\ Tail(s)[k] = s[k + 1] /\ k + 1 # 1 /\ 1 < k + 1 /\ k \in Nat
  OBVIOUS

\* A new connection has no packet in flight and no stream joined.
THEOREM InitLink == Init => LInv
<1> SUFFICES ASSUME Init PROVE LInv OBVIOUS
<1>t. TypeOK BY InitType
<1> USE LinkTypes, <1>t
<1>0. Len(toHost) = 0 /\ Len(toPeer) = 0 /\ pc[Reader] = "off" /\ \A t \in Threads : pc[t] = "idle"
  BY DEF Init
<1>1. HostPackets /\ PeerPackets BY <1>0 DEF HostPackets, PeerPackets, Handling
<1>2. PeerSide BY <1>0 DEF PeerSide, Init
<1>3. HostSide BY <1>0 DEF HostSide, Init
<1>4. AskedOnce /\ OfferedOnce BY <1>0 DEF AskedOnce, OfferedOnce, Offered
<1>5. ReaderAt BY <1>0 DEF ReaderAt, OnFound
<1>6. Joined BY <1>0 DEF Joined, Init
<1> QED BY <1>1, <1>2, <1>3, <1>4, <1>5, <1>6 DEF LInv

\* Steps that move goroutines and write no OPEN: joined streams stay joined.
LEMMA QuietLink ==
    ASSUME TypeOK, LInv, ReaderAt', Joined',
           UNCHANGED <<remoteID, nextLocalID, toHost, peerNext, peerState, peerHost>>,
           \/ toPeer' = toPeer
           \/ \E m \in Messages : toPeer' = Append(toPeer, m) /\ m.cmd # "OPEN" /\ ToPeer(m),
           \A t \in Threads : pc'[t] = "writeOpen" => pc[t] = "writeOpen" /\ id'[t] = id[t],
           \A i \in IDs : openCh'[i] = "nil" => remoteID[i] # 0,
           pc'[Reader] \in Handling => pc[Reader] \in Handling /\ rmsg' = rmsg,
           pc'[Reader] \in {"handle", "accept", "refuse"} => pc[Reader] \in {"handle", "accept", "refuse"}
    PROVE  LInv'
<1> USE LinkTypes DEF LInv
<1>1. \A i : Asked(i)' <=> Asked(i)
  <2>1. CASE toPeer' = toPeer BY <2>1 DEF Asked
  <2>2. ASSUME NEW m \in Messages, toPeer' = Append(toPeer, m), m.cmd # "OPEN" PROVE \A i : Asked(i)' <=> Asked(i)
    BY <2>2, Appended DEF Asked
  <2> QED BY <2>1, <2>2
<1>2. \A i : (Offered(i)' <=> Offered(i)) /\ (Unjoined(i)' <=> Unjoined(i)) /\ (Unaccepted(i)' <=> Unaccepted(i))
  BY DEF Offered, Unjoined, Unknown, Unaccepted
<1>3. \A m : ToHost(m) => ToHost(m)'
  BY <1>1, <1>2 DEF ToHost
<1>4. \A m : ToPeer(m) => ToPeer(m)' BY <1>2 DEF ToPeer
<1>5. HostPackets' BY <1>3 DEF HostPackets
<1>6. PeerPackets'
  <2>1. CASE toPeer' = toPeer BY <1>4, <2>1 DEF PeerPackets
  <2>2. ASSUME NEW m \in Messages, toPeer' = Append(toPeer, m), ToPeer(m) PROVE PeerPackets'
    BY <1>4, <2>2, Appended DEF PeerPackets
  <2> QED BY <2>1, <2>2
<1>7. PeerSide' BY DEF PeerSide
<1>8. HostSide' BY DEF HostSide
<1>9. AskedOnce'
  <2>0. \A t \in Threads : pc'[t] = "writeOpen" => (Unjoined(id[t]) /\ ~Asked(id[t]))' BY <1>1, <1>2 DEF AskedOnce
  <2>1. CASE toPeer' = toPeer BY <2>0, <2>1 DEF AskedOnce
  <2>2. ASSUME NEW m \in Messages, toPeer' = Append(toPeer, m), m.cmd # "OPEN" PROVE AskedOnce'
    BY <2>0, <2>2, Appended DEF AskedOnce
  <2> QED BY <2>1, <2>2
<1>10. OfferedOnce'
  <2>1. pc'[Reader] \in {"handle", "accept", "refuse"} => rmsg' = rmsg BY DEF Handling
  <2> QED BY <1>2, <2>1 DEF OfferedOnce
<1> QED BY <1>5, <1>6, <1>7, <1>8, <1>9, <1>10

\* A goroutine moves out of the reader's handlers, or anywhere but into OpenContext.
LEMMA MoveLink ==
    ASSUME TypeOK, LInv, NEW p \in Procs, NEW label, NEW i, NEW e,
           pc' = [pc EXCEPT ![p] = label], id' = [id EXCEPT ![p] = i], cause' = [cause EXCEPT ![p] = e],
           label # "writeOpen", p = Reader => label \notin Handling, p # Reader => rmsg' = rmsg,
           UNCHANGED <<remoteID, nextLocalID, toHost, peerNext, peerState, peerHost>>,
           \/ toPeer' = toPeer
           \/ \E m \in Messages : toPeer' = Append(toPeer, m) /\ m.cmd # "OPEN" /\ ToPeer(m),
           \A j \in IDs : openCh'[j] = "nil" => remoteID[j] # 0,
           \A q \in Procs \ {p} : todo'[q] = todo[q],
           p # Reader /\ label \in {"writeClse", "writeData"} => remoteID[i] # 0,
           e = "nil" => /\ label \notin {"closeAll", "writeClse"} /\ (label = "closeStream" => p = Reader)
                        /\ label \in {"closeStream", "fire"} => remoteID[i] # 0
                        /\ \A j \in todo'[p] : remoteID[j] # 0
    PROVE  LInv'
<1> USE LinkTypes DEF LInv
<1>1. ReaderAt'
  <2>1. CASE p = Reader BY <2>1 DEF ReaderAt, Handling, OnFound
  <2>2. CASE p # Reader
    <3>1. pc'[Reader] = pc[Reader] /\ id'[Reader] = id[Reader] /\ rmsg' = rmsg BY <2>2
    <3> QED BY <3>1 DEF ReaderAt
  <2> QED BY <2>1, <2>2
<1>2. Joined'
  <2>1. \A q \in Procs \ {p} : pc'[q] = pc[q] /\ id'[q] = id[q] /\ cause'[q] = cause[q] /\ todo'[q] = todo[q] OBVIOUS
  <2>2. pc'[p] = label /\ id'[p] = i /\ cause'[p] = e OBVIOUS
  <2>3. ASSUME NEW t \in Threads, pc'[t] \in {"writeClse", "writeData"} PROVE remoteID'[id'[t]] # 0
    BY <2>1, <2>2, <2>3 DEF Joined
  <2>4. ASSUME NEW q \in Procs, cause'[q] = "nil"
        PROVE  /\ pc'[q] \notin {"closeAll", "writeClse"}
               /\ pc'[q] = "closeStream" => q = Reader
               /\ pc'[q] \in {"closeStream", "fire"} => remoteID'[id'[q]] # 0
               /\ \A j \in todo'[q] : remoteID'[j] # 0
    BY <2>1, <2>2, <2>4 DEF Joined
  <2> QED BY <2>3, <2>4 DEF Joined
<1>3. \A t \in Threads : pc'[t] = "writeOpen" => pc[t] = "writeOpen" /\ id'[t] = id[t] OBVIOUS
<1>4. pc'[Reader] \in Handling => pc[Reader] \in Handling /\ rmsg' = rmsg OBVIOUS
<1>5. pc'[Reader] \in {"handle", "accept", "refuse"} => pc[Reader] \in {"handle", "accept", "refuse"}
  BY DEF Handling
<1> QED BY <1>1, <1>2, <1>3, <1>4, <1>5, QuietLink

\* openOnce keeps the answers of other streams.
LEMMA AnswersKept ==
    ASSUME TypeOK, LInv PROVE \A j \in IDs : openCh[j] = "nil" => remoteID[j] # 0
  BY DEF LInv, HostSide

\* closeStream, closeAllStreams and closeWithError: who closes with a clean end has
\* joined the stream.
LEMMA ClosingLink == ASSUME IInv, LInv, NEW p \in Procs, Closing(p) PROVE LInv'
<1>a. TypeOK /\ Joined BY DEF IInv, LInv
<1> USE <1>a, LinkTypes, AnswersKept
<1>1. ASSUME NEW set, Detach(p, set), pc[p] \in {"closeStream", "closeAll"},
             cause[p] = "nil" => \A j \in set : remoteID[j] # 0
      PROVE  LInv'
  <2>1. /\ pc' = [pc EXCEPT ![p] = "closing"] /\ id' = [id EXCEPT ![p] = id[p]]
        /\ cause' = [cause EXCEPT ![p] = cause[p]] /\ rmsg' = rmsg /\ todo' = [todo EXCEPT ![p] = set]
        /\ UNCHANGED <<remoteID, nextLocalID, toHost, toPeer, peerNext, peerState, peerHost, openCh>>
    BY <1>1 DEF Detach, Goto, wireVars, streamVars, peerVars
  <2>2. todo'[p] = set /\ \A q \in Procs \ {p} : todo'[q] = todo[q] BY <2>1
  <2> QED BY <1>1, <2>1, <2>2, MoveLink DEF Handling
<1>2. CASE closeStream(p)
  <2>1. cause[p] = "nil" => remoteID[id[p]] # 0 BY <1>2 DEF closeStream, Joined
  <2> QED BY <1>1, <1>2, <2>1 DEF closeStream
<1>3. CASE closeAllStreams(p)
  <2>1. cause[p] # "nil" BY <1>3 DEF closeAllStreams, Joined
  <2> QED BY <1>1, <1>3, <2>1 DEF closeAllStreams
<1>4. CASE closeWithError(p)
  <2>1. PICK j \in todo[p] : closeWithError(p)!2!(j) BY <1>4 DEF closeWithError
  <2>2. ~closed[j] BY DEF IInv, CloseOnce
  <2>3. /\ pc' = [pc EXCEPT ![p] = "fire"] /\ id' = [id EXCEPT ![p] = j]
        /\ cause' = [cause EXCEPT ![p] = cause[p]] /\ rmsg' = rmsg /\ todo' = [todo EXCEPT ![p] = @ \ {j}]
        /\ UNCHANGED <<remoteID, nextLocalID, toHost, toPeer, peerNext, peerState, peerHost, openCh>>
    BY <1>4, <2>1, <2>2 DEF closeWithError, Enter, connVars, wireVars, peerVars
  <2>4. todo'[p] = todo[p] \ {j} /\ \A q \in Procs \ {p} : todo'[q] = todo[q] BY <2>3
  <2>5. cause[p] = "nil" => remoteID[j] # 0 /\ \A k \in todo'[p] : remoteID[k] # 0 BY <2>4 DEF Joined
  <2> QED BY <2>3, <2>4, <2>5, MoveLink DEF Handling
<1>5. CASE fireOpen(p)
  <2>1. /\ pc' = [pc EXCEPT ![p] = "closing"] /\ id' = [id EXCEPT ![p] = id[p]] /\ pc[p] = "fire"
        /\ cause' = [cause EXCEPT ![p] = cause[p]] /\ rmsg' = rmsg /\ todo' = todo
        /\ UNCHANGED <<remoteID, nextLocalID, toHost, toPeer, peerNext, peerState, peerHost>>
        /\ openCh' = [openCh EXCEPT ![id[p]] = IF @ = "empty" THEN cause[p] ELSE @]
    BY <1>5 DEF fireOpen, openOnce, Goto, connVars, wireVars, peerVars
  <2>2. cause[p] = "nil" => remoteID[id[p]] # 0 /\ \A k \in todo[p] : remoteID[k] # 0 BY <2>1 DEF Joined
  <2>3. \A j \in IDs : openCh'[j] = "nil" => remoteID[j] # 0 BY <2>1, <2>2
  <2> QED BY <2>1, <2>2, <2>3, MoveLink DEF Handling
<1>6. CASE closeReturn(p)
  <2>1. /\ pc' = [pc EXCEPT ![p] = AfterClose(p)] /\ id' = [id EXCEPT ![p] = 0] /\ todo[p] = {}
        /\ cause' = [cause EXCEPT ![p] = "nil"] /\ (p # Reader => rmsg' = rmsg) /\ todo' = todo
        /\ UNCHANGED <<remoteID, nextLocalID, toHost, toPeer, peerNext, peerState, peerHost, openCh>>
    BY <1>6 DEF closeReturn, Return, noData, noWrite, connVars, wireVars, streamVars, peerVars
  <2>2. AfterClose(p) \in {"stopped", "read", "closeTransport", "idle"} BY DEF AfterClose
  <2> QED BY <2>1, <2>2, MoveLink DEF Handling
<1> QED BY <1>2, <1>3, <1>4, <1>5, <1>6 DEF Closing

\* newStreamLocked allots an id nobody has heard of.
LEMMA NewStreamLink == ASSUME IInv, LInv, NEW t \in Threads, newStream(t) PROVE LInv'
<1>a. TypeOK BY DEF IInv
<1> USE <1>a, LinkTypes DEF LInv
<1>n. PICK n \in IDs : n = nextLocalID + 1 /\ n > nextLocalID BY DEF newStream, newStreamLocked
<1>b. /\ nextLocalID' = n /\ pc[t] = "newStream" /\ remoteID' = [remoteID EXCEPT ![n] = 0]
      /\ pc' = [pc EXCEPT ![t] = "writeOpen"] /\ id' = [id EXCEPT ![t] = n]
      /\ cause' = [cause EXCEPT ![t] = "nil"] /\ rmsg' = rmsg /\ todo' = todo
      /\ UNCHANGED <<toHost, toPeer, peerNext, peerState, peerHost, openCh>>
  BY <1>n DEF newStream, newStreamLocked, Enter, wireVars, peerVars
<1>c. remoteID' = remoteID BY <1>n, <1>b DEF HostSide
<1>l. \A x \in IDs : x <= nextLocalID => x <= nextLocalID' /\ x # n BY <1>n, <1>b
<1>r. pc'[Reader] = pc[Reader] /\ id'[Reader] = id[Reader] BY <1>b
<1>1. Unjoined(n) /\ ~Asked(n)
  <2>1. remoteID[n] = 0 BY <1>n DEF HostSide
  <2>2. \A q \in IDs : peerHost[q] # n BY <1>n DEF PeerSide
  <2>3. ~Asked(n) BY <1>n DEF Asked, PeerPackets, ToPeer
  <2> QED BY <2>1, <2>2, <2>3 DEF Unjoined, Unknown
<1>2. \A i : /\ Asked(i)' <=> Asked(i)
             /\ Unjoined(i)' <=> Unjoined(i)
             /\ Unaccepted(i)' <=> Unaccepted(i)
             /\ Offered(i)' <=> Offered(i)
  BY <1>b, <1>c DEF Asked, Unjoined, Unknown, Unaccepted, Offered
<1>3. \A m \in Messages : ToHost(m) => ToHost(m)'
  <2> SUFFICES ASSUME NEW m \in Messages, ToHost(m) PROVE ToHost(m)' OBVIOUS
  <2>1. m.arg0 \in IDs \cup {0} /\ m.arg1 \in IDs \cup {0} BY MessageFields
  <2>2. m.cmd = "CLSE" /\ m.arg0 = 0 => m.arg1 # n /\ m.arg1 <= nextLocalID' BY <1>l, <2>1 DEF ToHost
  <2>3. m.cmd = "CLSE" /\ m.arg0 = 0 => \A u \in Threads : pc'[u] = "writeOpen" => id'[u] # m.arg1
    BY <1>b, <2>2 DEF ToHost
  <2> QED BY <1>b, <1>2, <2>1, <2>2, <2>3 DEF ToHost
<1>4. \A m \in Messages : ToPeer(m) => ToPeer(m)' BY <1>l, <1>b, <1>c, <1>2 DEF ToPeer
<1>5. HostPackets' BY <1>b, <1>3, <1>r DEF HostPackets
<1>6. PeerPackets' BY <1>b, <1>4 DEF PeerPackets
<1>7. PeerSide' BY <1>l, <1>b, <1>c DEF PeerSide
<1>8. HostSide' BY <1>n, <1>b, <1>c DEF HostSide
<1>9. AskedOnce' BY <1>b, <1>1, <1>2 DEF AskedOnce
<1>10. OfferedOnce' BY <1>b, <1>2, <1>r DEF OfferedOnce
<1>11. ReaderAt' BY <1>b, <1>c, <1>r DEF ReaderAt
<1>12. Joined'
  <2>1. todo[t] = {} BY <1>b DEF IInv, TodoClosing
  <2> QED BY <1>b, <1>c, <2>1 DEF Joined
<1> QED BY <1>5, <1>6, <1>7, <1>8, <1>9, <1>10, <1>11, <1>12

\* OpenContext writes the one OPEN of its stream, or gives up.
LEMMA WriteOpenLink == ASSUME IInv, LInv, NEW t \in Threads, writeOpen(t) PROVE LInv'
<1>a. TypeOK BY DEF IInv
<1> USE <1>a, LinkTypes DEF LInv
<1>b. /\ pc[t] = "writeOpen" /\ id' = id /\ cause' = cause /\ rmsg' = rmsg /\ todo' = todo
      /\ UNCHANGED <<toHost, remoteID, nextLocalID, peerNext, peerState, peerHost, openCh>>
  BY DEF writeOpen, Goto, writeMessage, noWrite, connVars, streamVars, peerVars
<1>c. PICK label \in {"awaitOpen", "removeStream"} : pc' = [pc EXCEPT ![t] = label] BY DEF writeOpen, Goto
<1>d. PICK o \in IDs : o = id[t] BY <1>b DEF OnStream
<1>m. PICK m \in Messages : m = Message("OPEN", o, 0, <<>>) BY ControlMessage
<1>e. m.cmd = "OPEN" /\ m.arg0 = o BY <1>m DEF Message
<1>f. toPeer' = toPeer \/ toPeer' = Append(toPeer, m) BY <1>d, <1>m DEF writeOpen, writeMessage
<1>r. pc'[Reader] = pc[Reader] /\ id'[Reader] = id[Reader] BY <1>b, <1>c
<1>g. Unjoined(o) /\ ~Asked(o) /\ o <= nextLocalID
  BY <1>b, <1>d DEF AskedOnce, IInv, Openers, Opening
<1>2. \A i : /\ Unjoined(i)' <=> Unjoined(i)
             /\ Unaccepted(i)' <=> Unaccepted(i)
             /\ Offered(i)' <=> Offered(i)
  BY <1>b DEF Unjoined, Unknown, Unaccepted, Offered
<1>h. \A i : Asked(i)' => Asked(i) \/ i = o
  <2>1. CASE toPeer' = toPeer BY <2>1 DEF Asked
  <2>2. CASE toPeer' = Append(toPeer, m) BY <1>e, <2>2, Appended DEF Asked
  <2> QED BY <1>f, <2>1, <2>2
<1>3. \A k \in Messages : ToHost(k) => ToHost(k)'
  <2> SUFFICES ASSUME NEW k \in Messages, ToHost(k) PROVE ToHost(k)' OBVIOUS
  <2>2. k.cmd = "CLSE" /\ k.arg0 = 0 => ~Asked(k.arg1)' BY <1>b, <1>d, <1>h DEF ToHost
  <2>3. k.cmd = "CLSE" /\ k.arg0 = 0 => \A u \in Threads : pc'[u] = "writeOpen" => id'[u] # k.arg1
    BY <1>b, <1>c DEF ToHost
  <2> QED BY <1>b, <1>2, <2>2, <2>3 DEF ToHost
<1>4. \A k \in Messages : ToPeer(k) => ToPeer(k)' BY <1>b, <1>2 DEF ToPeer
<1>5. HostPackets' BY <1>b, <1>3, <1>r DEF HostPackets
<1>6. PeerPackets'
  <2>1. CASE toPeer' = toPeer BY <1>4, <2>1 DEF PeerPackets
  <2>2. CASE toPeer' = Append(toPeer, m)
    <3>1. ToPeer(m)' BY <1>b, <1>e, <1>g, <1>2 DEF ToPeer
    <3> QED BY <1>4, <2>2, <3>1, Appended DEF PeerPackets
  <2> QED BY <1>f, <2>1, <2>2
<1>7. PeerSide' /\ HostSide' BY <1>b DEF PeerSide, HostSide
<1>9. AskedOnce'
  <2>1. \A u \in Threads : pc'[u] = "writeOpen" => u # t /\ pc[u] = "writeOpen" /\ id'[u] # o /\ id'[u] = id[u]
    BY <1>b, <1>c, <1>d DEF IInv, Openers, Opening
  <2>2. \A u \in Threads : pc'[u] = "writeOpen" => (Unjoined(id[u]) /\ ~Asked(id[u]))'
    BY <1>2, <1>h, <2>1 DEF AskedOnce
  <2>3. CASE toPeer' = toPeer BY <2>2, <2>3 DEF AskedOnce
  <2>4. CASE toPeer' = Append(toPeer, m)
    <3>1. ASSUME NEW k \in 1 .. Len(toPeer'), NEW l \in 1 .. Len(toPeer'), toPeer'[k].cmd = "OPEN",
                 toPeer'[l].cmd = "OPEN", toPeer'[k].arg0 = toPeer'[l].arg0
          PROVE  k = l
      <4>1. CASE k \in 1 .. Len(toPeer) /\ l \in 1 .. Len(toPeer) BY <2>4, <3>1, <4>1, Appended DEF AskedOnce
      <4>2. CASE k \in 1 .. Len(toPeer) /\ l = Len(toPeer) + 1 BY <1>e, <1>g, <2>4, <3>1, <4>2, Appended DEF Asked
      <4>3. CASE k = Len(toPeer) + 1 /\ l \in 1 .. Len(toPeer) BY <1>e, <1>g, <2>4, <3>1, <4>3, Appended DEF Asked
      <4> QED BY <2>4, <4>1, <4>2, <4>3, Appended
    <3> QED BY <2>2, <3>1 DEF AskedOnce
  <2> QED BY <1>f, <2>3, <2>4
<1>10. OfferedOnce' BY <1>b, <1>2, <1>r DEF OfferedOnce
<1>11. ReaderAt' BY <1>b, <1>r DEF ReaderAt
<1>12. Joined' BY <1>b, <1>c DEF Joined
<1> QED BY <1>5, <1>6, <1>7, <1>9, <1>10, <1>11, <1>12

\* Starting the reader joins nothing.
LEMMA StartLink ==
    ASSUME TypeOK, LInv, NEW t \in Threads, NEW label \in {"newStream", "idle"}, startReader([pc EXCEPT ![t] = label]),
           UNCHANGED <<remoteID, openCh, nextLocalID, toHost, toPeer, todo, peerNext, peerState, peerHost>>
    PROVE  LInv'
<1> USE LinkTypes DEF LInv
<1>b. /\ pc'[t] = label /\ pc'[Reader] = IF pc[Reader] = "off" THEN "read" ELSE pc[Reader]
      /\ \A p \in Procs \ {t, Reader} : pc'[p] = pc[p]
      /\ id' = id /\ cause' = cause /\ rmsg' = rmsg
  BY DEF startReader
<1>1. ReaderAt' BY <1>b DEF ReaderAt, OnFound
<1>2. Joined'
  <2>1. \A p \in Procs : \A l \in {"writeClse", "writeData", "closeAll", "closeStream", "fire"} : pc'[p] = l => pc[p] = l
    BY <1>b
  <2> QED BY <1>b, <2>1 DEF Joined
<1>3. \A u \in Threads : pc'[u] = "writeOpen" => pc[u] = "writeOpen" /\ id'[u] = id[u] BY <1>b
<1> QED BY <1>b, <1>1, <1>2, <1>3, QuietLink, AnswersKept DEF Handling

\* The steps inside a call keep streams joined.
LEMMA ThreadStepLink == ASSUME IInv, LInv, NEW t \in Threads, ThreadStep(t) PROVE LInv'
<1>a. TypeOK /\ t \in Procs /\ t # Reader BY LinkTypes DEF IInv
<1> USE <1>a, LinkTypes, AnswersKept
<1>t. pc[t] \notin {"closing", "fire"} => todo[t] = {} BY DEF IInv, TodoClosing
<1>w. ASSUME NEW c \in {"CLSE", "WRTE"}, NEW ok \in BOOLEAN, pc[t] \in {"writeClse", "writeData"},
             writeMessage(Message(c, id[t], remoteID[id[t]], <<>>), ok)
      PROVE  /\ UNCHANGED toHost
             /\ \/ toPeer' = toPeer
                \/ \E m \in Messages : toPeer' = Append(toPeer, m) /\ m.cmd # "OPEN" /\ ToPeer(m)
  <2>1. id[t] \in IDs /\ remoteID[id[t]] # 0 /\ remoteID[id[t]] \in IDs BY <1>w DEF OnStream, LInv, Joined
  <2>m. PICK m \in Messages : m = Message(c, id[t], remoteID[id[t]], <<>>) BY <2>1, ControlMessage
  <2>2. ToPeer(m) /\ m.cmd # "OPEN" BY <2>1, <2>m DEF ToPeer, Message, LInv, HostSide
  <2> QED BY <1>w, <2>m, <2>2 DEF writeMessage
<1>1. CASE newStream(t) BY <1>1, NewStreamLink
<1>2. CASE writeOpen(t) BY <1>2, WriteOpenLink
<1>3. CASE removeStream(t)
  BY <1>3, <1>t, MoveLink DEF removeStream, Return, wireVars, streamVars, peerVars
<1>4. CASE openReturns(t)
  BY <1>4, <1>t, MoveLink DEF openReturns, Return, connVars, wireVars, streamVars, peerVars
<1>5. CASE writeClse(t)
  <2>0. PICK ok \in BOOLEAN : writeMessage(Message("CLSE", id[t], remoteID[id[t]], <<>>), ok)
    BY <1>5 DEF writeClse
  <2>1. /\ pc' = [pc EXCEPT ![t] = "closeStream"] /\ id' = [id EXCEPT ![t] = id[t]] /\ pc[t] = "writeClse"
        /\ cause' = [cause EXCEPT ![t] = cause[t]] /\ rmsg' = rmsg /\ todo' = todo
        /\ UNCHANGED <<remoteID, nextLocalID, peerNext, peerState, peerHost, openCh>>
    BY <1>5 DEF writeClse, Goto, noWrite, connVars, streamVars, peerVars
  <2>2. cause[t] # "nil" BY <2>1 DEF LInv, Joined
  <2> QED BY <1>w, <2>0, <2>1, <2>2, MoveLink
<1>6. CASE writeData(t)
  <2>0. PICK ok \in BOOLEAN : writeMessage(Message("WRTE", id[t], remoteID[id[t]], <<>>), ok)
    BY <1>6 DEF writeData
  <2>1. /\ pc' = [pc EXCEPT ![t] = "idle"] /\ id' = [id EXCEPT ![t] = 0] /\ pc[t] = "writeData"
        /\ cause' = [cause EXCEPT ![t] = "nil"] /\ rmsg' = rmsg /\ todo' = todo
        /\ UNCHANGED <<remoteID, nextLocalID, peerNext, peerState, peerHost, openCh>>
    BY <1>6 DEF writeData, Return, noWrite, connVars, streamVars, peerVars
  <2> QED BY <1>t, <1>w, <2>0, <2>1, MoveLink
<1>7. CASE handleOpenStart(t)
  BY <1>7, StartLink DEF handleOpenStart, noData, noWrite, connVars, wireVars, streamVars, peerVars
<1>8. CASE closeTransport(t)
  BY <1>8, <1>t, MoveLink DEF closeTransport, Return, connVars, streamVars, peerVars
<1>9. CASE Closing(t) BY <1>9, ClosingLink
<1> QED BY <1>1, <1>2, <1>3, <1>4, <1>5, <1>6, <1>7, <1>8, <1>9 DEF ThreadStep

\* So does starting or cancelling one.
LEMMA ThreadCallLink == ASSUME IInv, LInv, NEW t \in Threads, ThreadCall(t) PROVE LInv'
<1>a. TypeOK /\ t \in Procs /\ t # Reader /\ held \subseteq IDs BY LinkTypes, Types DEF IInv
<1> USE <1>a, LinkTypes, AnswersKept
<1>t. pc[t] \notin {"closing", "fire"} => todo[t] = {} BY DEF IInv, TodoClosing
<1>b. ASSUME NEW i \in IDs, pc[t] \in {"idle", "awaitOpen"}, Close(t, i) PROVE LInv'
  <2>1. PICK label \in {"writeClse", "closeStream"} :
          Enter(t, label, i, "ErrClosedPipe") /\ (label = "writeClse" => remoteID[i] # 0)
    BY <1>b DEF Close
  <2>2. /\ pc' = [pc EXCEPT ![t] = label] /\ id' = [id EXCEPT ![t] = i] /\ cause' = [cause EXCEPT ![t] = "ErrClosedPipe"]
        /\ UNCHANGED <<remoteID, nextLocalID, toHost, toPeer, peerNext, peerState, peerHost, openCh, rmsg, todo>>
    BY <1>b, <2>1 DEF Close, Enter, connVars, wireVars, streamVars, peerVars
  <2> QED BY <2>1, <2>2, MoveLink
<1>1. CASE OpenContext(t)
  BY <1>1, StartLink DEF OpenContext, connVars, wireVars, streamVars, peerVars
<1>2. CASE openCanceled(t) BY <1>2, <1>b DEF openCanceled, OnStream
<1>3. CASE StreamClose(t) BY <1>3, <1>b DEF StreamClose
<1>4. CASE Write(t)
  <2>1. PICK i \in held : Enter(t, "writeData", i, "nil") /\ remoteID[i] # 0 BY <1>4 DEF Write
  <2> QED BY <1>4, <1>t, <2>1, MoveLink DEF Write, Enter, connVars, wireVars, streamVars, peerVars
<1>5. CASE HandleOpen(t)
  <2>1. /\ pc' = [pc EXCEPT ![t] = "handleOpen"] /\ id' = [id EXCEPT ![t] = id[t]]
        /\ cause' = [cause EXCEPT ![t] = cause[t]] /\ rmsg' = rmsg /\ todo' = todo /\ pc[t] = "idle"
        /\ UNCHANGED <<remoteID, nextLocalID, toHost, toPeer, peerNext, peerState, peerHost, openCh>>
    BY <1>5 DEF HandleOpen, Goto, wireVars, streamVars, peerVars
  <2> QED BY <1>t, <2>1, MoveLink
<1>6. CASE RemoveOpenHandler(t)
  <2>1. UNCHANGED <<remoteID, nextLocalID, toHost, toPeer, peerNext, peerState, peerHost, openCh, pc, id, cause, rmsg, todo>>
    BY <1>6 DEF RemoveOpenHandler, wireVars, streamVars, procVars, peerVars
  <2>2. ReaderAt' /\ Joined' BY <2>1 DEF LInv, ReaderAt, Joined
  <2> QED BY <2>1, <2>2, QuietLink
<1>7. CASE ConnectionClose(t)
  BY <1>7, MoveLink DEF ConnectionClose, Enter, noData, noWrite, connVars, wireVars, streamVars, peerVars
<1> QED BY <1>1, <1>2, <1>3, <1>4, <1>5, <1>6, <1>7 DEF ThreadCall

\* The reader takes the first packet.
LEMMA ReadMessageLink == ASSUME TypeOK, LInv, readMessage PROVE LInv'
<1> USE LinkTypes DEF LInv
<1>b. /\ pc[Reader] = "read" /\ toHost # <<>> /\ rmsg' = Head(toHost) /\ toHost' = Tail(toHost)
      /\ pc' = [pc EXCEPT ![Reader] = "handle"]
      /\ UNCHANGED <<remoteID, nextLocalID, toPeer, peerNext, peerState, peerHost, openCh, id, cause, todo>>
  BY DEF readMessage, connVars, streamVars, peerVars
<1>t. /\ Head(toHost) = toHost[1] /\ 1 \in 1 .. Len(toHost) /\ Head(toHost) \in Messages
      /\ \A k \in 1 .. Len(toHost') : k + 1 \in 1 .. Len(toHost) /\ toHost'[k] = toHost[k + 1] /\ k + 1 # 1 /\ k \in Nat
  BY <1>b, Taken
<1>p. \A t \in Threads : pc'[t] = pc[t] BY <1>b
<1>2. \A i : (Asked(i)' <=> Asked(i)) /\ (Unjoined(i)' <=> Unjoined(i)) /\ (Unaccepted(i)' <=> Unaccepted(i))
  BY <1>b DEF Asked, Unjoined, Unknown, Unaccepted
<1>3. \A m : ToHost(m) => ToHost(m)' BY <1>b, <1>p, <1>2 DEF ToHost
<1>4. \A m : ToPeer(m) => ToPeer(m)' BY <1>b, <1>2 DEF ToPeer
<1>5. HostPackets' BY <1>b, <1>t, <1>3 DEF HostPackets
<1>6. PeerPackets' BY <1>b, <1>4 DEF PeerPackets
<1>7. PeerSide' /\ HostSide' BY <1>b DEF PeerSide, HostSide
<1>8. AskedOnce' BY <1>b, <1>p, <1>2 DEF AskedOnce
<1>9. OfferedOnce'
  <2>1. \A q : Offered(q)' => Offered(q) BY <1>t DEF Offered
  <2>2. ASSUME rmsg'.cmd = "OPEN" PROVE Unaccepted(rmsg.arg0)' /\ ~Offered(rmsg.arg0)'
    <3>1. Offered(rmsg'.arg0) /\ rmsg'.arg0 \in IDs BY <1>b, <1>t, <2>2 DEF Offered, HostPackets, ToHost
    <3>2. Unaccepted(rmsg'.arg0) BY <3>1 DEF OfferedOnce
    <3>3. ASSUME NEW k \in 1 .. Len(toHost'), toHost'[k].cmd = "OPEN", toHost'[k].arg0 = rmsg'.arg0 PROVE FALSE
      BY <1>b, <1>t, <2>2, <3>3 DEF OfferedOnce
    <3>4. Unaccepted(rmsg.arg0)' BY <1>b, <3>2 DEF Unaccepted
    <3> QED BY <3>3, <3>4 DEF Offered
  <2>3. ASSUME NEW k \in 1 .. Len(toHost'), NEW l \in 1 .. Len(toHost'), toHost'[k].cmd = "OPEN",
               toHost'[l].cmd = "OPEN", toHost'[k].arg0 = toHost'[l].arg0
        PROVE  k = l
    <3>1. k + 1 = l + 1 BY <1>t, <2>3 DEF OfferedOnce
    <3> QED BY <1>t, <3>1
  <2> QED BY <1>2, <2>1, <2>2, <2>3 DEF OfferedOnce
<1>10. ReaderAt' BY <1>b DEF ReaderAt, OnFound
<1>11. Joined' BY <1>b DEF Joined
<1> QED BY <1>5, <1>6, <1>7, <1>8, <1>9, <1>10, <1>11

\* The first OKAY or WRTE joins the stream to the one of the device that was opened for it.
LEMMA EstablishLink == ASSUME IInv, LInv, establish PROVE LInv'
<1>a. TypeOK BY DEF IInv
<1> USE <1>a, LinkTypes DEF LInv
<1>b. /\ pc[Reader] = "establish" /\ pc' = [pc EXCEPT ![Reader] = "established"]
      /\ remoteID' = [remoteID EXCEPT ![id[Reader]] = IF @ = 0 THEN rmsg.arg0 ELSE @]
      /\ UNCHANGED <<nextLocalID, toHost, toPeer, peerNext, peerState, peerHost, openCh, id, cause, todo, rmsg>>
  BY DEF establish, Goto, connVars, wireVars, peerVars
<1>i. PICK i \in IDs : i = id[Reader] BY <1>b DEF OnStream
<1>q. PICK q \in IDs : q = rmsg.arg0 /\ peerHost[q] = i /\ rmsg.cmd \in {"OKAY", "WRTE"} /\ rmsg.arg1 = i
  BY <1>b, <1>i DEF ReaderAt, OnFound, HostPackets, Handling, ToHost
<1>p. \A t \in Threads : pc'[t] = pc[t] BY <1>b
<1>r. remoteID[i] \in {0, q} /\ i <= nextLocalID /\ q <= peerNext /\ i # 0 /\ q # 0 BY <1>q DEF PeerSide
<1>c. remoteID' = [remoteID EXCEPT ![i] = q] BY <1>b, <1>i, <1>q, <1>r
<1>d. \A j \in IDs : remoteID'[j] = IF j = i THEN q ELSE remoteID[j] BY <1>c
<1>2. \A j \in IDs : Asked(j)' <=> Asked(j) BY <1>b DEF Asked
<1>u. \A j \in IDs : Unjoined(j)' <=> Unjoined(j) BY <1>b, <1>d, <1>q DEF Unjoined, Unknown
<1>v. \A j \in IDs : Unaccepted(j)' <=> Unaccepted(j)
  <2>1. ~Unaccepted(q) /\ ~Unaccepted(q)' BY <1>b, <1>q, <1>r DEF Unaccepted
  <2>2. \A j \in IDs \ {q} : Unaccepted(j)' <=> Unaccepted(j)
    <3>1. remoteID[i] \in {0, q} /\ \A j \in IDs \ {q} : j # 0 BY <1>r
    <3> QED BY <1>b, <1>d, <3>1 DEF Unaccepted
  <2> QED BY <2>1, <2>2
<1>3. \A m : ToHost(m) => ToHost(m)' BY <1>b, <1>p, <1>2, <1>u DEF ToHost
<1>4. \A m : ToPeer(m) => ToPeer(m)' BY <1>b, <1>d, <1>r, <1>u DEF ToPeer
<1>5. HostPackets' BY <1>b, <1>3 DEF HostPackets, Handling
<1>6. PeerPackets' BY <1>b, <1>4 DEF PeerPackets
<1>7. PeerSide' BY <1>b, <1>d, <1>q DEF PeerSide
<1>8. HostSide'
  <2>1. \A j \in IDs : remoteID[j] = q => j = i BY <1>q, <1>r DEF HostSide
  <2> QED BY <1>b, <1>d, <1>q, <1>r, <2>1 DEF HostSide
<1>9. AskedOnce'
  <2>1. \A t \in Threads : pc[t] = "writeOpen" => id[t] \in IDs BY DEF OnStream
  <2> QED BY <1>b, <1>p, <1>2, <1>u, <2>1 DEF AskedOnce
<1>10. OfferedOnce'
  <2>1. \A j : Offered(j)' <=> Offered(j) BY <1>b DEF Offered
  <2> QED BY <1>b, <1>v, <2>1 DEF OfferedOnce
<1>11. ReaderAt' BY <1>b, <1>d, <1>i, <1>q, <1>r DEF ReaderAt, OnFound
<1>12. Joined'
  <2>1. \A j \in IDs : remoteID[j] # 0 => remoteID'[j] # 0 BY <1>d, <1>r
  <2>2. \A p \in Procs : pc[p] \in {"writeClse", "writeData", "closeStream", "fire"} => id[p] \in IDs BY DEF OnStream
  <2>3. \A p \in Procs : \A l \in {"writeClse", "writeData", "closeAll", "closeStream", "fire"} : pc'[p] = l => pc[p] = l
    BY <1>b
  <2>4. \A p \in Procs : todo[p] \subseteq IDs OBVIOUS
  <2> QED BY <1>b, <2>1, <2>2, <2>3, <2>4 DEF Joined
<1> QED BY <1>5, <1>6, <1>7, <1>8, <1>9, <1>10, <1>11, <1>12

\* A stream of the device gets a host id of its own.
LEMMA NewAcceptedLink == ASSUME IInv, LInv, newAcceptedStream PROVE LInv'
<1>a. TypeOK BY DEF IInv
<1> USE <1>a, LinkTypes DEF LInv
<1>n. PICK n \in IDs : n = nextLocalID + 1 /\ n > nextLocalID BY DEF newAcceptedStream, newStreamLocked
<1>b. /\ nextLocalID' = n /\ pc[Reader] = "accept" /\ remoteID' = [remoteID EXCEPT ![n] = rmsg.arg0]
      /\ pc' = [pc EXCEPT ![Reader] = "writeOkay"] /\ id' = [id EXCEPT ![Reader] = n]
      /\ cause' = [cause EXCEPT ![Reader] = "nil"]
      /\ openCh' = [openCh EXCEPT ![n] = IF @ = "empty" THEN "nil" ELSE @]
      /\ UNCHANGED <<toHost, toPeer, peerNext, peerState, peerHost, rmsg, todo>>
  BY <1>n DEF newAcceptedStream, newStreamLocked, openOnce, Enter, wireVars, peerVars
<1>q. PICK q \in IDs : q = rmsg.arg0 /\ q <= peerNext /\ q # 0 /\ Unaccepted(q) /\ ~Offered(q) /\ rmsg.cmd = "OPEN"
  <2>1. rmsg.cmd = "OPEN" /\ ToHost(rmsg) BY <1>b DEF ReaderAt, HostPackets, Handling
  <2>2. Unaccepted(rmsg.arg0) /\ ~Offered(rmsg.arg0) BY <1>b, <2>1 DEF OfferedOnce
  <2> QED BY <2>1, <2>2 DEF ToHost
<1>d. \A j \in IDs : remoteID'[j] = IF j = n THEN q ELSE remoteID[j] BY <1>b, <1>q
<1>l. \A x \in IDs : x <= nextLocalID => x <= nextLocalID' /\ x # n BY <1>n, <1>b
<1>p. \A t \in Threads : pc'[t] = pc[t] /\ id'[t] = id[t] /\ cause'[t] = cause[t] BY <1>b
<1>z. remoteID[n] = 0 /\ \A r \in IDs : peerHost[r] # n BY <1>n DEF HostSide, PeerSide
<1>2. \A j : (Asked(j)' <=> Asked(j)) /\ (Offered(j)' <=> Offered(j)) BY <1>b DEF Asked, Offered
<1>u. \A j \in IDs \ {n} : Unjoined(j)' <=> Unjoined(j) BY <1>b, <1>d DEF Unjoined, Unknown
<1>v. \A j \in IDs \ {q} : Unaccepted(j) => Unaccepted(j)' BY <1>b, <1>d DEF Unaccepted
<1>3. \A m \in Messages : ToHost(m) => ToHost(m)'
  <2> SUFFICES ASSUME NEW m \in Messages, ToHost(m) PROVE ToHost(m)' OBVIOUS
  <2>1. m.arg0 \in IDs \cup {0} /\ m.arg1 \in IDs \cup {0} BY MessageFields
  <2>2. m.cmd = "CLSE" /\ m.arg0 = 0 => m.arg1 # n /\ m.arg1 <= nextLocalID' /\ Unjoined(m.arg1)'
    BY <1>l, <1>u, <2>1 DEF ToHost
  <2> QED BY <1>b, <1>p, <1>2, <2>1, <2>2 DEF ToHost
<1>4. \A m \in Messages : ToPeer(m) => ToPeer(m)' BY <1>b, <1>l, <1>d, <1>z, <1>u DEF ToPeer
<1>5. HostPackets' BY <1>b, <1>3 DEF HostPackets, Handling
<1>6. PeerPackets' BY <1>b, <1>4 DEF PeerPackets
<1>7. PeerSide' BY <1>b, <1>d, <1>l, <1>z DEF PeerSide
<1>8. HostSide'
  <2>1. \A j \in IDs : remoteID[j] # q BY <1>q DEF Unaccepted
  <2>2. peerHost[q] = 0 BY <1>q DEF Unaccepted
  <2>3. \A j \in IDs : j # n /\ openCh'[j] = "nil" => openCh[j] = "nil" BY <1>b
  <2>4. \A j \in IDs : j > nextLocalID' => j # n /\ j > nextLocalID BY <1>n, <1>b
  <2> QED BY <1>b, <1>d, <1>q, <2>1, <2>2, <2>3, <2>4 DEF HostSide
<1>9. AskedOnce'
  <2>1. \A t \in Threads : pc[t] = "writeOpen" => id[t] \in IDs \ {n} BY <1>l DEF OnStream, IInv, Openers, Opening
  <2> QED BY <1>b, <1>p, <1>2, <1>u, <2>1 DEF AskedOnce
<1>10. OfferedOnce' BY <1>b, <1>q, <1>2, <1>v DEF OfferedOnce
<1>11. ReaderAt' BY <1>b, <1>d, <1>q DEF ReaderAt, OnFound
<1>12. Joined'
  <2>1. \A j \in IDs : remoteID[j] # 0 => remoteID'[j] # 0 BY <1>d, <1>q
  <2>2. \A t \in Threads : pc[t] \in {"writeClse", "writeData", "closeStream", "fire"} => id[t] \in IDs BY DEF OnStream
  <2>4. \A p \in Procs : todo[p] \subseteq IDs OBVIOUS
  <2>5. todo[Reader] = {} BY <1>b DEF IInv, TodoClosing
  <2>6. \A t \in Procs : t # Reader => t \in Threads BY DEF Procs
  <2> QED BY <1>b, <1>p, <2>1, <2>2, <2>4, <2>5, <2>6 DEF Joined
<1> QED BY <1>5, <1>6, <1>7, <1>8, <1>9, <1>10, <1>11, <1>12

\* The reader moves on within its handlers.
LEMMA HandlerLink ==
    ASSUME IInv, LInv, NEW label \in Labels, pc' = [pc EXCEPT ![Reader] = label], rmsg' = rmsg, UNCHANGED todo,
           ReaderAt', label # "writeOpen", pc[Reader] \in Handling,
           label \in {"handle", "accept", "refuse"} => pc[Reader] \in {"handle", "accept", "refuse"},
           label \notin {"closeAll", "closeStream", "fire", "writeClse"},
           \A p \in Threads : id'[p] = id[p] /\ cause'[p] = cause[p],
           UNCHANGED <<remoteID, nextLocalID, toHost, peerNext, peerState, peerHost>>,
           \/ toPeer' = toPeer
           \/ \E m \in Messages : toPeer' = Append(toPeer, m) /\ m.cmd # "OPEN" /\ ToPeer(m),
           \A j \in IDs : openCh'[j] = "nil" => remoteID[j] # 0
    PROVE  LInv'
<1>a. TypeOK BY DEF IInv
<1> USE <1>a, LinkTypes
<1>1. Joined'
  <2>1. todo[Reader] = {} BY DEF IInv, TodoClosing, Handling
  <2>2. \A p \in Procs : p # Reader => p \in Threads BY DEF Procs
  <2> QED BY <2>1, <2>2 DEF LInv, Joined
<1>2. \A t \in Threads : pc'[t] = "writeOpen" => pc[t] = "writeOpen" /\ id'[t] = id[t] OBVIOUS
<1> QED BY <1>1, <1>2, QuietLink

\* readLoop and its handlers join only streams that were opened for one another.
LEMMA ReaderLink == ASSUME IInv, LInv, ReaderStep PROVE LInv'
<1>a. TypeOK BY DEF IInv
<1> USE <1>a, LinkTypes, AnswersKept
<1>t. pc[Reader] \notin {"closing", "fire"} => todo[Reader] = {} BY DEF IInv, TodoClosing
<1>w. ASSUME NEW m \in Messages, NEW ok \in BOOLEAN, writeMessage(m, ok), m.cmd # "OPEN", ToPeer(m)
      PROVE  /\ UNCHANGED toHost
             /\ \/ toPeer' = toPeer
                \/ \E k \in Messages : toPeer' = Append(toPeer, k) /\ k.cmd # "OPEN" /\ ToPeer(k)
  BY <1>w DEF writeMessage
<1>1. CASE readMessage BY <1>1, ReadMessageLink
<1>2. CASE readFailed
  BY <1>2, <1>t, MoveLink DEF readFailed, Enter, Handling, wireVars, streamVars, peerVars
<1>3. CASE streamByLocalID
  <2>b. /\ UNCHANGED <<remoteID, nextLocalID, toHost, toPeer, peerNext, peerState, peerHost, openCh, todo>>
        /\ pc[Reader] = "handle" /\ rmsg.cmd # "OPEN"
    BY <1>3 DEF streamByLocalID, noData, noWrite, connVars, wireVars, streamVars, peerVars
  <2>1. CASE rmsg.arg1 \in streams
    <3>1. Enter(Reader, HandlerOf(rmsg.cmd), rmsg.arg1, "nil") BY <1>3, <2>1 DEF streamByLocalID
    <3>2. /\ pc' = [pc EXCEPT ![Reader] = HandlerOf(rmsg.cmd)] /\ id' = [id EXCEPT ![Reader] = rmsg.arg1]
          /\ cause' = [cause EXCEPT ![Reader] = "nil"] /\ rmsg' = rmsg
      BY <3>1 DEF Enter
    <3>3. HandlerOf(rmsg.cmd) = IF rmsg.cmd = "CLSE" THEN "peerClose" ELSE "establish" BY DEF HandlerOf
    <3>4. rmsg.cmd \in Commands BY MessageFields
    <3>5. ReaderAt' BY <2>b, <3>2, <3>3, <3>4 DEF ReaderAt, OnFound, Commands
    <3>6. HandlerOf(rmsg.cmd) \in Labels BY <3>3 DEF Labels
    <3> QED BY <2>b, <3>2, <3>3, <3>5, <3>6, HandlerLink DEF Handling
  <2>2. CASE rmsg.arg1 \notin streams
    <3>1. /\ pc' = [pc EXCEPT ![Reader] = "read"] /\ id' = [id EXCEPT ![Reader] = 0]
          /\ cause' = [cause EXCEPT ![Reader] = "nil"]
      BY <1>3, <2>2 DEF streamByLocalID, Return
    <3> QED BY <1>t, <2>b, <3>1, MoveLink DEF Handling
  <2> QED BY <2>1, <2>2
<1>4. CASE establish BY <1>4, EstablishLink
<1>5. CASE established
  <2>b. /\ pc[Reader] = "established"
        /\ openCh' = [openCh EXCEPT ![id[Reader]] = IF @ = "empty" THEN "nil" ELSE @]
        /\ UNCHANGED <<remoteID, nextLocalID, toHost, toPeer, peerNext, peerState, peerHost, todo>>
    BY <1>5 DEF established, openOnce, connVars, wireVars, peerVars
  <2>c. id[Reader] \in IDs /\ remoteID[id[Reader]] # 0 /\ rmsg.cmd \in {"OKAY", "WRTE"} /\ id[Reader] = rmsg.arg1
    BY <2>b DEF OnStream, LInv, ReaderAt, OnFound
  <2>d. \A j \in IDs : openCh'[j] = "nil" => remoteID[j] # 0 BY <2>b, <2>c
  <2>1. CASE rmsg.cmd = "WRTE"
    <3>1. pc' = [pc EXCEPT ![Reader] = "ack"] /\ id' = id /\ cause' = cause /\ rmsg' = rmsg
      BY <1>5, <2>1 DEF established, Goto
    <3>2. ReaderAt' BY <2>b, <2>c, <2>1, <3>1 DEF ReaderAt, OnFound
    <3> QED BY <2>b, <2>d, <3>1, <3>2, HandlerLink DEF Handling, Labels
  <2>2. CASE rmsg.cmd # "WRTE"
    <3>1. /\ pc' = [pc EXCEPT ![Reader] = "read"] /\ id' = [id EXCEPT ![Reader] = 0]
          /\ cause' = [cause EXCEPT ![Reader] = "nil"]
      BY <1>5, <2>2 DEF established, Return
    <3> QED BY <1>t, <2>b, <2>d, <3>1, MoveLink DEF Handling
  <2> QED BY <2>1, <2>2
<1>6. CASE acknowledge
  <2>b. /\ pc[Reader] = "ack" /\ pc' = [pc EXCEPT ![Reader] = "receive"] /\ id' = id /\ cause' = cause /\ rmsg' = rmsg
        /\ UNCHANGED <<remoteID, nextLocalID, peerNext, peerState, peerHost, openCh, todo>>
    BY <1>6 DEF acknowledge, Goto, noWrite, connVars, streamVars, peerVars
  <2>c. /\ id[Reader] \in IDs /\ remoteID[id[Reader]] # 0 /\ rmsg.cmd = "WRTE" /\ rmsg.arg1 = id[Reader]
        /\ rmsg.arg0 \in IDs /\ peerHost[rmsg.arg0] = id[Reader]
    BY <2>b DEF OnStream, LInv, ReaderAt, OnFound, HostPackets, Handling, ToHost
  <2>d. remoteID[id[Reader]] = rmsg.arg0 BY <2>c DEF LInv, PeerSide
  <2>m. PICK m \in Messages : m = Message("OKAY", id[Reader], rmsg.arg0, <<>>) BY <2>c, ControlMessage
  <2>1. ToPeer(m) /\ m.cmd # "OPEN" BY <2>c, <2>d, <2>m DEF ToPeer, Message
  <2>2. PICK ok \in BOOLEAN : writeMessage(m, ok) BY <1>6, <2>m DEF acknowledge
  <2>3. ReaderAt' BY <2>b, <2>c DEF ReaderAt, OnFound
  <2> QED BY <1>w, <2>b, <2>1, <2>2, <2>3, HandlerLink DEF Handling, Labels
<1>7. CASE receive
  <2>b. UNCHANGED <<remoteID, nextLocalID, toHost, toPeer, peerNext, peerState, peerHost, openCh, todo>> /\ pc[Reader] = "receive"
    BY <1>7 DEF receive, connVars, wireVars, peerVars
  <2>1. CASE UNCHANGED <<pc, id, cause, rmsg>>
    <3>1. ReaderAt' /\ Joined' BY <2>b, <2>1 DEF LInv, ReaderAt, Joined
    <3> QED BY <2>b, <2>1, <3>1, QuietLink
  <2>2. CASE Return(Reader, "read") BY <1>t, <2>b, <2>2, MoveLink DEF Return, Handling
  <2> QED BY <1>7, <2>1, <2>2 DEF receive
<1>8. CASE peerClose
  <2>1. PICK e : Enter(Reader, "closeStream", id[Reader], e) /\ (e = "nil" => remoteID[id[Reader]] # 0)
    BY <1>8 DEF peerClose
  <2>2. /\ pc' = [pc EXCEPT ![Reader] = "closeStream"] /\ id' = [id EXCEPT ![Reader] = id[Reader]]
        /\ cause' = [cause EXCEPT ![Reader] = e] /\ pc[Reader] = "peerClose"
        /\ UNCHANGED <<remoteID, nextLocalID, toHost, toPeer, peerNext, peerState, peerHost, openCh, todo>>
    BY <1>8, <2>1 DEF peerClose, Enter, noData, noWrite, connVars, wireVars, streamVars, peerVars
  <2> QED BY <1>t, <2>1, <2>2, MoveLink DEF Handling
<1>9. CASE handlePeerOpen
  <2>b. /\ pc[Reader] = "handle" /\ rmsg.cmd = "OPEN" /\ id' = id /\ cause' = cause /\ rmsg' = rmsg
        /\ UNCHANGED <<remoteID, nextLocalID, toHost, toPeer, peerNext, peerState, peerHost, openCh, todo>>
    BY <1>9 DEF handlePeerOpen, Goto, noData, noWrite, connVars, wireVars, streamVars, peerVars
  <2>c. PICK label \in {"accept", "refuse"} : pc' = [pc EXCEPT ![Reader] = label] BY <1>9 DEF handlePeerOpen, Goto
  <2>3. ReaderAt' BY <2>b, <2>c DEF ReaderAt, OnFound
  <2>4. label \in Labels BY DEF Labels
  <2> QED BY <2>b, <2>c, <2>3, <2>4, HandlerLink DEF Handling
<1>10. CASE refuse
  <2>b. /\ pc[Reader] = "refuse" /\ Return(Reader, "read")
        /\ UNCHANGED <<remoteID, nextLocalID, peerNext, peerState, peerHost, openCh, todo>>
    BY <1>10 DEF refuse, noWrite, connVars, streamVars, peerVars
  <2>c. rmsg.arg0 \in IDs /\ rmsg.arg0 <= peerNext BY <2>b DEF LInv, ReaderAt, HostPackets, Handling, ToHost
  <2>m. PICK m \in Messages : m = Message("CLSE", 0, rmsg.arg0, <<>>) BY <2>c, ControlMessage
  <2>1. ToPeer(m) /\ m.cmd # "OPEN" BY <2>c, <2>m DEF ToPeer, Message
  <2>2. PICK ok \in BOOLEAN : writeMessage(m, ok) BY <1>10, <2>m DEF refuse
  <2> QED BY <1>t, <1>w, <2>b, <2>1, <2>2, MoveLink DEF Return, Handling
<1>11. CASE newAcceptedStream BY <1>11, NewAcceptedLink
<1>12. CASE acceptOkay
  <2>b. /\ pc[Reader] = "writeOkay"
        /\ UNCHANGED <<remoteID, nextLocalID, peerNext, peerState, peerHost, openCh, todo>>
    BY <1>12 DEF acceptOkay, connVars, streamVars, peerVars
  <2>c. id[Reader] \in IDs /\ remoteID[id[Reader]] = rmsg.arg0 /\ rmsg.arg0 \in IDs
    BY <2>b DEF OnStream, LInv, ReaderAt, HostPackets, Handling, ToHost
  <2>m. PICK m \in Messages : m = Message("OKAY", id[Reader], rmsg.arg0, <<>>) BY <2>c, ControlMessage
  <2>1. ToPeer(m) /\ m.cmd # "OPEN" BY <2>c, <2>m DEF ToPeer, Message
  <2>2. PICK ok \in BOOLEAN : writeMessage(m, ok) BY <1>12, <2>m DEF acceptOkay
  <2>3. CASE Return(Reader, "read") BY <1>t, <1>w, <2>b, <2>1, <2>2, <2>3, MoveLink DEF Return, Handling
  <2>4. CASE Enter(Reader, "closeStream", id[Reader], "ErrWrite")
    BY <1>t, <1>w, <2>b, <2>1, <2>2, <2>4, MoveLink DEF Enter, Handling
  <2> QED BY <1>12, <2>3, <2>4 DEF acceptOkay
<1>13. CASE Closing(Reader) BY <1>13, ClosingLink
<1> QED BY <1>1, <1>2, <1>3, <1>4, <1>5, <1>6, <1>7, <1>8, <1>9, <1>10, <1>11, <1>12, <1>13 DEF ReaderStep

-----------------------------------------------------------------------------
(* The device.                                                             *)

\* What the device knows when it takes the next packet.
LEMMA TakenPeer ==
    ASSUME TypeOK, LInv, toPeer # <<>>, toPeer' = Tail(toPeer)
    PROVE  /\ Head(toPeer) \in Messages /\ ToPeer(Head(toPeer))
           /\ \A k \in 1 .. Len(toPeer') : /\ toPeer'[k] \in Messages /\ ToPeer(toPeer'[k])
                                           /\ Head(toPeer).cmd = "OPEN" /\ toPeer'[k].cmd = "OPEN" =>
                                                toPeer'[k].arg0 # Head(toPeer).arg0
           /\ \A j : Asked(j)' => Asked(j)
           /\ \A j : Head(toPeer).cmd = "OPEN" /\ j = Head(toPeer).arg0 => Asked(j) /\ ~Asked(j)'
           /\ \A k, l \in 1 .. Len(toPeer') :
                toPeer'[k].cmd = "OPEN" /\ toPeer'[l].cmd = "OPEN" /\ toPeer'[k].arg0 = toPeer'[l].arg0 => k = l
<1> USE LinkTypes DEF LInv
<1>t. /\ Head(toPeer) = toPeer[1] /\ 1 \in 1 .. Len(toPeer) /\ Head(toPeer) \in Messages
      /\ \A k \in 1 .. Len(toPeer') : k + 1 \in 1 .. Len(toPeer) /\ toPeer'[k] = toPeer[k + 1] /\ k + 1 # 1 /\ k \in Nat
  BY Taken
<1>1. ToPeer(Head(toPeer)) BY <1>t DEF PeerPackets
<1>2. ASSUME NEW k \in 1 .. Len(toPeer')
      PROVE  /\ toPeer'[k] \in Messages /\ ToPeer(toPeer'[k])
             /\ Head(toPeer).cmd = "OPEN" /\ toPeer'[k].cmd = "OPEN" => toPeer'[k].arg0 # Head(toPeer).arg0
  BY <1>t, PacketFields DEF PeerPackets, AskedOnce
<1>3. \A j : Asked(j)' => Asked(j) BY <1>t DEF Asked
<1>4. ASSUME NEW j, Head(toPeer).cmd = "OPEN", j = Head(toPeer).arg0 PROVE Asked(j) /\ ~Asked(j)'
  <2>1. Asked(j) BY <1>t, <1>4 DEF Asked
  <2>2. \A k \in 1 .. Len(toPeer') : ~(toPeer'[k].cmd = "OPEN" /\ toPeer'[k].arg0 = j) BY <1>2, <1>4
  <2> QED BY <2>1, <2>2 DEF Asked
<1>5. ASSUME NEW k \in 1 .. Len(toPeer'), NEW l \in 1 .. Len(toPeer'), toPeer'[k].cmd = "OPEN",
             toPeer'[l].cmd = "OPEN", toPeer'[k].arg0 = toPeer'[l].arg0
      PROVE  k = l
  <2>1. k + 1 = l + 1 BY <1>t, <1>5 DEF AskedOnce
  <2> QED BY <1>t, <2>1
<1> QED BY <1>t, <1>1, <1>2, <1>3, <1>4, <1>5

\* The device takes a packet, or sends one that is no OPEN, or both.
LEMMA DeviceLink ==
    ASSUME TypeOK, LInv, PeerSide', HostSide',
           UNCHANGED <<remoteID, nextLocalID, openCh, pc, id, cause, rmsg, todo>>,
           toHost' = toHost \/ \E m \in Messages : toHost' = Append(toHost, m) /\ ToHost(m)' /\ m.cmd # "OPEN",
           toPeer' = toPeer \/ (toPeer # <<>> /\ toPeer' = Tail(toPeer)),
           \A m \in Messages : ToHost(m) => ToHost(m)',
           \A k \in 1 .. Len(toPeer') : ToPeer(toPeer'[k]) => ToPeer(toPeer[k])',
           \A t \in Threads : pc[t] = "writeOpen" => Unjoined(id[t])',
           \A q \in IDs : Unaccepted(q) /\ q <= peerNext => Unaccepted(q)'
    PROVE  LInv'
<1> USE LinkTypes DEF LInv
<1>1. HostPackets'
  <2>1. pc[Reader] \in Handling => ToHost(rmsg)' BY DEF HostPackets
  <2>2. CASE toHost' = toHost BY <2>1, <2>2 DEF HostPackets
  <2>3. ASSUME NEW m \in Messages, toHost' = Append(toHost, m), ToHost(m)' PROVE HostPackets'
    BY <2>1, <2>3, Appended DEF HostPackets
  <2> QED BY <2>2, <2>3
<1>2. PeerPackets'
  <2>1. CASE toPeer' = toPeer BY <2>1 DEF PeerPackets
  <2>2. CASE toPeer # <<>> /\ toPeer' = Tail(toPeer) BY <2>2, TakenPeer DEF PeerPackets
  <2> QED BY <2>1, <2>2
<1>3. AskedOnce'
  <2>1. CASE toPeer' = toPeer
    <3>1. \A j : Asked(j)' <=> Asked(j) BY <2>1 DEF Asked
    <3> QED BY <2>1, <3>1 DEF AskedOnce
  <2>2. CASE toPeer # <<>> /\ toPeer' = Tail(toPeer) BY <2>2, TakenPeer DEF AskedOnce
  <2> QED BY <2>1, <2>2
<1>4. OfferedOnce'
  <2>0. \A q \in IDs : Offered(q) => q <= peerNext BY DEF Offered, HostPackets, ToHost
  <2>1. \A q : Offered(q)' <=> Offered(q)
    <3>1. CASE toHost' = toHost BY <3>1 DEF Offered
    <3>2. ASSUME NEW m \in Messages, toHost' = Append(toHost, m), m.cmd # "OPEN" PROVE \A q : Offered(q)' <=> Offered(q)
      BY <3>2, Appended DEF Offered
    <3> QED BY <3>1, <3>2
  <2>2. \A k, l \in 1 .. Len(toHost') :
         toHost'[k].cmd = "OPEN" /\ toHost'[l].cmd = "OPEN" /\ toHost'[k].arg0 = toHost'[l].arg0 => k = l
    <3>1. CASE toHost' = toHost BY <3>1 DEF OfferedOnce
    <3>2. ASSUME NEW m \in Messages, toHost' = Append(toHost, m), m.cmd # "OPEN",
                 NEW k \in 1 .. Len(toHost'), NEW l \in 1 .. Len(toHost'), toHost'[k].cmd = "OPEN",
                 toHost'[l].cmd = "OPEN", toHost'[k].arg0 = toHost'[l].arg0
          PROVE  k = l
      BY <3>2, Appended DEF OfferedOnce
    <3> QED BY <3>1, <3>2
  <2>3. pc[Reader] \in {"handle", "accept", "refuse"} /\ rmsg.cmd = "OPEN" => rmsg.arg0 \in IDs /\ rmsg.arg0 <= peerNext
    BY DEF HostPackets, Handling, ToHost
  <2> QED BY <2>0, <2>1, <2>2, <2>3 DEF OfferedOnce
<1>5. ReaderAt' /\ Joined' BY DEF ReaderAt, Joined
<1> QED BY <1>1, <1>2, <1>3, <1>4, <1>5

\* The device answers the packets it takes with what is so.
LEMMA PeerReceivesLink == ASSUME TypeOK, LInv, PeerReceives PROVE LInv'
<1> USE LinkTypes
<1>b. /\ toPeer # <<>> /\ toPeer' = Tail(toPeer)
      /\ UNCHANGED <<remoteID, nextLocalID, openCh, pc, id, cause, rmsg, todo>>
  BY DEF PeerReceives, peerAccept, peerRefuse, peerOkay, peerWrte, peerClse, peerReply, hostFrame, connVars,
         streamVars, procVars
<1>h. PICK h \in Messages : h = Head(toPeer) BY <1>b, Taken
<1>f. h.cmd \in Commands /\ h.arg0 \in IDs \cup {0} /\ h.arg1 \in IDs \cup {0} BY MessageFields
<1>k. /\ ToPeer(h) /\ \A j : Asked(j)' => Asked(j)
      /\ \A k \in 1 .. Len(toPeer') : h.cmd = "OPEN" /\ toPeer'[k].cmd = "OPEN" => toPeer'[k].arg0 # h.arg0
      /\ \A j : h.cmd = "OPEN" /\ j = h.arg0 => Asked(j) /\ ~Asked(j)'
  BY <1>b, <1>h, TakenPeer
<1>w. \A t \in Threads : pc[t] = "writeOpen" => Unjoined(id[t]) /\ ~Asked(id[t]) /\ id[t] \in IDs
  BY DEF LInv, AskedOnce, OnStream
<1>1. CASE peerAccept
  <2>1. PICK n \in IDs : n = peerNext + 1 /\ n > peerNext BY <1>1 DEF peerAccept
  <2>2. /\ h.cmd = "OPEN" /\ peerNext' = n /\ peerState' = [peerState EXCEPT ![n] = "open"]
        /\ peerHost' = [peerHost EXCEPT ![n] = h.arg0]
        /\ toHost' = Append(toHost, Message("OKAY", n, h.arg0, <<>>))
    BY <1>1, <1>h, <2>1 DEF peerAccept, peerReply
  <2>3. PICK i \in IDs : i = h.arg0 /\ i <= nextLocalID /\ Unjoined(i) BY <1>k, <2>2 DEF ToPeer
  <2>4. peerHost[n] = 0 /\ i # 0 BY <2>1 DEF LInv, PeerSide
  <2>5. \A r \in IDs : peerHost'[r] = IF r = n THEN i ELSE peerHost[r] BY <2>2, <2>3
  <2>s. \A r \in IDs : peerState'[r] = IF r = n THEN "open" ELSE peerState[r] BY <2>2
  <2>6. \A j \in IDs \ {i} : Unjoined(j) => Unjoined(j)' BY <1>b, <2>5 DEF Unjoined, Unknown
  <2>l. \A x \in IDs : x <= peerNext => x <= peerNext' /\ x # n BY <2>1, <2>2
  <2>7. PeerSide'
    <3>1. \A r \in IDs : peerHost[r] # i BY <2>3 DEF Unjoined, Unknown
    <3>2. remoteID[i] = 0 BY <2>3 DEF Unjoined
    <3>3. \A r \in IDs : (r > peerNext' => r > peerNext /\ r # n) /\ (r <= peerNext' => r <= peerNext \/ r = n)
      BY <2>1, <2>2
    <3>4. \A r \in IDs : r # n => /\ r > peerNext' => peerState'[r] = "free" /\ peerHost'[r] = 0
                                  /\ r <= peerNext' => peerState'[r] # "free"
                                  /\ peerState'[r] = "opening" => peerHost'[r] = 0
                                  /\ peerState'[r] = "open" => peerHost'[r] # 0
      BY <2>5, <2>s, <3>3 DEF LInv, PeerSide
    <3>5. \A r \in IDs : r # n /\ peerHost'[r] # 0 =>
            /\ peerHost'[r] <= nextLocalID' /\ remoteID'[peerHost'[r]] \in {0, r}
            /\ \A s \in IDs : peerHost'[s] = peerHost'[r] => s = r
      BY <1>b, <2>5, <3>1 DEF LInv, PeerSide
    <3>6. \A s \in IDs : peerHost'[s] = i => s = n BY <2>5, <3>1
    <3> QED BY <1>b, <2>3, <2>4, <2>5, <2>s, <2>2, <3>2, <3>3, <3>4, <3>5, <3>6 DEF PeerSide
  <2>8. HostSide' BY <1>b, <2>l, <2>5 DEF LInv, HostSide
  <2>9. \A m \in Messages : ToHost(m) => ToHost(m)'
    <3> SUFFICES ASSUME NEW m \in Messages, ToHost(m) PROVE ToHost(m)' OBVIOUS
    <3>1. m.arg0 \in IDs \cup {0} /\ m.arg1 \in IDs \cup {0} BY MessageFields
    <3>2. m.cmd = "CLSE" /\ m.arg0 = 0 => m.arg1 # i BY <1>k, <2>2, <2>3 DEF ToHost
    <3>3. m.cmd = "CLSE" /\ m.arg0 = 0 => Unjoined(m.arg1)' /\ ~Asked(m.arg1)'
      BY <1>b, <1>k, <2>6, <3>1, <3>2 DEF ToHost
    <3>4. m.cmd = "OPEN" => m.arg0 \in IDs /\ m.arg0 <= peerNext' BY <2>l DEF ToHost
    <3> QED BY <1>b, <2>4, <2>5, <2>s, <3>1, <3>3, <3>4 DEF ToHost
  <2>10. ASSUME NEW k \in 1 .. Len(toPeer'), ToPeer(toPeer'[k]) PROVE ToPeer(toPeer[k])'
    <3>1. toPeer'[k].cmd = "OPEN" => toPeer'[k].arg0 \in IDs \ {i} BY <1>k, <2>2, <2>3, <2>10 DEF ToPeer
    <3> QED BY <1>b, <2>l, <2>6, <2>10, <3>1 DEF ToPeer
  <2>11. PICK m \in Messages : m = Message("OKAY", n, i, <<>>) BY ControlMessage
  <2>12. ToHost(m)' /\ m.cmd # "OPEN" BY <2>5, <2>11 DEF ToHost, Message
  <2>13. \A t \in Threads : pc[t] = "writeOpen" => Unjoined(id[t])' BY <1>b, <1>k, <1>w, <2>2, <2>3, <2>6
  <2>14. \A q \in IDs : Unaccepted(q) /\ q <= peerNext => Unaccepted(q)' BY <1>b, <2>l, <2>5 DEF Unaccepted
  <2> QED BY <1>b, <2>2, <2>3, <2>7, <2>8, <2>9, <2>10, <2>11, <2>12, <2>13, <2>14, DeviceLink
<1>q. ASSUME UNCHANGED <<peerNext, peerState, peerHost>>,
             toHost' = toHost \/ \E m \in Messages : toHost' = Append(toHost, m) /\ ToHost(m)' /\ m.cmd # "OPEN"
      PROVE  LInv'
  <2>1. \A j : (Unjoined(j)' <=> Unjoined(j)) /\ (Unaccepted(j)' <=> Unaccepted(j))
    BY <1>b, <1>q DEF Unjoined, Unknown, Unaccepted
  <2>2. PeerSide' /\ HostSide' BY <1>b, <1>q DEF LInv, PeerSide, HostSide
  <2>3. \A m \in Messages : ToHost(m) => ToHost(m)' BY <1>b, <1>k, <1>q, <2>1 DEF ToHost
  <2>4. \A k \in 1 .. Len(toPeer') : ToPeer(toPeer'[k]) => ToPeer(toPeer[k])' BY <1>b, <1>q, <2>1 DEF ToPeer
  <2>5. \A t \in Threads : pc[t] = "writeOpen" => Unjoined(id[t])' BY <1>b, <1>w, <2>1
  <2> QED BY <1>b, <1>q, <2>1, <2>2, <2>3, <2>4, <2>5, DeviceLink
<1>2. CASE peerRefuse
  <2>1. /\ h.cmd = "OPEN" /\ toHost' = Append(toHost, Message("CLSE", 0, h.arg0, <<>>))
        /\ UNCHANGED <<peerNext, peerState, peerHost>>
    BY <1>2, <1>h DEF peerRefuse, peerReply, peerVars
  <2>2. PICK i \in IDs : i = h.arg0 /\ i <= nextLocalID /\ Unjoined(i) BY <1>k, <2>1 DEF ToPeer
  <2>3. PICK m \in Messages : m = Message("CLSE", 0, i, <<>>) BY ControlMessage
  <2>4. m.cmd = "CLSE" /\ m.arg0 = 0 /\ m.arg1 = i BY <2>3 DEF Message
  <2>5. Unjoined(i)' BY <1>b, <2>1, <2>2 DEF Unjoined, Unknown
  <2>6. \A t \in Threads : pc'[t] = "writeOpen" => id'[t] # i BY <1>b, <1>k, <1>w, <2>1, <2>2
  <2>7. ToHost(m)' BY <1>b, <1>k, <2>1, <2>2, <2>4, <2>5, <2>6 DEF ToHost
  <2> QED BY <1>q, <2>1, <2>2, <2>3, <2>4, <2>7
<1>3. CASE peerOkay
  <2>1. h.cmd = "OKAY" /\ UNCHANGED <<toHost, peerNext>> BY <1>3, <1>h DEF peerOkay
  <2>2. PICK i \in IDs, q \in IDs : i = h.arg0 /\ q = h.arg1 /\ remoteID[i] = q BY <1>k, <2>1 DEF ToPeer
  <2>3. CASE peerState[q] # "opening" BY <1>3, <1>h, <1>q, <2>1, <2>2, <2>3 DEF peerOkay
  <2>4. CASE peerState[q] = "opening"
    <3>1. peerState' = [peerState EXCEPT ![q] = "open"] /\ peerHost' = [peerHost EXCEPT ![q] = i]
      BY <1>3, <1>h, <2>2, <2>4 DEF peerOkay
    <3>2. /\ peerHost[q] = 0 /\ q <= peerNext /\ i <= nextLocalID /\ q # 0 /\ i # 0
          /\ \A j \in IDs : remoteID[j] = q => j = i
      BY <2>2, <2>4 DEF LInv, PeerSide, HostSide
    <3>3. \A r \in IDs : /\ peerHost'[r] = IF r = q THEN i ELSE peerHost[r]
                         /\ peerState'[r] = IF r = q THEN "open" ELSE peerState[r]
      BY <3>1
    <3>4. \A j \in IDs : Unjoined(j) => Unjoined(j)' BY <1>b, <2>2, <3>2, <3>3 DEF Unjoined, Unknown
    <3>5. \A j \in IDs : Unaccepted(j) => Unaccepted(j)' BY <1>b, <2>2, <3>2, <3>3 DEF Unaccepted
    <3>6. \A r \in IDs : peerHost[r] # i BY <2>2, <3>2 DEF LInv, PeerSide
    <3>7. PeerSide' BY <1>b, <2>1, <2>2, <3>2, <3>3, <3>6 DEF LInv, PeerSide
    <3>8. HostSide'
      <4>1. \A j \in IDs : remoteID[j] # 0 => remoteID[j] \in IDs /\ peerHost'[remoteID[j]] \in {0, j}
        BY <3>2, <3>3 DEF LInv, HostSide
      <4> QED BY <1>b, <2>1, <4>1 DEF LInv, HostSide
    <3>9. \A m \in Messages : ToHost(m) => ToHost(m)'
      <4> SUFFICES ASSUME NEW m \in Messages, ToHost(m) PROVE ToHost(m)' OBVIOUS
      <4>1. m.arg0 \in IDs \cup {0} /\ m.arg1 \in IDs \cup {0} BY MessageFields
      <4> QED BY <1>b, <1>k, <2>1, <3>2, <3>3, <3>4, <4>1 DEF ToHost
    <3>10. \A k \in 1 .. Len(toPeer') : ToPeer(toPeer'[k]) => ToPeer(toPeer[k])' BY <1>b, <2>1, <3>4 DEF ToPeer
    <3>11. \A t \in Threads : pc[t] = "writeOpen" => Unjoined(id[t])' BY <1>b, <1>w, <3>4
    <3> QED BY <1>b, <2>1, <3>5, <3>7, <3>8, <3>9, <3>10, <3>11, DeviceLink
  <2> QED BY <2>3, <2>4
<1>4. CASE peerWrte
  <2>1. h.cmd = "WRTE" /\ UNCHANGED <<peerNext, peerState, peerHost>> BY <1>4, <1>h DEF peerWrte, peerVars
  <2>2. PICK i \in IDs, q \in IDs : i = h.arg0 /\ q = h.arg1 /\ remoteID[i] = q BY <1>k, <2>1 DEF ToPeer
  <2>3. CASE peerState[q] = "open"
    <3>1. peerHost[q] = i BY <2>2, <2>3 DEF LInv, PeerSide, HostSide
    <3>2. PICK m \in Messages : m = Message("OKAY", q, i, <<>>) BY ControlMessage
    <3>3. ToHost(m)' /\ m.cmd # "OPEN" BY <2>1, <3>1, <3>2 DEF ToHost, Message
    <3>4. toHost' = Append(toHost, m) BY <1>4, <1>h, <2>2, <2>3, <3>2 DEF peerWrte, peerReply
    <3> QED BY <1>q, <2>1, <3>3, <3>4
  <2>4. CASE peerState[q] # "open"
    <3>1. toHost' = toHost BY <1>4, <1>h, <2>2, <2>4 DEF peerWrte
    <3> QED BY <1>q, <2>1, <3>1
  <2> QED BY <2>3, <2>4
<1>5. CASE peerClse
  <2>1. /\ h.cmd = "CLSE" /\ UNCHANGED <<toHost, peerNext, peerHost>> /\ h.arg1 \in IDs /\ h.arg1 <= peerNext
        /\ peerState' = [peerState EXCEPT ![h.arg1] = "closed"]
    BY <1>5, <1>h, <1>k DEF peerClse, ToPeer
  <2>2. \A j : (Unjoined(j)' <=> Unjoined(j)) /\ (Unaccepted(j)' <=> Unaccepted(j))
    BY <1>b, <2>1 DEF Unjoined, Unknown, Unaccepted
  <2>3. PeerSide' /\ HostSide' BY <1>b, <2>1 DEF LInv, PeerSide, HostSide
  <2>4. \A m \in Messages : ToHost(m) => ToHost(m)'
    <3> SUFFICES ASSUME NEW m \in Messages, ToHost(m) PROVE ToHost(m)' OBVIOUS
    <3>1. m.arg0 \in IDs \cup {0} /\ m.arg1 \in IDs \cup {0} BY MessageFields
    <3> QED BY <1>b, <1>k, <2>1, <2>2, <3>1 DEF ToHost
  <2>5. \A k \in 1 .. Len(toPeer') : ToPeer(toPeer'[k]) => ToPeer(toPeer[k])' BY <1>b, <2>1, <2>2 DEF ToPeer
  <2>6. \A t \in Threads : pc[t] = "writeOpen" => Unjoined(id[t])' BY <1>b, <1>w, <2>2
  <2> QED BY <1>b, <2>1, <2>2, <2>3, <2>4, <2>5, <2>6, DeviceLink
<1> QED BY <1>1, <1>2, <1>3, <1>4, <1>5 DEF PeerReceives

\* A stream the device opens is new to the host.
LEMMA PeerOpensLink == ASSUME TypeOK, LInv, PeerOpens PROVE LInv'
<1> USE LinkTypes DEF LInv
<1>n. PICK n \in IDs : n = peerNext + 1 /\ n > peerNext BY DEF PeerOpens
<1>b. /\ peerNext' = n /\ peerState' = [peerState EXCEPT ![n] = "opening"]
      /\ toHost' = Append(toHost, Message("OPEN", n, 0, <<>>))
      /\ UNCHANGED <<remoteID, nextLocalID, openCh, pc, id, cause, rmsg, todo, toPeer, peerHost>>
  BY <1>n DEF PeerOpens, hostFrame, connVars, streamVars, procVars
<1>m. PICK m \in Messages : m = Message("OPEN", n, 0, <<>>) BY ControlMessage
<1>e. m.cmd = "OPEN" /\ m.arg0 = n /\ toHost' = Append(toHost, m) BY <1>b, <1>m DEF Message
<1>l. \A x \in IDs : x <= peerNext => x <= peerNext' /\ x # n BY <1>n, <1>b
<1>1. \A j : (Asked(j)' <=> Asked(j)) /\ (Unjoined(j)' <=> Unjoined(j)) /\ (Unaccepted(j)' <=> Unaccepted(j))
  BY <1>b DEF Asked, Unjoined, Unknown, Unaccepted
<1>2. peerHost[n] = 0 /\ peerState[n] = "free" BY <1>n DEF PeerSide
<1>3. \A k \in Messages : ToHost(k) => ToHost(k)'
  <2> SUFFICES ASSUME NEW k \in Messages, ToHost(k) PROVE ToHost(k)' OBVIOUS
  <2>1. k.arg0 \in IDs \cup {0} /\ k.arg1 \in IDs \cup {0} BY MessageFields
  <2>2. k.cmd = "CLSE" /\ k.arg0 # 0 => k.arg0 # n BY <1>2, <2>1 DEF ToHost
  <2> QED BY <1>b, <1>l, <1>1, <2>1, <2>2 DEF ToHost
<1>4. \A k \in Messages : ToPeer(k) => ToPeer(k)' BY <1>b, <1>l, <1>1 DEF ToPeer
<1>5. HostPackets'
  <2>1. ToHost(m)' BY <1>b, <1>e DEF ToHost
  <2> QED BY <1>b, <1>e, <1>3, <2>1, Appended DEF HostPackets
<1>6. PeerPackets' BY <1>b, <1>4 DEF PeerPackets
<1>7. PeerSide'
  <2>1. \A r \in IDs : (r > peerNext' => r > peerNext /\ r # n) /\ (r <= peerNext' => r <= peerNext \/ r = n)
    BY <1>n, <1>b
  <2> QED BY <1>b, <1>2, <2>1 DEF PeerSide
<1>8. HostSide' BY <1>b, <1>l DEF HostSide
<1>9. AskedOnce' BY <1>b, <1>1 DEF AskedOnce
<1>10. OfferedOnce'
  <2>0. \A q : Offered(q) => q \in IDs /\ q <= peerNext BY DEF Offered, HostPackets, ToHost
  <2>1. ~Offered(n) BY <1>l, <2>0
  <2>2. Unaccepted(n) BY <1>l, <1>2 DEF HostSide, Unaccepted
  <2>3. \A q : Offered(q)' => Offered(q) \/ q = n BY <1>e, Appended DEF Offered
  <2>4. pc[Reader] \in {"handle", "accept", "refuse"} /\ rmsg.cmd = "OPEN" => rmsg.arg0 # n
    BY <1>l DEF HostPackets, Handling, ToHost
  <2>5. ASSUME NEW k \in 1 .. Len(toHost'), NEW l \in 1 .. Len(toHost'), toHost'[k].cmd = "OPEN",
               toHost'[l].cmd = "OPEN", toHost'[k].arg0 = toHost'[l].arg0
        PROVE  k = l
    <3>1. CASE k \in 1 .. Len(toHost) /\ l \in 1 .. Len(toHost) BY <1>e, <2>5, <3>1, Appended DEF OfferedOnce
    <3>2. CASE k \in 1 .. Len(toHost) /\ l = Len(toHost) + 1 BY <1>e, <2>1, <2>5, <3>2, Appended DEF Offered
    <3>3. CASE k = Len(toHost) + 1 /\ l \in 1 .. Len(toHost) BY <1>e, <2>1, <2>5, <3>3, Appended DEF Offered
    <3> QED BY <1>e, <3>1, <3>2, <3>3, Appended
  <2>6. \A q \in IDs : Offered(q)' => Unaccepted(q)' BY <1>1, <2>2, <2>3 DEF OfferedOnce
  <2>7. pc[Reader] \in {"handle", "accept", "refuse"} /\ rmsg.cmd = "OPEN" =>
          \A j : j = rmsg.arg0 => Unaccepted(j)' /\ ~Offered(j)'
    BY <1>1, <2>3, <2>4 DEF OfferedOnce
  <2>8. pc'[Reader] \in {"handle", "accept", "refuse"} /\ rmsg'.cmd = "OPEN" =>
          Unaccepted(rmsg.arg0)' /\ ~Offered(rmsg.arg0)'
    BY <1>b, <2>7
  <2> QED BY <2>5, <2>6, <2>8 DEF OfferedOnce
<1>11. ReaderAt' /\ Joined' BY <1>b DEF ReaderAt, Joined
<1> QED BY <1>5, <1>6, <1>7, <1>8, <1>9, <1>10, <1>11

\* The device's own steps keep streams joined.
LEMMA PeerStepLink == ASSUME TypeOK, LInv, PeerStep PROVE LInv'
<1> USE LinkTypes
<1>w. \A t \in Threads : pc[t] = "writeOpen" => Unjoined(id[t]) BY DEF LInv, AskedOnce
<1>1. CASE PeerReceives BY <1>1, PeerReceivesLink
<1>2. CASE PeerOpens BY <1>2, PeerOpensLink
<1>3. CASE PeerLeaves
  <2>1. UNCHANGED <<remoteID, nextLocalID, toHost, toPeer, peerNext, peerState, peerHost, openCh, pc, id, cause, rmsg, todo>>
    BY <1>3 DEF PeerLeaves, hostFrame, connVars, streamVars, procVars, peerVars
  <2>2. ReaderAt' /\ Joined' BY <2>1 DEF LInv, ReaderAt, Joined
  <2> QED BY <2>1, <2>2, QuietLink, AnswersKept
<1>q. ASSUME NEW q \in IDs, peerState[q] = "open", NEW m \in Messages, m.cmd \in {"WRTE", "CLSE"}, m.arg0 = q,
             m.arg1 = peerHost[q], toHost' = Append(toHost, m), m.cmd = "CLSE" => peerState'[q] = "closed",
             \/ peerState' = peerState
             \/ peerState' = [peerState EXCEPT ![q] = "closed"],
             UNCHANGED <<remoteID, nextLocalID, openCh, pc, id, cause, rmsg, todo, toPeer, peerNext, peerHost>>
      PROVE  LInv'
  <2>1. \A j : (Asked(j)' <=> Asked(j)) /\ (Unjoined(j)' <=> Unjoined(j)) /\ (Unaccepted(j)' <=> Unaccepted(j))
    BY <1>q DEF Asked, Unjoined, Unknown, Unaccepted
  <2>2. peerHost[q] \in IDs /\ q <= peerNext BY <1>q DEF LInv, PeerSide
  <2>3. \A r \in IDs : peerState'[r] = peerState[r] \/ (r = q /\ peerState'[r] = "closed") BY <1>q
  <2>4. PeerSide' /\ HostSide' BY <1>q, <2>2, <2>3 DEF LInv, PeerSide, HostSide
  <2>5. \A k \in Messages : ToHost(k) => ToHost(k)'
    <3> SUFFICES ASSUME NEW k \in Messages, ToHost(k) PROVE ToHost(k)' OBVIOUS
    <3>1. k.arg0 \in IDs \cup {0} /\ k.arg1 \in IDs \cup {0} BY MessageFields
    <3> QED BY <1>q, <2>1, <2>3, <3>1 DEF ToHost
  <2>6. ToHost(m)' /\ m.cmd # "OPEN" BY <1>q, <2>2 DEF ToHost
  <2>7. \A k \in 1 .. Len(toPeer') : ToPeer(toPeer'[k]) => ToPeer(toPeer[k])' BY <1>q, <2>1 DEF ToPeer
  <2>8. \A t \in Threads : pc[t] = "writeOpen" => Unjoined(id[t])' BY <1>q, <1>w, <2>1
  <2> QED BY <1>q, <2>1, <2>4, <2>5, <2>6, <2>7, <2>8, DeviceLink
<1>4. ASSUME NEW q \in IDs, PeerWrites(q) PROVE LInv'
  <2>1. PICK n \in 1 .. MaxChunk :
          toHost' = Append(toHost, Message("WRTE", q, peerHost[q], [k \in 1 .. n |-> peerSent[q] + k]))
    BY <1>4 DEF PeerWrites
  <2>2. n \in Nat /\ peerSent[q] \in Nat BY ConnectionAssumption DEF TypeOK, PeerType
  <2>3. [k \in 1 .. n |-> peerSent[q] + k] \in Seq(Nat) BY <2>2
  <2>4. PICK m \in Messages : m = Message("WRTE", q, peerHost[q], [k \in 1 .. n |-> peerSent[q] + k])
    BY <2>3, MessageType DEF Commands
  <2>5. m.cmd = "WRTE" /\ m.arg0 = q /\ m.arg1 = peerHost[q] BY <2>4 DEF Message
  <2>6. /\ UNCHANGED <<remoteID, nextLocalID, openCh, pc, id, cause, rmsg, todo, toPeer, peerNext, peerHost, peerState>>
        /\ peerState[q] = "open"
    BY <1>4 DEF PeerWrites, hostFrame, connVars, streamVars, procVars
  <2> QED BY <1>q, <2>1, <2>4, <2>5, <2>6
<1>5. ASSUME NEW q \in IDs, PeerCloses(q) PROVE LInv'
  <2>1. PICK m \in Messages : m = Message("CLSE", q, peerHost[q], <<>>) BY ControlMessage
  <2>2. m.cmd = "CLSE" /\ m.arg0 = q /\ m.arg1 = peerHost[q] BY <2>1 DEF Message
  <2>3. /\ UNCHANGED <<remoteID, nextLocalID, openCh, pc, id, cause, rmsg, todo, toPeer, peerNext, peerHost>>
        /\ peerState[q] = "open" /\ peerState' = [peerState EXCEPT ![q] = "closed"] /\ toHost' = Append(toHost, m)
    BY <1>5, <2>1 DEF PeerCloses, hostFrame, connVars, streamVars, procVars
  <2>4. peerState'[q] = "closed" BY <2>3
  <2> QED BY <1>q, <2>2, <2>3, <2>4
<1> QED BY <1>1, <1>2, <1>3, <1>4, <1>5 DEF PeerStep

\* LInv is inductive, relative to IInv.
LEMMA NextLink == ASSUME IInv, LInv, [Next]_vars PROVE LInv'
<1>a. TypeOK BY DEF IInv
<1> USE <1>a, LinkTypes
<1>q. ASSUME UNCHANGED <<remoteID, nextLocalID, toHost, toPeer, peerNext, peerState, peerHost, openCh, pc, id, cause, rmsg, todo>>
      PROVE  LInv'
  <2>1. ReaderAt' /\ Joined' BY <1>q DEF LInv, ReaderAt, Joined
  <2> QED BY <1>q, <2>1, QuietLink, AnswersKept
<1>1. CASE ReaderStep BY <1>1, ReaderLink
<1>2. ASSUME NEW t \in Threads, ThreadStep(t) \/ ThreadCall(t) PROVE LInv'
  BY <1>2, ThreadStepLink, ThreadCallLink
<1>3. ASSUME NEW i \in IDs, Read(i) PROVE LInv'
  BY <1>3, <1>q DEF Read, readBuf, readCheck, readChunk, readWake, readEnd, readFrame, connVars, wireVars, procVars,
     peerVars
<1>4. CASE PeerStep BY <1>4, PeerStepLink
<1>5. CASE UNCHANGED vars BY <1>5, <1>q DEF vars, connVars, wireVars, streamVars, procVars, peerVars
<1> QED BY <1>1, <1>2, <1>3, <1>4, <1>5 DEF Next

\* In every reachable state the packets in flight and the tables of both sides
\* agree on which stream of the host is joined to which of the device.
THEOREM LinkInvariant == Spec => [](IInv /\ LInv)
<1>1. Init => IInv /\ LInv BY InitInv, InitLink
<1>2. IInv /\ LInv /\ [Next]_vars => (IInv /\ LInv)' BY NextInv, NextLink
<1> QED BY <1>1, <1>2, PTL DEF Spec

\* For any number of streams on a connection, what OpenContext returned or a
\* handler was started with is joined to one stream of the device of its own
\* (establish, stream.go:177, and newAcceptedStream, stream.go:298).
THEOREM HeldStreamsJoined == Spec => []HeldMatchesPeer
<1>1. IInv /\ LInv => HeldMatchesPeer
  <2> SUFFICES ASSUME IInv, LInv PROVE HeldMatchesPeer OBVIOUS
  <2>a. TypeOK /\ held \subseteq IDs BY Types DEF IInv
  <2> USE <2>a, LinkTypes
  <2>1. ASSUME NEW i \in held PROVE i \in IDs /\ remoteID[i] \in IDs
    BY <2>1, AnswersKept DEF IInv, HeldOwned
  <2>2. ASSUME NEW i \in held
        PROVE  /\ peerHost[remoteID[i]] \in {0, i} /\ peerState[remoteID[i]] # "free"
               /\ \A j \in held \ {i} : remoteID[j] # remoteID[i]
    BY <2>1, <2>2 DEF LInv, HostSide, PeerSide
  <2> QED BY <2>1, <2>2 DEF HeldMatchesPeer
<1> QED BY <1>1, LinkInvariant, PTL

-----------------------------------------------------------------------------
(* The bytes of a stream, from the device's write to the program's Read.   *)

\* Bytes are numbered from 1 in the order the device writes them: a chunk is a run
\* of them, after byte Start and up to byte End.
Start(c) == c[1] - 1
End(c) == c[Len(c)]
Chunk(c) == c # <<>> /\ c[1] > 0 /\ \A k \in 1 .. Len(c) : c[k] = c[1] + k - 1

\* How far a stream has come: into the hands of Read, into dataCh, into those of readLoop.
Received(i) == Len(delivered[i]) + Len(buf[i])
QEnd(i) == IF dataCh[i] = <<>> THEN Received(i) ELSE End(dataCh[i][Len(dataCh[i])])
InHand(i) == /\ pc[Reader] \in {"handle", "establish", "established", "ack", "receive"}
             /\ rmsg.cmd = "WRTE" /\ rmsg.arg1 = i
REnd(i) == IF InHand(i) THEN End(rmsg.data) ELSE QEnd(i)
\* A packet in flight with data for stream i.
Carries(m, i) == m.cmd = "WRTE" /\ m.arg1 = i
\* A stream that is registered, or that the reader found before it was detached.
Live(i) == i \in streams \/ (pc[Reader] \in OnFound /\ id[Reader] = i)

\* What Read has returned, buf and dataCh hold, in this order, the bytes from 1 on.
Queued ==
    \A i \in IDs :
      /\ \A k \in 1 .. Len(delivered[i]) : delivered[i][k] = k
      /\ \A k \in 1 .. Len(buf[i]) : buf[i][k] = Len(delivered[i]) + k
      /\ \A k \in 1 .. Len(dataCh[i]) :
           Chunk(dataCh[i][k]) /\ Start(dataCh[i][k]) = IF k = 1 THEN Received(i) ELSE End(dataCh[i][k - 1])
      /\ Unknown(i) => dataCh[i] = <<>> /\ buf[i] = <<>> /\ delivered[i] = <<>>

\* Data in flight are chunks, and the device writes only to a stream it knows.
Chunks ==
    /\ \A k \in 1 .. Len(toHost) : toHost[k].cmd = "WRTE" => Chunk(toHost[k].data)
    /\ \A i \in IDs : InHand(i) => Chunk(rmsg.data)
    /\ \A q \in IDs : peerHost[q] = 0 => peerSent[q] = 0

\* What is in flight for stream i continues what it has got, up to the last byte
\* the device has sent on its stream q: in order, without overlap or gap.
InOrder(i, q) ==
    /\ InHand(i) => Start(rmsg.data) = QEnd(i)
    /\ REnd(i) <= peerSent[q]
    /\ \A k \in 1 .. Len(toHost) : Carries(toHost[k], i) =>
         REnd(i) <= Start(toHost[k].data) /\ End(toHost[k].data) <= peerSent[q]
    /\ \A k, l \in 1 .. Len(toHost) : k < l /\ Carries(toHost[k], i) /\ Carries(toHost[l], i) =>
         End(toHost[k].data) <= Start(toHost[l].data)
    /\ \A n \in REnd(i) + 1 .. peerSent[q] :
         \E k \in 1 .. Len(toHost) : Carries(toHost[k], i) /\ Start(toHost[k].data) < n /\ n <= End(toHost[k].data)

\* So it is for every stream that still takes packets.  One that was closed drops
\* them, and ends in an error.
Complete == \A q \in IDs : peerHost[q] # 0 /\ Live(peerHost[q]) => InOrder(peerHost[q], q)

\* Nothing follows a CLSE on its stream.
LastIsClse ==
    /\ \A k, l \in 1 .. Len(toHost) : k < l /\ toHost[k].cmd = "CLSE" => ~Carries(toHost[l], toHost[k].arg1)
    /\ pc[Reader] \in {"handle", "peerClose"} /\ rmsg.cmd = "CLSE" =>
         \A l \in 1 .. Len(toHost) : ~Carries(toHost[l], rmsg.arg1)

\* The device has closed the stream and all that it sent is in the stream's queue.
Finished(i) ==
    /\ remoteID[i] # 0 /\ peerHost[remoteID[i]] = i /\ peerState[remoteID[i]] = "closed"
    /\ QEnd(i) = peerSent[remoteID[i]]
    /\ ~InHand(i) /\ \A k \in 1 .. Len(toHost) : ~Carries(toHost[k], i)

\* Only a finished stream is closed without an error.
CleanEnds ==
    /\ \A i \in IDs : closed[i] /\ err[i] = "nil" => Finished(i)
    /\ \A p \in Procs : cause[p] = "nil" => \A i \in todo[p] : Finished(i)
    /\ pc[Reader] = "closeStream" /\ cause[Reader] = "nil" => Finished(id[Reader])

\* Read looks into the channel when buf is empty, and gives up only on a closed one.
Reads ==
    \A i \in IDs :
      /\ reading[i] # "idle" => buf[i] = <<>>
      /\ reading[i] = "drain" => closed[i]
      /\ reading[i] = "eof" => closed[i] /\ err[i] = "nil" /\ dataCh[i] = <<>>

\* The data invariant, inductive relative to IInv and LInv.
DInv == Queued /\ Chunks /\ Complete /\ LastIsClse /\ CleanEnds /\ Reads

\* The types of what carries and counts data.
LEMMA DataTypes ==
    ASSUME TypeOK
    PROVE  /\ dataCh \in [IDs -> Seq(Seq(Nat))] /\ buf \in [IDs -> Seq(Nat)] /\ delivered \in [IDs -> Seq(Nat)]
           /\ peerSent \in [IDs -> Nat] /\ closed \in [IDs -> BOOLEAN] /\ err \in [IDs -> Errors]
           /\ reading \in [IDs -> {"idle", "wait", "drain", "eof", "error"}] /\ streams \subseteq IDs
           /\ held \subseteq IDs
  BY DEF TypeOK, ConnType, StreamType, AppType, PeerType

\* A chunk numbers its bytes from its start to its end.
LEMMA ChunkEnds ==
    ASSUME NEW c \in Seq(Nat), Chunk(c)
    PROVE  /\ Start(c) \in Nat /\ End(c) \in Nat /\ Len(c) \in Nat /\ End(c) = Start(c) + Len(c) /\ Start(c) < End(c)
           /\ \A k \in 1 .. Len(c) : c[k] = Start(c) + k
<1>1. Len(c) \in Nat /\ Len(c) > 0 /\ c[1] \in Nat /\ c[1] > 0 BY DEF Chunk
<1>2. \A k \in 1 .. Len(c) : c[k] = c[1] + k - 1 BY DEF Chunk
<1>3. Len(c) \in 1 .. Len(c) BY <1>1
<1>4. c[Len(c)] = c[1] + Len(c) - 1 BY <1>2, <1>3
<1>5. Start(c) = c[1] - 1 /\ End(c) = c[1] + Len(c) - 1 BY <1>4 DEF Start, End
<1>6. \A k \in 1 .. Len(c) : c[k] = Start(c) + k BY <1>1, <1>2, <1>5
<1>7. PICK a \in Nat, n \in Nat : a = c[1] /\ n = Len(c) /\ a > 0 /\ n > 0 BY <1>1
<1>8. a - 1 \in Nat /\ a + n - 1 \in Nat /\ a + n - 1 = (a - 1) + n /\ a - 1 < a + n - 1 BY <1>7
<1> QED BY <1>5, <1>6, <1>7, <1>8

\* How far the reader of a stream, its queue and readLoop have come are numbers.
LEMMA EndsNat ==
    ASSUME TypeOK, Queued, Chunks, NEW i \in IDs
    PROVE  Received(i) \in Nat /\ QEnd(i) \in Nat /\ REnd(i) \in Nat
<1> USE LinkTypes, DataTypes
<1>1. Received(i) \in Nat
  <2>1. Len(delivered[i]) \in Nat /\ Len(buf[i]) \in Nat OBVIOUS
  <2> QED BY <2>1 DEF Received
<1>2. QEnd(i) \in Nat
  <2>1. CASE dataCh[i] = <<>> BY <1>1, <2>1 DEF QEnd
  <2>2. CASE dataCh[i] # <<>>
    <3>1. Len(dataCh[i]) \in 1 .. Len(dataCh[i]) /\ dataCh[i][Len(dataCh[i])] \in Seq(Nat) BY <2>2
    <3>2. Chunk(dataCh[i][Len(dataCh[i])]) BY <3>1 DEF Queued
    <3> QED BY <2>2, <3>1, <3>2, ChunkEnds DEF QEnd
  <2> QED BY <2>1, <2>2
<1>3. REnd(i) \in Nat
  <2>1. InHand(i) => End(rmsg.data) \in Nat BY MessageFields, ChunkEnds DEF Chunks
  <2> QED BY <1>2, <2>1 DEF REnd
<1> QED BY <1>1, <1>2, <1>3

\* The data on a wire that is in flight are chunks.
LEMMA FlightChunks ==
    ASSUME TypeOK, Chunks, NEW k \in 1 .. Len(toHost), NEW i, Carries(toHost[k], i)
    PROVE  /\ toHost[k].data \in Seq(Nat) /\ Chunk(toHost[k].data) /\ Start(toHost[k].data) \in Nat
           /\ End(toHost[k].data) \in Nat /\ Start(toHost[k].data) < End(toHost[k].data)
<1> USE LinkTypes
<1>1. toHost[k].data \in Seq(Nat) /\ Chunk(toHost[k].data) BY PacketFields DEF Chunks, Carries
<1> QED BY <1>1, ChunkEnds

\* A new connection has carried no data.
THEOREM InitData == Init => DInv
<1> SUFFICES ASSUME Init PROVE DInv OBVIOUS
<1>t. TypeOK BY InitType
<1> USE LinkTypes, DataTypes, <1>t
<1>0. Len(toHost) = 0 /\ pc[Reader] = "off" /\ streams = {} BY DEF Init
<1>1. Queued BY DEF Init, Queued
<1>2. Chunks BY <1>0 DEF Init, Chunks, InHand
<1>3. Complete BY DEF Init, Complete
<1>4. LastIsClse BY <1>0 DEF LastIsClse
<1>5. CleanEnds BY <1>0 DEF Init, CleanEnds
<1>6. Reads BY DEF Init, Reads
<1> QED BY <1>1, <1>2, <1>3, <1>4, <1>5, <1>6 DEF DInv

\* What a step leaves of a stream's order in flight.
LEMMA InOrderKept ==
    ASSUME TypeOK, NEW i \in IDs, NEW q \in IDs, InOrder(i, q), QEnd(i)' = QEnd(i), peerSent'[q] = peerSent[q],
           InHand(i)' <=> InHand(i), InHand(i) => rmsg' = rmsg,
           toHost' = toHost \/ \E m \in Messages : toHost' = Append(toHost, m) /\ ~Carries(m, i)
    PROVE  InOrder(i, q)'
<1> USE LinkTypes
<1>1. REnd(i)' = REnd(i) BY DEF REnd
<1>2. InHand(i)' => Start(rmsg.data)' = QEnd(i)' BY DEF InOrder
<1>3. CASE toHost' = toHost BY <1>1, <1>2, <1>3 DEF InOrder
<1>4. ASSUME NEW m \in Messages, toHost' = Append(toHost, m), ~Carries(m, i) PROVE InOrder(i, q)'
  <2>1. /\ \A k \in 1 .. Len(toHost) : toHost'[k] = toHost[k] /\ k \in 1 .. Len(toHost')
        /\ \A k \in 1 .. Len(toHost') : Carries(toHost'[k], i) => k \in 1 .. Len(toHost)
    BY <1>4, Appended
  <2>2. \A k \in 1 .. Len(toHost') : Carries(toHost'[k], i) =>
          REnd(i)' <= Start(toHost'[k].data) /\ End(toHost'[k].data) <= peerSent'[q]
    BY <1>1, <2>1 DEF InOrder
  <2>3. \A k, l \in 1 .. Len(toHost') : k < l /\ Carries(toHost'[k], i) /\ Carries(toHost'[l], i) =>
          End(toHost'[k].data) <= Start(toHost'[l].data)
    BY <2>1 DEF InOrder
  <2>4. \A n \in REnd(i)' + 1 .. peerSent'[q] :
          \E k \in 1 .. Len(toHost') : Carries(toHost'[k], i) /\ Start(toHost'[k].data) < n /\ n <= End(toHost'[k].data)
    BY <1>1, <2>1 DEF InOrder
  <2>5. REnd(i)' <= peerSent'[q] BY <1>1 DEF InOrder
  <2> QED BY <1>2, <2>2, <2>3, <2>4, <2>5 DEF InOrder
<1> QED BY <1>3, <1>4

\* What is finished stays so while the wire, the queues and the device's tables stand still.
LEMMA FinishedKept ==
    ASSUME TypeOK, NEW i \in IDs, Finished(i), QEnd(i)' = QEnd(i), InHand(i)' => InHand(i),
           remoteID'[i] = remoteID[i], peerHost'[remoteID[i]] = peerHost[remoteID[i]],
           peerSent'[remoteID[i]] = peerSent[remoteID[i]], peerState'[remoteID[i]] = "closed",
           toHost' = toHost \/ \E m \in Messages : toHost' = Append(toHost, m) /\ ~Carries(m, i)
    PROVE  Finished(i)'
<1> USE LinkTypes
<1>1. \A k \in 1 .. Len(toHost') : ~Carries(toHost'[k], i)
  <2>1. CASE toHost' = toHost BY <2>1 DEF Finished
  <2>2. ASSUME NEW m \in Messages, toHost' = Append(toHost, m), ~Carries(m, i)
        PROVE  \A k \in 1 .. Len(toHost') : ~Carries(toHost'[k], i)
    BY <2>2, Appended DEF Finished
  <2> QED BY <2>1, <2>2
<1> QED BY <1>1 DEF Finished

\* Steps that neither send, take nor queue data: every stream stays in order, and what
\* is closed cleanly is finished.
LEMMA QuietData ==
    ASSUME TypeOK, DInv, Queued', Reads', UNCHANGED <<toHost, peerHost, peerSent, peerState>>,
           \A i \in IDs : QEnd(i)' = QEnd(i),
           \A i \in IDs : remoteID[i] # 0 => remoteID'[i] = remoteID[i],
           \A i \in IDs : Live(i)' => Live(i) \/ Unknown(i),
           \A i \in IDs : InHand(i)' => InHand(i) /\ rmsg' = rmsg,
           \A i \in IDs : InHand(i) /\ Live(i)' => InHand(i)',
           pc'[Reader] \in {"handle", "peerClose"} => pc[Reader] \in {"handle", "peerClose"} /\ rmsg' = rmsg,
           \A i \in IDs : closed'[i] /\ err'[i] = "nil" => Finished(i),
           \A p \in Procs : cause'[p] = "nil" => \A i \in todo'[p] : i \in IDs /\ Finished(i),
           pc'[Reader] = "closeStream" /\ cause'[Reader] = "nil" => id'[Reader] \in IDs /\ Finished(id'[Reader])
    PROVE  DInv'
<1> USE LinkTypes, DataTypes DEF DInv
<1>1. Chunks' BY DEF Chunks
<1>2. Complete'
  <2> SUFFICES ASSUME NEW q \in IDs, peerHost'[q] # 0, Live(peerHost[q])' PROVE InOrder(peerHost[q], q)'
    BY DEF Complete
  <2>1. PICK i \in IDs : i = peerHost[q] OBVIOUS
  <2>2. Live(i)' BY <2>1
  <2>3. Live(i) BY <2>1, <2>2 DEF Unknown
  <2>4. InOrder(i, q) BY <2>1, <2>3 DEF Complete
  <2>5. InOrder(i, q)' BY <2>2, <2>4, InOrderKept
  <2> QED BY <2>1, <2>5
<1>3. LastIsClse' BY DEF LastIsClse
<1>4. CleanEnds'
  <2>1. ASSUME NEW i \in IDs, Finished(i) PROVE Finished(i)'
    <3>1. remoteID[i] # 0 /\ peerState[remoteID[i]] = "closed" BY <2>1 DEF Finished
    <3> QED BY <2>1, <3>1, FinishedKept
  <2>2. \A i \in IDs : closed'[i] /\ err'[i] = "nil" => Finished(i)' BY <2>1
  <2>3. \A p \in Procs : cause'[p] = "nil" => \A i \in todo'[p] : Finished(i)' BY <2>1
  <2>4. pc'[Reader] = "closeStream" /\ cause'[Reader] = "nil" => Finished(id[Reader])'
    <3> SUFFICES ASSUME pc'[Reader] = "closeStream", cause'[Reader] = "nil" PROVE Finished(id[Reader])' OBVIOUS
    <3>1. PICK i \in IDs : i = id'[Reader] /\ Finished(i) OBVIOUS
    <3>2. Finished(i)' BY <2>1, <3>1
    <3> QED BY <3>1, <3>2
  <2> QED BY <2>2, <2>3, <2>4 DEF CleanEnds
<1> QED BY <1>1, <1>2, <1>3, <1>4

\* A goroutine other than the reader moves, or starts the reader.
LEMMA ThreadData ==
    ASSUME IInv, LInv, DInv, UNCHANGED <<toHost, dataCh, buf, delivered, reading, peerHost, peerSent, peerState, rmsg>>,
           \A i \in IDs : remoteID[i] # 0 => remoteID'[i] = remoteID[i],
           \A i \in IDs : closed[i] => closed'[i] /\ err'[i] = err[i],
           \A i \in IDs : closed'[i] => closed[i] \/ err'[i] # "nil" \/ Finished(i),
           \A i \in streams' : i \in streams \/ Unknown(i),
           pc'[Reader] = pc[Reader] \/ (pc[Reader] = "off" /\ pc'[Reader] = "read"), id'[Reader] = id[Reader],
           cause'[Reader] = cause[Reader],
           \A p \in Procs : cause'[p] = "nil" => todo'[p] = {} \/ (cause[p] = "nil" /\ todo'[p] \subseteq todo[p])
    PROVE  DInv'
<1>a. TypeOK BY DEF IInv
<1> USE <1>a, LinkTypes, DataTypes
<1>1. \A i \in IDs : /\ Received(i)' = Received(i) /\ QEnd(i)' = QEnd(i) /\ (Unknown(i)' <=> Unknown(i))
                     /\ InHand(i)' <=> InHand(i)
                     /\ Live(i)' => Live(i) \/ Unknown(i)
  BY DEF Received, QEnd, Unknown, InHand, Live, OnFound
<1>2. Queued' BY <1>1 DEF DInv, Queued
<1>3. Reads' BY DEF DInv, Reads
<1>4. \A i \in IDs : closed'[i] /\ err'[i] = "nil" => Finished(i) BY DEF DInv, CleanEnds
<1>5. \A p \in Procs : cause'[p] = "nil" => \A i \in todo'[p] : i \in IDs /\ Finished(i) BY DEF DInv, CleanEnds
<1>6. pc'[Reader] = "closeStream" /\ cause'[Reader] = "nil" => id'[Reader] \in IDs /\ Finished(id'[Reader])
  BY DEF DInv, CleanEnds, OnStream
<1>7. pc'[Reader] \in {"handle", "peerClose"} => pc[Reader] \in {"handle", "peerClose"} /\ rmsg' = rmsg OBVIOUS
<1> QED BY <1>1, <1>2, <1>3, <1>4, <1>5, <1>6, <1>7, QuietData

\* closeStream, closeAllStreams and closeWithError: a clean end is one after the last byte.
LEMMA ClosingData == ASSUME IInv, LInv, DInv, NEW p \in Procs, Closing(p) PROVE DInv'
<1>a. TypeOK /\ Joined /\ CleanEnds BY DEF IInv, LInv, DInv
<1> USE <1>a, LinkTypes, DataTypes
<1>b. /\ UNCHANGED <<toHost, dataCh, buf, delivered, reading, remoteID, peerHost, peerSent, peerState>>
      /\ streams' \subseteq streams
  BY DEF Closing, closeStream, closeAllStreams, closeWithError, fireOpen, closeReturn, Detach, noData, noWrite,
         connVars, wireVars, streamVars, appVars, peerVars
<1>c. pc[p] \in {"closeStream", "closeAll", "closing", "fire"} /\ pc'[p] \in {"closing", "fire", "stopped", "read", "closeTransport", "idle"}
  <2>1. CASE closeStream(p) \/ closeAllStreams(p) BY <2>1 DEF closeStream, closeAllStreams, Detach, Goto
  <2>2. CASE closeWithError(p) BY <2>2 DEF closeWithError, Enter
  <2>3. CASE fireOpen(p) BY <2>3 DEF fireOpen, Goto
  <2>4. CASE closeReturn(p) BY <2>4 DEF closeReturn, Return, AfterClose
  <2> QED BY <2>1, <2>2, <2>3, <2>4 DEF Closing
<1>d. \A r \in Procs \ {p} : pc'[r] = pc[r] /\ id'[r] = id[r] /\ cause'[r] = cause[r] /\ todo'[r] = todo[r]
  BY DEF Closing, closeStream, closeAllStreams, closeWithError, fireOpen, closeReturn, Detach, Goto, Enter, Return,
         noData, noWrite
<1>e. p # Reader => rmsg' = rmsg
  BY DEF Closing, closeStream, closeAllStreams, closeWithError, fireOpen, closeReturn, Detach, Goto, Enter, Return
<1>f. \A i \in IDs : closed'[i] /\ err'[i] = "nil" => Finished(i)
  <2>1. CASE UNCHANGED <<closed, err>> BY <2>1 DEF CleanEnds
  <2>2. CASE closeWithError(p)
    <3>1. PICK j \in todo[p] : closeWithError(p)!2!(j) BY <2>2 DEF closeWithError
    <3>2. ~closed[j] /\ j \in IDs BY DEF IInv, CloseOnce
    <3>3. closed' = [closed EXCEPT ![j] = TRUE] /\ err' = [err EXCEPT ![j] = cause[p]] BY <3>1, <3>2
    <3>4. cause[p] = "nil" => Finished(j) BY DEF CleanEnds
    <3> QED BY <3>2, <3>3, <3>4 DEF CleanEnds
  <2> QED BY <2>1, <2>2 DEF Closing, closeStream, closeAllStreams, closeWithError, fireOpen, closeReturn, Detach,
     noData, noWrite, streamVars
<1>g. cause'[p] = "nil" => \A i \in todo'[p] : i \in IDs /\ Finished(i)
  <2>1. CASE closeStream(p)
    <3>1. cause'[p] = cause[p] /\ todo'[p] = {id[p]} \cap streams /\ pc[p] = "closeStream"
      BY <2>1 DEF closeStream, Detach, Goto
    <3>2. cause[p] = "nil" => p = Reader BY <3>1 DEF Joined
    <3> QED BY <3>1, <3>2 DEF CleanEnds
  <2>2. CASE closeAllStreams(p)
    <3>1. cause'[p] = cause[p] /\ pc[p] = "closeAll" BY <2>2 DEF closeAllStreams, Detach, Goto
    <3> QED BY <3>1 DEF Joined
  <2>3. CASE closeWithError(p)
    <3>1. cause'[p] = cause[p] /\ todo'[p] \subseteq todo[p] BY <2>3 DEF closeWithError, Enter
    <3> QED BY <3>1 DEF CleanEnds
  <2>4. CASE fireOpen(p) BY <2>4 DEF fireOpen, Goto, CleanEnds
  <2>5. CASE closeReturn(p) BY <2>5 DEF closeReturn, noData, noWrite
  <2> QED BY <2>1, <2>2, <2>3, <2>4, <2>5 DEF Closing
<1>h. \A r \in Procs : cause'[r] = "nil" => \A i \in todo'[r] : i \in IDs /\ Finished(i) BY <1>d, <1>g DEF CleanEnds
<1>1. \A i \in IDs : Received(i)' = Received(i) /\ QEnd(i)' = QEnd(i) /\ (Unknown(i)' <=> Unknown(i))
  BY <1>b DEF Received, QEnd, Unknown
<1>2. Queued' BY <1>b, <1>1 DEF DInv, Queued
<1>3. Reads'
  <2>1. \A i \in IDs : closed[i] => closed'[i] /\ err'[i] = err[i]
    <3>1. CASE UNCHANGED <<closed, err>> BY <3>1
    <3>2. CASE closeWithError(p)
      <4>1. PICK j \in todo[p] : closeWithError(p)!2!(j) BY <3>2 DEF closeWithError
      <4>2. ~closed[j] /\ j \in IDs BY DEF IInv, CloseOnce
      <4> QED BY <4>1, <4>2
    <3> QED BY <3>1, <3>2 DEF Closing, closeStream, closeAllStreams, closeWithError, fireOpen, closeReturn, Detach,
       noData, noWrite, streamVars
  <2> QED BY <1>b, <2>1 DEF DInv, Reads
<1>4. CASE p # Reader
  <2>1. pc'[Reader] = pc[Reader] /\ id'[Reader] = id[Reader] /\ cause'[Reader] = cause[Reader] /\ rmsg' = rmsg
    BY <1>d, <1>e, <1>4
  <2>2. \A i \in IDs : (InHand(i)' <=> InHand(i)) /\ (Live(i)' => Live(i)) BY <1>b, <2>1 DEF InHand, Live
  <2>3. pc'[Reader] = "closeStream" /\ cause'[Reader] = "nil" => id'[Reader] \in IDs /\ Finished(id'[Reader])
    BY <2>1 DEF CleanEnds, OnStream
  <2> QED BY <1>b, <1>f, <1>h, <1>1, <1>2, <1>3, <2>1, <2>2, <2>3, QuietData
<1>5. CASE p = Reader
  <2>1. \A i \in IDs : ~InHand(i) /\ ~InHand(i)' /\ (Live(i)' => Live(i))
    BY <1>b, <1>c, <1>5 DEF InHand, Live, OnFound
  <2> QED BY <1>b, <1>c, <1>f, <1>h, <1>1, <1>2, <1>3, <1>5, <2>1, QuietData
<1> QED BY <1>4, <1>5

\* An id that was not allotted is joined to nothing.
LEMMA FreshUnknown == ASSUME TypeOK, LInv, NEW n \in IDs, n > nextLocalID PROVE remoteID[n] = 0 /\ Unknown(n)
<1> USE LinkTypes DEF LInv
<1>1. remoteID[n] = 0 BY DEF HostSide
<1>2. \A q \in IDs : peerHost[q] # n BY DEF PeerSide
<1> QED BY <1>1, <1>2 DEF Unknown

\* Inside a call, a goroutine touches no data.
LEMMA ThreadStepData == ASSUME IInv, LInv, DInv, NEW t \in Threads, ThreadStep(t) PROVE DInv'
<1>a. TypeOK /\ t \in Procs /\ t # Reader BY LinkTypes DEF IInv
<1> USE <1>a, LinkTypes, DataTypes
<1>1. CASE Closing(t) BY <1>1, ClosingData
<1>2. CASE newStream(t)
  <2>1. PICK n \in IDs : n = nextLocalID + 1 /\ n > nextLocalID BY <1>2 DEF newStream, newStreamLocked
  <2>2. /\ streams' = streams \cup {n} /\ remoteID' = [remoteID EXCEPT ![n] = 0] /\ pc[t] = "newStream"
        /\ pc' = [pc EXCEPT ![t] = "writeOpen"] /\ id' = [id EXCEPT ![t] = n] /\ cause' = [cause EXCEPT ![t] = "nil"]
        /\ UNCHANGED <<rmsg, todo, toHost, dataCh, buf, delivered, reading, closed, err, peerHost, peerSent, peerState>>
    BY <1>2, <2>1 DEF newStream, newStreamLocked, Enter, wireVars, appVars, peerVars
  <2>3. remoteID[n] = 0 /\ Unknown(n) BY <2>1, FreshUnknown
  <2>4. \A i \in IDs : remoteID[i] # 0 => remoteID'[i] = remoteID[i] BY <2>2, <2>3
  <2>5. \A i \in streams' : i \in streams \/ Unknown(i) BY <2>2, <2>3
  <2>6. todo[t] = {} BY <2>2 DEF IInv, TodoClosing
  <2> QED BY <2>2, <2>4, <2>5, <2>6, ThreadData
<1>3. CASE handleOpenStart(t)
  <2>1. /\ pc' = [[pc EXCEPT ![t] = "idle"] EXCEPT ![Reader] = IF @ = "off" THEN "read" ELSE @]
        /\ UNCHANGED <<id, cause, rmsg, todo, toHost, streams, remoteID, dataCh, buf, delivered, reading, closed, err,
                       peerHost, peerSent, peerState>>
    BY <1>3 DEF handleOpenStart, startReader, noData, noWrite, connVars, wireVars, streamVars, appVars, peerVars
  <2> QED BY <2>1, ThreadData
<1>4. CASE writeOpen(t) \/ removeStream(t) \/ openReturns(t) \/ writeClse(t) \/ writeData(t) \/ closeTransport(t)
  <2>1. /\ UNCHANGED <<rmsg, todo, toHost, remoteID, dataCh, buf, delivered, reading, closed, err, peerHost, peerSent, peerState>>
        /\ streams' \subseteq streams
    BY <1>4 DEF writeOpen, removeStream, openReturns, writeClse, writeData, closeTransport, writeMessage, Goto,
       Return, noWrite,
                connVars, wireVars, streamVars, appVars, peerVars
  <2>2. pc[t] \in {"writeOpen", "removeStream", "awaitOpen", "writeClse", "writeData", "closeTransport"}
    BY <1>4 DEF writeOpen, removeStream, openReturns, writeClse, writeData, closeTransport
  <2>3. \A p \in Procs \ {t} : pc'[p] = pc[p] /\ id'[p] = id[p] /\ cause'[p] = cause[p]
    BY <1>4 DEF writeOpen, removeStream, openReturns, writeClse, writeData, closeTransport, Goto, Return
  <2>4. todo[t] = {} BY <2>2 DEF IInv, TodoClosing
  <2> QED BY <2>1, <2>3, <2>4, ThreadData
<1> QED BY <1>1, <1>2, <1>3, <1>4 DEF ThreadStep

\* Nor does starting or cancelling one.
LEMMA ThreadCallData == ASSUME IInv, LInv, DInv, NEW t \in Threads, ThreadCall(t) PROVE DInv'
<1>a. TypeOK /\ t \in Procs /\ t # Reader BY LinkTypes DEF IInv
<1> USE <1>a, LinkTypes, DataTypes
<1>1. CASE OpenContext(t)
  <2>1. /\ pc' = [[pc EXCEPT ![t] = "newStream"] EXCEPT ![Reader] = IF @ = "off" THEN "read" ELSE @]
        /\ UNCHANGED <<id, cause, rmsg, todo, toHost, streams, remoteID, dataCh, buf, delivered, reading, closed, err,
                       peerHost, peerSent, peerState>>
    BY <1>1 DEF OpenContext, startReader, connVars, wireVars, streamVars, peerVars
  <2> QED BY <2>1, ThreadData
<1>2. CASE openCanceled(t) \/ StreamClose(t) \/ Write(t) \/ HandleOpen(t) \/ RemoveOpenHandler(t) \/ ConnectionClose(t)
  <2>1. UNCHANGED <<rmsg, todo, toHost, streams, remoteID, dataCh, buf, delivered, reading, closed, err, peerHost, peerSent, peerState>>
    BY <1>2 DEF openCanceled, StreamClose, Write, HandleOpen, RemoveOpenHandler, ConnectionClose, Close, Enter, Goto,
                noData, noWrite, connVars, wireVars, streamVars, appVars, procVars, peerVars
  <2>2. pc[t] \in {"idle", "awaitOpen"}
    BY <1>2 DEF openCanceled, StreamClose, Write, HandleOpen, RemoveOpenHandler, ConnectionClose
  <2>3. \A p \in Procs \ {t} : pc'[p] = pc[p] /\ id'[p] = id[p] /\ cause'[p] = cause[p]
    BY <1>2 DEF openCanceled, StreamClose, Write, HandleOpen, RemoveOpenHandler, ConnectionClose, Close, Enter, Goto,
       procVars
  <2>4. todo[t] = {} BY <2>2 DEF IInv, TodoClosing
  <2> QED BY <2>1, <2>3, <2>4, ThreadData
<1> QED BY <1>1, <1>2 DEF ThreadCall

-----------------------------------------------------------------------------
(* The reader and the readers of streams.                                  *)

\* Numbers in order.
LEMMA NextByte == ASSUME NEW a \in Nat, NEW b \in Nat, NEW c \in Nat, NEW d \in Nat, a <= b, b < c, c <= d
                  PROVE  a + 1 \in a + 1 .. d
  OBVIOUS

\* No chunk fits between two that follow each other.
LEMMA NoneBetween == ASSUME NEW a \in Nat, NEW b \in Nat, NEW c \in Nat, NEW d \in Nat, a <= b, b < c, c <= d, d < a + 1
                     PROVE  FALSE
  OBVIOUS

\* What is past a later byte is past an earlier one.
LEMMA LaterBytes == ASSUME NEW a \in Nat, NEW b \in Nat, NEW c \in Nat, a <= b, NEW n \in b + 1 .. c
                    PROVE  n \in a + 1 .. c /\ b < n /\ n \in Nat
  OBVIOUS

\* The next chunk the reader takes for a stream is the one that follows what it has queued.
LEMMA TakenInOrder ==
    ASSUME TypeOK, DInv, NEW i \in IDs, NEW q \in IDs, InOrder(i, q), toHost # <<>>, ~InHand(i),
           Carries(toHost[1], i)
    PROVE  Start(toHost[1].data) = QEnd(i)
<1>0. \A n \in REnd(i) + 1 .. peerSent[q] : \E k \in 1 .. Len(toHost) : Carries(toHost[k], i) /\ Start(toHost[k].data) < n
  BY DEF InOrder
<1>e. ASSUME NEW a \in Nat, NEW b \in Nat, a <= b, b < a + 1 PROVE b = a BY <1>e
<1> USE LinkTypes, DataTypes DEF DInv
<1>1. 1 \in 1 .. Len(toHost) /\ Len(toHost) \in Nat BY Taken
<1>2. QEnd(i) \in Nat /\ REnd(i) = QEnd(i) BY EndsNat DEF REnd
<1>3. /\ Start(toHost[1].data) \in Nat /\ End(toHost[1].data) \in Nat /\ Start(toHost[1].data) < End(toHost[1].data)
  BY <1>1, FlightChunks
<1>4. QEnd(i) <= Start(toHost[1].data) /\ End(toHost[1].data) <= peerSent[q] BY <1>1, <1>2 DEF InOrder
<1>5. PICK k \in 1 .. Len(toHost) : Carries(toHost[k], i) /\ Start(toHost[k].data) < QEnd(i) + 1
  <2>0. peerSent[q] \in Nat OBVIOUS
  <2>1. QEnd(i) + 1 \in REnd(i) + 1 .. peerSent[q] BY <1>2, <1>3, <1>4, <2>0, NextByte
  <2> QED BY <1>0, <2>1
<1>6. Start(toHost[k].data) \in Nat BY <1>5, FlightChunks
<1>7. CASE k = 1 BY <1>e, <1>2, <1>3, <1>4, <1>5, <1>7
<1>8. CASE k # 1
  <2>1. 1 < k BY <1>8
  <2>2. End(toHost[1].data) <= Start(toHost[k].data) BY <1>1, <1>5, <2>1 DEF InOrder
  <2> QED BY <1>2, <1>3, <1>4, <1>5, <1>6, <2>2, NoneBetween
<1> QED BY <1>7, <1>8

\* readLoop takes the first packet.
LEMMA ReadMessageData == ASSUME IInv, LInv, DInv, readMessage PROVE DInv'
<1>a. TypeOK BY DEF IInv
<1> USE <1>a, LinkTypes, DataTypes DEF DInv
<1>b. /\ pc[Reader] = "read" /\ toHost # <<>> /\ rmsg' = Head(toHost) /\ toHost' = Tail(toHost)
      /\ pc' = [pc EXCEPT ![Reader] = "handle"]
      /\ UNCHANGED <<streams, remoteID, dataCh, buf, delivered, reading, closed, err, id, cause, todo, peerHost, peerSent, peerState>>
  BY DEF readMessage, connVars, streamVars, appVars, peerVars
<1>h. PICK h \in Messages : h = toHost[1] /\ rmsg' = h BY <1>b, Taken
<1>t. /\ 1 \in 1 .. Len(toHost) /\ Len(toHost) \in Nat /\ Len(toHost') = Len(toHost) - 1
      /\ \A k \in 1 .. Len(toHost') : k + 1 \in 1 .. Len(toHost) /\ toHost'[k] = toHost[k + 1] /\ k \in Nat /\ 1 < k + 1
  BY <1>b, Taken
<1>n. \A i \in IDs : ~InHand(i) /\ (InHand(i)' <=> Carries(h, i)) BY <1>b, <1>h DEF InHand, Carries
<1>1. \A i \in IDs : Received(i)' = Received(i) /\ QEnd(i)' = QEnd(i) /\ (Unknown(i)' <=> Unknown(i)) /\ (Live(i)' => Live(i))
  BY <1>b DEF Received, QEnd, Unknown, Live, OnFound
<1>2. Queued' /\ Reads' BY <1>b, <1>1 DEF Queued, Reads
<1>3. Chunks'
  <2>1. \A i \in IDs : InHand(i)' => Chunk(rmsg.data)' BY <1>h, <1>n, <1>t DEF Chunks, Carries
  <2> QED BY <1>b, <1>t, <2>1 DEF Chunks
<1>4. Complete'
  <2> SUFFICES ASSUME NEW q \in IDs, peerHost'[q] # 0, Live(peerHost[q])' PROVE InOrder(peerHost[q], q)'
    BY DEF Complete
  <2>1. PICK i \in IDs : i = peerHost[q] BY <1>b
  <2>2. Live(i)' BY <1>b, <2>1
  <2>3. InOrder(i, q) BY <1>1, <2>1, <2>2 DEF Complete
  <2>4. REnd(i) = QEnd(i) /\ QEnd(i) \in Nat BY <1>n, EndsNat DEF REnd
  <2>5. InOrder(i, q)'
    <3>1. CASE Carries(h, i)
      <4>1. Start(h.data) = QEnd(i) BY <1>b, <1>h, <1>n, <2>3, <3>1, TakenInOrder
      <4>2. REnd(i)' = End(h.data) BY <1>h, <1>n, <3>1 DEF REnd
      <4>3. End(h.data) \in Nat /\ Start(h.data) < End(h.data) /\ End(h.data) <= peerSent[q]
        BY <1>h, <1>t, <2>3, <3>1, FlightChunks DEF InOrder
      <4>4. ASSUME NEW k \in 1 .. Len(toHost'), Carries(toHost'[k], i)
            PROVE  REnd(i)' <= Start(toHost'[k].data) /\ End(toHost'[k].data) <= peerSent'[q]
        <5>1. k + 1 \in 1 .. Len(toHost) /\ toHost'[k] = toHost[k + 1] /\ 1 < k + 1 BY <1>t
        <5> QED BY <1>b, <1>h, <1>t, <2>3, <3>1, <4>2, <4>4, <5>1 DEF InOrder
      <4>5. ASSUME NEW k \in 1 .. Len(toHost'), NEW l \in 1 .. Len(toHost'), k < l, Carries(toHost'[k], i), Carries(toHost'[l], i)
            PROVE  End(toHost'[k].data) <= Start(toHost'[l].data)
        <5>1. k + 1 < l + 1 BY <1>t, <4>5
        <5> QED BY <1>t, <2>3, <4>5, <5>1 DEF InOrder
      <4>6. ASSUME NEW n \in REnd(i)' + 1 .. peerSent'[q]
            PROVE  \E k \in 1 .. Len(toHost') : Carries(toHost'[k], i) /\ Start(toHost'[k].data) < n /\ n <= End(toHost'[k].data)
        <5>0. n \in End(h.data) + 1 .. peerSent[q] /\ peerSent[q] \in Nat /\ QEnd(i) <= End(h.data)
          <6>1. n \in End(h.data) + 1 .. peerSent[q] BY <1>b, <4>2
          <6>2. QEnd(i) <= End(h.data) BY <2>4, <4>1, <4>3
          <6> QED BY <6>1, <6>2
        <5>1. n \in REnd(i) + 1 .. peerSent[q] /\ End(h.data) < n BY <2>4, <4>3, <5>0, LaterBytes
        <5>2. PICK k \in 1 .. Len(toHost) : Carries(toHost[k], i) /\ Start(toHost[k].data) < n /\ n <= End(toHost[k].data)
          BY <2>3, <5>1 DEF InOrder
        <5>3. k # 1 BY <1>h, <4>3, <5>1, <5>2
        <5>4. k - 1 \in 1 .. Len(toHost') /\ (k - 1) + 1 = k BY <1>t, <5>3
        <5>5. toHost'[k - 1] = toHost[k] BY <1>t, <5>4
        <5> QED BY <5>2, <5>4, <5>5
      <4>7. InHand(i)' => Start(rmsg.data)' = QEnd(i)' BY <1>h, <1>1, <4>1
      <4>8. REnd(i)' <= peerSent'[q] BY <1>b, <4>2, <4>3
      <4> QED BY <4>4, <4>5, <4>6, <4>7, <4>8 DEF InOrder
    <3>2. CASE ~Carries(h, i)
      <4>1. REnd(i)' = REnd(i) /\ ~InHand(i)' BY <1>n, <1>1, <2>4, <3>2 DEF REnd
      <4>4. ASSUME NEW k \in 1 .. Len(toHost'), Carries(toHost'[k], i)
            PROVE  REnd(i)' <= Start(toHost'[k].data) /\ End(toHost'[k].data) <= peerSent'[q]
        <5>1. k + 1 \in 1 .. Len(toHost) /\ toHost'[k] = toHost[k + 1] BY <1>t
        <5> QED BY <1>b, <2>3, <4>1, <4>4, <5>1 DEF InOrder
      <4>5. ASSUME NEW k \in 1 .. Len(toHost'), NEW l \in 1 .. Len(toHost'), k < l, Carries(toHost'[k], i), Carries(toHost'[l], i)
            PROVE  End(toHost'[k].data) <= Start(toHost'[l].data)
        <5>1. k + 1 < l + 1 BY <1>t, <4>5
        <5> QED BY <1>t, <2>3, <4>5, <5>1 DEF InOrder
      <4>6. ASSUME NEW n \in REnd(i)' + 1 .. peerSent'[q]
            PROVE  \E k \in 1 .. Len(toHost') : Carries(toHost'[k], i) /\ Start(toHost'[k].data) < n /\ n <= End(toHost'[k].data)
        <5>1. n \in REnd(i) + 1 .. peerSent[q] BY <1>b, <4>1
        <5>2. PICK k \in 1 .. Len(toHost) : Carries(toHost[k], i) /\ Start(toHost[k].data) < n /\ n <= End(toHost[k].data)
          BY <2>3, <5>1 DEF InOrder
        <5>3. k # 1 BY <1>h, <3>2, <5>2
        <5>4. k - 1 \in 1 .. Len(toHost') /\ (k - 1) + 1 = k BY <1>t, <5>3
        <5>5. toHost'[k - 1] = toHost[k] BY <1>t, <5>4
        <5> QED BY <5>2, <5>4, <5>5
      <4>8. REnd(i)' <= peerSent'[q] BY <1>b, <2>3, <4>1 DEF InOrder
      <4> QED BY <4>1, <4>4, <4>5, <4>6, <4>8 DEF InOrder
    <3> QED BY <3>1, <3>2
  <2> QED BY <1>b, <2>1, <2>5
<1>5. LastIsClse'
  <2>1. ASSUME NEW k \in 1 .. Len(toHost'), NEW l \in 1 .. Len(toHost'), k < l, toHost'[k].cmd = "CLSE"
        PROVE  ~Carries(toHost'[l], toHost'[k].arg1)
    <3>1. k + 1 < l + 1 BY <1>t, <2>1
    <3>2. k + 1 \in 1 .. Len(toHost) /\ toHost'[k] = toHost[k + 1] BY <1>t
    <3>3. l + 1 \in 1 .. Len(toHost) /\ toHost'[l] = toHost[l + 1] BY <1>t
    <3> QED BY <2>1, <3>1, <3>2, <3>3 DEF LastIsClse
  <2>2. ASSUME h.cmd = "CLSE", NEW l \in 1 .. Len(toHost') PROVE ~Carries(toHost'[l], h.arg1)
    <3>1. l + 1 \in 1 .. Len(toHost) /\ toHost'[l] = toHost[l + 1] /\ 1 < l + 1 BY <1>t
    <3> QED BY <1>h, <1>t, <2>2, <3>1 DEF LastIsClse
  <2> QED BY <1>h, <2>1, <2>2 DEF LastIsClse
<1>6. CleanEnds'
  <2>1. ASSUME NEW i \in IDs, Finished(i) PROVE Finished(i)'
    <3>1. ~Carries(h, i) /\ \A k \in 1 .. Len(toHost') : ~Carries(toHost'[k], i) BY <1>h, <1>t, <2>1 DEF Finished
    <3> QED BY <1>b, <1>n, <1>1, <2>1, <3>1 DEF Finished
  <2>2. \A p \in Procs : todo[p] \subseteq IDs OBVIOUS
  <2>3. pc'[Reader] # "closeStream" BY <1>b
  <2> QED BY <1>b, <2>1, <2>2, <2>3 DEF CleanEnds
<1> QED BY <1>2, <1>3, <1>4, <1>5, <1>6

\* The reader moves without queueing data.
LEMMA ReaderMoveData ==
    ASSUME IInv, DInv, pc[Reader] \notin {"closing", "fire"}, \A p \in Threads : cause'[p] = cause[p],
           UNCHANGED <<toHost, dataCh, buf, delivered, reading, closed, err, todo, peerHost, peerSent, peerState>>,
           \A i \in IDs : remoteID[i] # 0 => remoteID'[i] = remoteID[i],
           \A i \in IDs : Live(i)' => Live(i) \/ Unknown(i),
           \A i \in IDs : InHand(i)' => InHand(i) /\ rmsg' = rmsg,
           \A i \in IDs : InHand(i) /\ Live(i)' => InHand(i)',
           pc'[Reader] \in {"handle", "peerClose"} => pc[Reader] \in {"handle", "peerClose"} /\ rmsg' = rmsg,
           pc'[Reader] = "closeStream" /\ cause'[Reader] = "nil" => id'[Reader] \in IDs /\ Finished(id'[Reader])
    PROVE  DInv'
<1>a. TypeOK BY DEF IInv
<1> USE <1>a, LinkTypes, DataTypes
<1>1. \A i \in IDs : Received(i)' = Received(i) /\ QEnd(i)' = QEnd(i) /\ (Unknown(i)' <=> Unknown(i))
  BY DEF Received, QEnd, Unknown
<1>2. Queued' BY <1>1 DEF DInv, Queued
<1>3. Reads' BY DEF DInv, Reads
<1>4. \A i \in IDs : closed'[i] /\ err'[i] = "nil" => Finished(i) BY DEF DInv, CleanEnds
<1>5. \A p \in Procs : cause'[p] = "nil" => \A i \in todo'[p] : i \in IDs /\ Finished(i)
  <2>1. todo[Reader] = {} BY DEF IInv, TodoClosing
  <2>2. \A p \in Procs : p = Reader \/ p \in Threads BY DEF Procs
  <2> QED BY <2>1, <2>2 DEF DInv, CleanEnds
<1> QED BY <1>1, <1>2, <1>3, <1>4, <1>5, QuietData

\* A CLSE of an established stream comes after all of its data.
LEMMA PeerCloseFinished ==
    ASSUME IInv, LInv, DInv, pc[Reader] = "peerClose", remoteID[id[Reader]] # 0
    PROVE  id[Reader] \in IDs /\ Finished(id[Reader])
<1>a. TypeOK BY DEF IInv
<1> USE <1>a, LinkTypes, DataTypes DEF DInv
<1>1. PICK i \in IDs : i = id[Reader] /\ rmsg.arg1 = i /\ rmsg.cmd = "CLSE"
  BY DEF OnStream, LInv, ReaderAt, OnFound
<1>2. PICK q \in IDs : q = rmsg.arg0 /\ peerHost[q] = i /\ peerState[q] = "closed"
  BY <1>1, MessageFields DEF LInv, HostPackets, Handling, ToHost, Unjoined
<1>3. remoteID[i] = q BY <1>1, <1>2 DEF LInv, PeerSide
<1>4. ~InHand(i) BY <1>1 DEF InHand
<1>5. Live(i) BY <1>1 DEF Live, OnFound
<1>6. InOrder(i, q) BY <1>2, <1>5 DEF Complete
<1>7. \A k \in 1 .. Len(toHost) : ~Carries(toHost[k], i) BY <1>1 DEF LastIsClse
<1>8. QEnd(i) = peerSent[q]
  <2>1. QEnd(i) \in Nat /\ REnd(i) = QEnd(i) /\ peerSent[q] \in Nat BY <1>4, EndsNat DEF REnd
  <2>2. QEnd(i) <= peerSent[q] BY <1>6, <2>1 DEF InOrder
  <2>3. \A n \in QEnd(i) + 1 .. peerSent[q] : FALSE BY <1>6, <1>7, <2>1 DEF InOrder
  <2>4. ASSUME NEW a \in Nat, NEW b \in Nat, a <= b, \A n \in a + 1 .. b : FALSE PROVE a = b
    <3>1. CASE b > a
      <4>1. b \in a + 1 .. b BY <3>1
      <4> QED BY <2>4, <4>1
    <3> QED BY <2>4, <3>1
  <2> QED BY <2>1, <2>2, <2>3, <2>4
<1> QED BY <1>1, <1>2, <1>3, <1>4, <1>7, <1>8 DEF Finished

\* The queue of a stream that took one more chunk.
LEMMA QueueGrows ==
    ASSUME TypeOK, NEW i \in IDs, NEW c \in Seq(Nat), dataCh'[i] = Append(dataCh[i], c)
    PROVE  /\ Len(dataCh[i]) \in Nat /\ dataCh'[i] # <<>> /\ Len(dataCh'[i]) = Len(dataCh[i]) + 1
           /\ dataCh'[i][Len(dataCh[i]) + 1] = c
           /\ \A k \in 1 .. Len(dataCh[i]) : dataCh'[i][k] = dataCh[i][k]
           /\ \A k \in 1 .. Len(dataCh'[i]) : k \in 1 .. Len(dataCh[i]) \/ k = Len(dataCh[i]) + 1
<1>1. dataCh[i] \in Seq(Seq(Nat)) BY DataTypes
<1>2. PICK s \in Seq(Seq(Nat)) : s = dataCh[i] BY <1>1
<1>3. PICK t : t = dataCh'[i] OBVIOUS
<1>4. t = Append(s, c) BY <1>2, <1>3
<1>5. Len(s) \in Nat /\ t # <<>> /\ Len(t) = Len(s) + 1 /\ t[Len(s) + 1] = c
  <2>1. Len(s) \in Nat OBVIOUS
  <2>2. t \in Seq(Seq(Nat)) /\ Len(t) = Len(s) + 1 BY <1>4
  <2>3. t[Len(s) + 1] = c BY <1>4, <2>1
  <2>4. t # <<>> BY <2>1, <2>2
  <2> QED BY <2>1, <2>2, <2>3, <2>4
<1>6. \A k \in 1 .. Len(s) : t[k] = s[k] BY <1>4
<1>7. ASSUME NEW a \in Nat, NEW b, b = a + 1, NEW k \in 1 .. b PROVE k \in 1 .. a \/ k = a + 1 BY <1>7
<1>8. \A k \in 1 .. Len(t) : k \in 1 .. Len(s) \/ k = Len(s) + 1 BY <1>5, <1>7
<1> QED BY <1>2, <1>3, <1>5, <1>6, <1>8, Zenon

\* receive queues the payload of a WRTE behind what was queued before.
LEMMA ReceiveData ==
    ASSUME IInv, LInv, DInv, pc[Reader] = "receive", ~closed[id[Reader]],
           dataCh'[id[Reader]] = Append(dataCh[id[Reader]], rmsg.data),
           \A j \in IDs \ {id[Reader]} : dataCh'[j] = dataCh[j], Return(Reader, "read"),
           UNCHANGED <<streams, toHost, remoteID, closed, err, buf, delivered, reading, todo, peerHost, peerSent, peerState>>
    PROVE  DInv'
<1>a. TypeOK BY DEF IInv
<1> USE <1>a, LinkTypes DEF DInv
<1>i. PICK i \in IDs : i = id[Reader] /\ rmsg.arg1 = i /\ rmsg.cmd = "WRTE"
  BY DEF OnStream, LInv, ReaderAt, OnFound
<1>q. PICK q \in IDs : q = rmsg.arg0 /\ peerHost[q] = i BY <1>i DEF LInv, HostPackets, Handling, ToHost
<1>c. PICK c \in Seq(Nat) : c = rmsg.data BY MessageFields
<1>b. /\ pc' = [pc EXCEPT ![Reader] = "read"] /\ cause' = [cause EXCEPT ![Reader] = "nil"]
      /\ dataCh'[i] = Append(dataCh[i], c)
  BY <1>i, <1>c DEF Return
<1>h. InHand(i) /\ \A j \in IDs : (j # i => ~InHand(j)) /\ ~InHand(j)' BY <1>i, <1>b DEF InHand
<1>o. Live(i) /\ InOrder(i, q)
  <2>1. Live(i) BY <1>i DEF Live, OnFound
  <2> QED BY <1>q, <2>1 DEF Complete
<1>d. Chunk(c) /\ Start(c) = QEnd(i) BY <1>c, <1>h, <1>o DEF Chunks, InOrder
<1>e. /\ Len(dataCh[i]) \in Nat /\ dataCh'[i] # <<>> /\ Len(dataCh'[i]) = Len(dataCh[i]) + 1
      /\ dataCh'[i][Len(dataCh[i]) + 1] = c
      /\ \A k \in 1 .. Len(dataCh[i]) : dataCh'[i][k] = dataCh[i][k]
      /\ \A k \in 1 .. Len(dataCh'[i]) : k \in 1 .. Len(dataCh[i]) \/ k = Len(dataCh[i]) + 1
  BY <1>b, QueueGrows
<1>f. \A j \in IDs \ {i} : dataCh'[j] = dataCh[j] BY <1>i
<1>1. \A j \in IDs : Received(j)' = Received(j) /\ (Unknown(j)' <=> Unknown(j)) /\ (Live(j)' => Live(j))
  BY <1>b DEF Received, Unknown, Live, OnFound
<1>2. QEnd(i)' = End(c) /\ \A j \in IDs \ {i} : QEnd(j)' = QEnd(j)
  <2>1. QEnd(i)' = End(c) BY <1>e DEF QEnd
  <2>2. ASSUME NEW j \in IDs \ {i} PROVE QEnd(j)' = QEnd(j)
    <3>1. dataCh'[j] = dataCh[j] /\ Received(j)' = Received(j) BY <1>f, <1>1
    <3> QED BY <3>1 DEF QEnd
  <2> QED BY <2>1, <2>2
<1>3. \A j \in IDs : REnd(j)' = REnd(j) BY <1>c, <1>h, <1>2 DEF REnd
<1>4. Queued'
  <2>1. ASSUME NEW k \in 1 .. Len(dataCh'[i])
        PROVE  /\ Chunk(dataCh'[i][k])
               /\ Start(dataCh'[i][k]) = IF k = 1 THEN Received(i)' ELSE End(dataCh'[i][k - 1])
    <3>1. CASE k \in 1 .. Len(dataCh[i])
      <4>1. k # 1 => k - 1 \in 1 .. Len(dataCh[i]) BY <3>1
      <4> QED BY <1>e, <1>1, <3>1, <4>1 DEF Queued
    <3>2. CASE k = Len(dataCh[i]) + 1
      <4>1. CASE dataCh[i] = <<>> BY <1>d, <1>e, <1>1, <3>2, <4>1 DEF QEnd
      <4>2. CASE dataCh[i] # <<>>
        <5>1. k # 1 /\ k - 1 = Len(dataCh[i]) /\ k - 1 \in 1 .. Len(dataCh[i]) BY <1>e, <3>2, <4>2
        <5> QED BY <1>d, <1>e, <3>2, <4>2, <5>1 DEF QEnd
      <4> QED BY <4>1, <4>2
    <3> QED BY <1>e, <3>1, <3>2
  <2>2. ~Unknown(i) BY <1>q DEF Unknown
  <2>3. ASSUME NEW j \in IDs
        PROVE  /\ \A k \in 1 .. Len(delivered'[j]) : delivered'[j][k] = k
               /\ \A k \in 1 .. Len(buf'[j]) : buf'[j][k] = Len(delivered'[j]) + k
               /\ \A k \in 1 .. Len(dataCh'[j]) :
                    Chunk(dataCh'[j][k]) /\ Start(dataCh'[j][k]) = IF k = 1 THEN Received(j)' ELSE End(dataCh'[j][k - 1])
               /\ Unknown(j)' => dataCh'[j] = <<>> /\ buf'[j] = <<>> /\ delivered'[j] = <<>>
    <3>1. CASE j = i BY <1>1, <2>1, <2>2, <3>1 DEF Queued
    <3>2. CASE j # i
      <4>1. dataCh'[j] = dataCh[j] /\ Received(j)' = Received(j) /\ (Unknown(j)' <=> Unknown(j)) BY <1>f, <1>1, <3>2
      <4> QED BY <4>1 DEF Queued
    <3> QED BY <3>1, <3>2
  <2> QED BY <2>3 DEF Queued
<1>5. Chunks' BY <1>h DEF Chunks
<1>6. Complete'
  <2> SUFFICES ASSUME NEW r \in IDs, peerHost'[r] # 0, Live(peerHost[r])' PROVE InOrder(peerHost[r], r)'
    BY DEF Complete
  <2>1. PICK j \in IDs : j = peerHost[r] OBVIOUS
  <2>2. InOrder(j, r) BY <1>1, <2>1 DEF Complete
  <2>3. ~InHand(j)' /\ REnd(j)' = REnd(j) BY <1>h, <1>3
  <2>4. InOrder(j, r)' BY <2>2, <2>3 DEF InOrder
  <2> QED BY <2>1, <2>4
<1>7. LastIsClse' BY <1>b DEF LastIsClse
<1>8. CleanEnds'
  <2>1. ASSUME NEW j \in IDs, Finished(j) PROVE Finished(j)'
    <3>1. j # i BY <1>h, <2>1 DEF Finished
    <3> QED BY <1>h, <1>2, <2>1, <3>1 DEF Finished
  <2>2. \A p \in Procs : todo[p] \subseteq IDs OBVIOUS
  <2>3. pc'[Reader] # "closeStream" BY <1>b
  <2>4. todo[Reader] = {} BY DEF IInv, TodoClosing
  <2> QED BY <1>b, <2>1, <2>2, <2>3, <2>4 DEF CleanEnds
<1>9. Reads' BY <1>f, <1>i DEF Reads
<1> QED BY <1>4, <1>5, <1>6, <1>7, <1>8, <1>9

\* readLoop and its handlers hand every byte on, in order.
LEMMA ReaderData == ASSUME IInv, LInv, DInv, ReaderStep PROVE DInv'
<1>a. TypeOK BY DEF IInv
<1> USE <1>a, LinkTypes, DataTypes
<1>1. CASE readMessage BY <1>1, ReadMessageData
<1>2. CASE Closing(Reader) BY <1>2, ClosingData
<1>3. CASE readFailed
  <2>1. /\ pc' = [pc EXCEPT ![Reader] = "closeAll"] /\ cause' = [cause EXCEPT ![Reader] = "ErrDeviceClosed"] /\ pc[Reader] = "read"
        /\ UNCHANGED <<streams, toHost, remoteID, dataCh, buf, delivered, reading, closed, err, todo, peerHost, peerSent, peerState>>
    BY <1>3 DEF readFailed, Enter, wireVars, streamVars, appVars, peerVars
  <2>2. \A i \in IDs : (Live(i)' => Live(i)) /\ ~InHand(i)' /\ ~InHand(i) BY <2>1 DEF Live, InHand, OnFound
  <2> QED BY <2>1, <2>2, ReaderMoveData
<1>4. CASE streamByLocalID
  <2>b. /\ UNCHANGED <<streams, toHost, remoteID, dataCh, buf, delivered, reading, closed, err, todo, peerHost, peerSent, peerState>>
        /\ pc[Reader] = "handle" /\ rmsg.cmd # "OPEN"
    BY <1>4 DEF streamByLocalID, noData, noWrite, connVars, wireVars, streamVars, appVars, peerVars
  <2>1. CASE rmsg.arg1 \in streams
    <3>1. /\ pc' = [pc EXCEPT ![Reader] = HandlerOf(rmsg.cmd)] /\ id' = [id EXCEPT ![Reader] = rmsg.arg1]
          /\ cause' = [cause EXCEPT ![Reader] = "nil"] /\ rmsg' = rmsg
      BY <1>4, <2>1 DEF streamByLocalID, Enter
    <3>2. pc'[Reader] = IF rmsg.cmd = "CLSE" THEN "peerClose" ELSE "establish" BY <3>1 DEF HandlerOf
    <3>3. \A i \in IDs : (Live(i)' => Live(i)) /\ (InHand(i)' <=> InHand(i))
      BY <2>b, <2>1, <3>1, <3>2 DEF Live, InHand, OnFound
    <3> QED BY <2>b, <3>1, <3>2, <3>3, ReaderMoveData
  <2>2. CASE rmsg.arg1 \notin streams
    <3>1. /\ pc' = [pc EXCEPT ![Reader] = "read"] /\ cause' = [cause EXCEPT ![Reader] = "nil"]
      BY <1>4, <2>2 DEF streamByLocalID, Return
    <3>2. \A i \in IDs : (Live(i)' => Live(i)) /\ ~InHand(i)' /\ (InHand(i) => ~Live(i)')
      BY <2>b, <2>2, <3>1 DEF Live, InHand, OnFound
    <3> QED BY <2>b, <3>1, <3>2, ReaderMoveData
  <2> QED BY <2>1, <2>2
<1>5. CASE establish
  <2>1. /\ pc[Reader] = "establish" /\ pc' = [pc EXCEPT ![Reader] = "established"]
        /\ remoteID' = [remoteID EXCEPT ![id[Reader]] = IF @ = 0 THEN rmsg.arg0 ELSE @]
        /\ UNCHANGED <<id, cause, rmsg, streams, toHost, dataCh, buf, delivered, reading, closed, err, todo, peerHost, peerSent, peerState>>
    BY <1>5 DEF establish, Goto, connVars, wireVars, appVars, peerVars
  <2>2. \A i \in IDs : (Live(i)' => Live(i)) /\ (InHand(i)' <=> InHand(i)) BY <2>1 DEF Live, InHand, OnFound
  <2>3. \A i \in IDs : remoteID[i] # 0 => remoteID'[i] = remoteID[i] BY <2>1
  <2> QED BY <2>1, <2>2, <2>3, ReaderMoveData
<1>6. CASE established
  <2>b. /\ pc[Reader] = "established"
        /\ UNCHANGED <<streams, toHost, remoteID, dataCh, buf, delivered, reading, closed, err, todo, peerHost, peerSent, peerState>>
    BY <1>6 DEF established, connVars, wireVars, appVars, peerVars
  <2>1. CASE rmsg.cmd = "WRTE"
    <3>1. pc' = [pc EXCEPT ![Reader] = "ack"] /\ id' = id /\ cause' = cause /\ rmsg' = rmsg
      BY <1>6, <2>1 DEF established, Goto
    <3>2. \A i \in IDs : (Live(i)' => Live(i)) /\ (InHand(i)' <=> InHand(i)) BY <2>b, <3>1 DEF Live, InHand, OnFound
    <3> QED BY <2>b, <3>1, <3>2, ReaderMoveData
  <2>2. CASE rmsg.cmd # "WRTE"
    <3>1. pc' = [pc EXCEPT ![Reader] = "read"] /\ cause' = [cause EXCEPT ![Reader] = "nil"]
      BY <1>6, <2>2 DEF established, Return
    <3>2. \A i \in IDs : (Live(i)' => Live(i)) /\ ~InHand(i)' /\ ~InHand(i)
      BY <2>b, <2>2, <3>1 DEF Live, InHand, OnFound
    <3> QED BY <2>b, <3>1, <3>2, ReaderMoveData
  <2> QED BY <2>1, <2>2
<1>7. CASE acknowledge
  <2>1. /\ pc[Reader] = "ack" /\ pc' = [pc EXCEPT ![Reader] = "receive"]
        /\ UNCHANGED <<id, cause, rmsg, streams, toHost, remoteID, dataCh, buf, delivered, reading, closed, err, todo, peerHost, peerSent, peerState>>
    BY <1>7 DEF acknowledge, Goto, writeMessage, noWrite, connVars, streamVars, appVars, peerVars
  <2>2. \A i \in IDs : (Live(i)' => Live(i)) /\ (InHand(i)' <=> InHand(i)) BY <2>1 DEF Live, InHand, OnFound
  <2> QED BY <2>1, <2>2, ReaderMoveData
<1>8. CASE receive
  <2>b. /\ UNCHANGED <<streams, toHost, remoteID, closed, err, buf, delivered, reading, todo, peerHost, peerSent, peerState>>
        /\ pc[Reader] = "receive"
    BY <1>8 DEF receive, connVars, wireVars, appVars, peerVars
  <2>1. CASE UNCHANGED <<dataCh, pc, id, cause, rmsg>>
    <3>2. \A i \in IDs : (Live(i)' => Live(i)) /\ (InHand(i)' <=> InHand(i)) BY <2>b, <2>1 DEF Live, InHand
    <3> QED BY <2>b, <2>1, <3>2, ReaderMoveData
  <2>2. CASE /\ ~closed[id[Reader]] /\ dataCh' = [dataCh EXCEPT ![id[Reader]] = Append(@, rmsg.data)]
             /\ Return(Reader, "read")
    <3>1. id[Reader] \in IDs BY <2>b DEF OnStream
    <3>2. /\ dataCh'[id[Reader]] = Append(dataCh[id[Reader]], rmsg.data)
          /\ \A j \in IDs \ {id[Reader]} : dataCh'[j] = dataCh[j]
      BY <2>2, <3>1
    <3> QED BY <2>b, <2>2, <3>2, ReceiveData
  <2> QED BY <1>8, <2>1, <2>2 DEF receive
<1>9. CASE peerClose
  <2>1. /\ pc[Reader] = "peerClose" /\ pc' = [pc EXCEPT ![Reader] = "closeStream"] /\ id' = [id EXCEPT ![Reader] = id[Reader]]
        /\ cause' = [cause EXCEPT ![Reader] = IF remoteID[id[Reader]] # 0 THEN "nil" ELSE "ErrDeviceClosed"]
        /\ UNCHANGED <<streams, toHost, remoteID, dataCh, buf, delivered, reading, closed, err, todo, peerHost, peerSent, peerState>>
    BY <1>9 DEF peerClose, Enter, noData, noWrite, connVars, wireVars, streamVars, appVars, peerVars
  <2>2. \A i \in IDs : (Live(i)' => Live(i)) /\ ~InHand(i)' /\ ~InHand(i) BY <2>1 DEF Live, InHand, OnFound
  <2>3. cause'[Reader] = "nil" => remoteID[id[Reader]] # 0 BY <2>1
  <2>4. id'[Reader] = id[Reader] BY <2>1
  <2>5. cause'[Reader] = "nil" => id'[Reader] \in IDs /\ Finished(id'[Reader]) BY <2>1, <2>3, <2>4, PeerCloseFinished
  <2> QED BY <2>1, <2>2, <2>5, ReaderMoveData
<1>10. CASE handlePeerOpen
  <2>1. /\ pc[Reader] = "handle" /\ rmsg.cmd = "OPEN" /\ pc'[Reader] \in {"accept", "refuse"}
        /\ UNCHANGED <<id, cause, rmsg, streams, toHost, remoteID, dataCh, buf, delivered, reading, closed, err, todo, peerHost, peerSent, peerState>>
    BY <1>10 DEF handlePeerOpen, Goto, noData, noWrite, connVars, wireVars, streamVars, appVars, peerVars
  <2>2. \A i \in IDs : (Live(i)' => Live(i)) /\ ~InHand(i)' /\ ~InHand(i) BY <2>1 DEF Live, InHand, OnFound
  <2> QED BY <2>1, <2>2, ReaderMoveData
<1>11. CASE refuse
  <2>1. /\ pc[Reader] = "refuse" /\ pc' = [pc EXCEPT ![Reader] = "read"] /\ cause' = [cause EXCEPT ![Reader] = "nil"]
        /\ UNCHANGED <<streams, toHost, remoteID, dataCh, buf, delivered, reading, closed, err, todo, peerHost, peerSent, peerState>>
    BY <1>11 DEF refuse, Return, writeMessage, noWrite, connVars, streamVars, appVars, peerVars
  <2>2. \A i \in IDs : (Live(i)' => Live(i)) /\ ~InHand(i)' /\ ~InHand(i) BY <2>1 DEF Live, InHand, OnFound
  <2> QED BY <2>1, <2>2, ReaderMoveData
<1>12. CASE newAcceptedStream
  <2>1. PICK n \in IDs : n = nextLocalID + 1 /\ n > nextLocalID BY <1>12 DEF newAcceptedStream, newStreamLocked
  <2>2. /\ pc[Reader] = "accept" /\ pc' = [pc EXCEPT ![Reader] = "writeOkay"] /\ cause' = [cause EXCEPT ![Reader] = "nil"]
        /\ streams' = streams \cup {n} /\ remoteID' = [remoteID EXCEPT ![n] = rmsg.arg0]
        /\ UNCHANGED <<toHost, dataCh, buf, delivered, reading, closed, err, todo, peerHost, peerSent, peerState>>
    BY <1>12, <2>1 DEF newAcceptedStream, newStreamLocked, Enter, wireVars, appVars, peerVars
  <2>3. remoteID[n] = 0 /\ Unknown(n) BY <2>1, FreshUnknown
  <2>4. \A i \in IDs : (Live(i)' => Live(i) \/ Unknown(i)) /\ ~InHand(i)' /\ ~InHand(i)
    BY <2>2, <2>3 DEF Live, InHand, OnFound
  <2>5. \A i \in IDs : remoteID[i] # 0 => remoteID'[i] = remoteID[i] BY <2>2, <2>3
  <2> QED BY <2>2, <2>4, <2>5, ReaderMoveData
<1>13. CASE acceptOkay
  <2>1. /\ pc[Reader] = "writeOkay" /\ pc'[Reader] \in {"read", "closeStream"} /\ (pc'[Reader] = "closeStream" => cause'[Reader] # "nil")
        /\ UNCHANGED <<streams, toHost, remoteID, dataCh, buf, delivered, reading, closed, err, todo, peerHost, peerSent, peerState>>
        /\ \A p \in Threads : cause'[p] = cause[p]
    BY <1>13 DEF acceptOkay, Return, Enter, writeMessage, connVars, streamVars, peerVars
  <2>2. \A i \in IDs : (Live(i)' => Live(i)) /\ ~InHand(i)' /\ ~InHand(i) BY <2>1 DEF Live, InHand, OnFound
  <2> QED BY <2>1, <2>2, ReaderMoveData
<1> QED BY <1>1, <1>2, <1>3, <1>4, <1>5, <1>6, <1>7, <1>8, <1>9, <1>10, <1>11, <1>12, <1>13 DEF ReaderStep

\* Read changes only how far its own stream was read.
LEMMA ReadQuiet ==
    ASSUME IInv, DInv, Queued', Reads', UNCHANGED readFrame, \A i \in IDs : QEnd(i)' = QEnd(i)
    PROVE  DInv'
<1>a. TypeOK BY DEF IInv
<1> USE <1>a, LinkTypes, DataTypes
<1>b. UNCHANGED <<streams, toHost, remoteID, closed, err, pc, id, cause, rmsg, todo, peerHost, peerSent, peerState>>
  BY DEF readFrame, connVars, wireVars, procVars, peerVars
<1>1. \A i \in IDs : (Live(i)' <=> Live(i)) /\ (InHand(i)' <=> InHand(i)) BY <1>b DEF Live, InHand
<1>2. \A i \in IDs : closed'[i] /\ err'[i] = "nil" => Finished(i) BY <1>b DEF DInv, CleanEnds
<1>3. \A p \in Procs : cause'[p] = "nil" => \A i \in todo'[p] : i \in IDs /\ Finished(i) BY <1>b DEF DInv, CleanEnds
<1>4. pc'[Reader] = "closeStream" /\ cause'[Reader] = "nil" => id'[Reader] \in IDs /\ Finished(id'[Reader])
  BY <1>b DEF DInv, CleanEnds, OnStream
<1> QED BY <1>b, <1>1, <1>2, <1>3, <1>4, QuietData

\* Read returns the bytes of s.buf from the first.
LEMMA ReadBufData == ASSUME IInv, DInv, NEW i \in IDs, readBuf(i) PROVE DInv'
<1>a. TypeOK BY DEF IInv
<1> USE DEF DInv
<1>n. PICK n \in 1 .. Len(buf[i]) : /\ delivered' = [delivered EXCEPT ![i] = @ \o SubSeq(buf[i], 1, n)]
                                    /\ buf' = [buf EXCEPT ![i] = SubSeq(@, n + 1, Len(@))]
  BY DEF readBuf
<1>b. reading[i] = "idle" /\ UNCHANGED <<readFrame, dataCh, reading>> BY DEF readBuf
<1>d. PICK d \in Seq(Nat) : d = delivered[i] BY <1>a, DataTypes
<1>e. PICK b \in Seq(Nat) : b = buf[i] BY <1>a, DataTypes
<1>f. /\ delivered'[i] = d \o SubSeq(b, 1, n) /\ buf'[i] = SubSeq(b, n + 1, Len(b))
      /\ \A j \in IDs \ {i} : delivered'[j] = delivered[j] /\ buf'[j] = buf[j]
  BY <1>a, <1>n, <1>d, <1>e, DataTypes
<1>g. PICK x : x = delivered'[i] OBVIOUS
<1>h. PICK y : y = buf'[i] OBVIOUS
<1>m. /\ Len(d) \in Nat /\ Len(b) \in Nat /\ Len(x) = Len(d) + n /\ Len(y) = Len(b) - n
      /\ \A k \in 1 .. Len(x) : IF k <= Len(d) THEN k \in 1 .. Len(d) /\ x[k] = d[k]
                                ELSE k - Len(d) \in 1 .. Len(b) /\ x[k] = b[k - Len(d)]
      /\ \A k \in 1 .. Len(y) : n + k \in 1 .. Len(b) /\ y[k] = b[n + k]
  <2>0. x = d \o SubSeq(b, 1, n) /\ y = SubSeq(b, n + 1, Len(b)) /\ n \in 1 .. Len(b) BY <1>e, <1>f, <1>g, <1>h
  <2>2. Len(d) \in Nat /\ Len(b) \in Nat BY <2>0
  <2>1. SubSeq(b, 1, n) \in Seq(Nat) BY <2>0
  <2>3. PICK s \in Seq(Nat) : s = SubSeq(b, 1, n) BY <2>0, <2>1
  <2>4. Len(s) = n /\ \A k \in 1 .. n : s[k] = b[k] /\ k \in 1 .. Len(b) BY <2>0, <2>2, <2>3
  <2>5. x = d \o s BY <2>0, <2>3
  <2>6. Len(x) = Len(d) + n BY <2>0, <2>2, <2>4, <2>5
  <2>7. \A k \in 1 .. Len(x) : x[k] = IF k <= Len(d) THEN d[k] ELSE s[k - Len(d)] BY <2>0, <2>2, <2>4, <2>5
  <2>8. \A k \in 1 .. Len(x) : IF k <= Len(d) THEN k \in 1 .. Len(d) ELSE k - Len(d) \in 1 .. n BY <2>0, <2>2, <2>6
  <2>9. Len(y) = Len(b) - n BY <2>0, <2>2
  <2>10. \A k \in 1 .. Len(y) : y[k] = b[n + 1 + k - 1] BY <2>0, <2>2, <2>9
  <2>11. \A k \in 1 .. Len(y) : n + k \in 1 .. Len(b) /\ n + 1 + k - 1 = n + k BY <2>0, <2>2, <2>9
  <2> QED BY <2>0, <2>2, <2>4, <2>6, <2>7, <2>8, <2>9, <2>10, <2>11
<1>q. /\ \A k \in 1 .. Len(d) : d[k] = k
      /\ \A k \in 1 .. Len(b) : b[k] = Len(d) + k
  BY <1>d, <1>e DEF Queued
<1>r. n \in Nat BY <1>e, <1>m
<1>1. \A k \in 1 .. Len(x) : x[k] = k
  <2> SUFFICES ASSUME NEW k \in 1 .. Len(x) PROVE x[k] = k OBVIOUS
  <2>1. CASE k <= Len(d) BY <1>m, <1>q, <2>1
  <2>2. CASE ~(k <= Len(d))
    <3>1. x[k] = Len(d) + (k - Len(d)) BY <1>m, <1>q, <2>2
    <3> QED BY <1>m, <1>r, <3>1
  <2> QED BY <2>1, <2>2
<1>2. \A k \in 1 .. Len(y) : y[k] = Len(x) + k
  <2> SUFFICES ASSUME NEW k \in 1 .. Len(y) PROVE y[k] = Len(x) + k OBVIOUS
  <2>1. y[k] = Len(d) + (n + k) BY <1>m, <1>q
  <2> QED BY <1>m, <1>r, <2>1
<1>3. \A j \in IDs : Received(j)' = Received(j)
  <2>1. Received(i)' = Len(x) + Len(y) BY <1>g, <1>h DEF Received
  <2>2. Received(i) = Len(d) + Len(b) BY <1>d, <1>e DEF Received
  <2>3. Received(i)' = Received(i) BY <1>m, <1>r, <2>1, <2>2
  <2>4. \A j \in IDs \ {i} : Received(j)' = Received(j) BY <1>f DEF Received
  <2> QED BY <2>3, <2>4
<1>4. \A j \in IDs : QEnd(j)' = QEnd(j) BY <1>b, <1>3 DEF QEnd
<1>5. \A j \in IDs : Unknown(j)' <=> Unknown(j) BY <1>b DEF Unknown, readFrame, peerVars
<1>6. b # <<>> BY <1>e DEF readBuf
<1>7. Queued'
  <2> SUFFICES ASSUME NEW j \in IDs
               PROVE  /\ \A k \in 1 .. Len(delivered'[j]) : delivered'[j][k] = k
                      /\ \A k \in 1 .. Len(buf'[j]) : buf'[j][k] = Len(delivered'[j]) + k
                      /\ \A k \in 1 .. Len(dataCh'[j]) :
                           /\ Chunk(dataCh'[j][k])
                           /\ Start(dataCh'[j][k]) = IF k = 1 THEN Received(j)' ELSE End(dataCh'[j][k - 1])
                      /\ Unknown(j)' => dataCh'[j] = <<>> /\ buf'[j] = <<>> /\ delivered'[j] = <<>>
    BY DEF Queued
  <2>1. \A k \in 1 .. Len(dataCh'[j]) :
           Chunk(dataCh'[j][k]) /\ Start(dataCh'[j][k]) = IF k = 1 THEN Received(j)' ELSE End(dataCh'[j][k - 1])
    BY <1>b, <1>3 DEF Queued
  <2>2. CASE j = i
    <3>1. ~Unknown(i) BY <1>e, <1>6 DEF Queued
    <3> QED BY <1>1, <1>2, <1>5, <1>g, <1>h, <2>1, <2>2, <3>1
  <2>3. CASE j # i
    <3>1. delivered'[j] = delivered[j] /\ buf'[j] = buf[j] /\ dataCh' = dataCh /\ (Unknown(j)' <=> Unknown(j))
      BY <1>b, <1>f, <1>5, <2>3
    <3> QED BY <2>1, <3>1 DEF Queued
  <2> QED BY <2>2, <2>3
<1>8. Reads'
  <2>1. UNCHANGED <<closed, err, reading, dataCh>> BY <1>b DEF readFrame
  <2>2. \A j \in IDs : reading[j] # "idle" => buf'[j] = buf[j] BY <1>b, <1>f
  <2> QED BY <2>1, <2>2 DEF Reads
<1> QED BY <1>b, <1>4, <1>7, <1>8, ReadQuiet

\* Read takes the first chunk of the queue, which follows what it has returned.
LEMMA ReadChunkData == ASSUME IInv, DInv, NEW i \in IDs, readChunk(i) PROVE DInv'
<1>a. TypeOK BY DEF IInv
<1> USE DEF DInv
<1>b. /\ reading[i] \in {"wait", "drain"} /\ dataCh[i] # <<>> /\ UNCHANGED <<readFrame, delivered>>
      /\ dataCh' = [dataCh EXCEPT ![i] = Tail(@)] /\ buf' = [buf EXCEPT ![i] = @ \o Head(dataCh[i])]
      /\ reading' = [reading EXCEPT ![i] = "idle"]
  BY DEF readChunk
<1>c. UNCHANGED <<readFrame, delivered>> BY <1>b
<1>d. PICK s \in Seq(Seq(Nat)) : s = dataCh[i] /\ s # <<>> BY <1>a, <1>b, DataTypes
<1>e. buf[i] = <<>> BY <1>b DEF Reads
<1>h. PICK c \in Seq(Nat) : c = Head(s) /\ c = s[1] BY <1>d
<1>f. /\ dataCh'[i] = Tail(s) /\ buf'[i] = <<>> \o c /\ reading'[i] = "idle"
      /\ \A j \in IDs \ {i} : dataCh'[j] = dataCh[j] /\ buf'[j] = buf[j] /\ reading'[j] = reading[j]
  BY <1>a, <1>b, <1>d, <1>e, <1>h, DataTypes
<1>g. buf'[i] = c BY <1>f
<1>t. PICK t : t = dataCh'[i] OBVIOUS
<1>m. /\ Len(s) \in Nat /\ 1 \in 1 .. Len(s) /\ Len(t) = Len(s) - 1 /\ (t = <<>> <=> Len(s) = 1)
      /\ \A k \in 1 .. Len(t) : k + 1 \in 1 .. Len(s) /\ t[k] = s[k + 1] /\ k + 1 # 1 /\ k \in Nat
  <2>0. t = Tail(s) BY <1>f, <1>t
  <2>1. Len(s) \in Nat /\ 1 \in 1 .. Len(s) /\ Len(t) = Len(s) - 1 BY <1>d, <2>0
  <2>s. t \in Seq(Seq(Nat)) BY <1>d, <2>0
  <2>e. t = <<>> <=> Len(t) = 0 BY <2>s
  <2>2. t = <<>> <=> Len(s) = 1 BY <2>1, <2>e
  <2>3. \A k \in 1 .. Len(t) : t[k] = s[k + 1] BY <1>d, <2>0, <2>1
  <2>4. \A k \in 1 .. Len(t) : k + 1 \in 1 .. Len(s) /\ k + 1 # 1 /\ k \in Nat BY <2>1
  <2> QED BY <2>1, <2>2, <2>3, <2>4
<1>q. \A k \in 1 .. Len(s) : Chunk(s[k]) /\ Start(s[k]) = IF k = 1 THEN Received(i) ELSE End(s[k - 1])
  BY <1>d DEF Queued
<1>l. Len(delivered[i]) \in Nat /\ Received(i) = Len(delivered[i])
  <2>1. Len(delivered[i]) \in Nat BY <1>a, DataTypes
  <2>2. Len(buf[i]) = 0 BY <1>e
  <2> QED BY <2>1, <2>2 DEF Received
<1>s. Chunk(c) /\ Start(c) = Len(delivered[i]) BY <1>h, <1>l, <1>m, <1>q
<1>n. Len(c) \in Nat /\ End(c) = Start(c) + Len(c) /\ \A k \in 1 .. Len(c) : c[k] = Start(c) + k BY <1>s, ChunkEnds
<1>1. \A k \in 1 .. Len(buf'[i]) : buf'[i][k] = Len(delivered'[i]) + k BY <1>c, <1>g, <1>n, <1>s
<1>2. Received(i)' = End(c) /\ \A j \in IDs \ {i} : Received(j)' = Received(j)
  <2>1. Received(i)' = Len(delivered[i]) + Len(c) BY <1>c, <1>g DEF Received
  <2>2. Received(i)' = End(c) BY <1>n, <1>s, <2>1
  <2>3. \A j \in IDs \ {i} : Received(j)' = Received(j) BY <1>c, <1>f DEF Received
  <2> QED BY <2>2, <2>3
<1>3. \A k \in 1 .. Len(t) : Chunk(t[k]) /\ Start(t[k]) = IF k = 1 THEN Received(i)' ELSE End(t[k - 1])
  <2> SUFFICES ASSUME NEW k \in 1 .. Len(t)
               PROVE  Chunk(t[k]) /\ Start(t[k]) = IF k = 1 THEN Received(i)' ELSE End(t[k - 1])
    OBVIOUS
  <2>0. k \in Nat /\ (k + 1) - 1 = k BY <1>m
  <2>1. Chunk(t[k]) /\ Start(t[k]) = End(s[k]) BY <1>m, <1>q, <2>0
  <2>2. CASE k = 1 BY <1>h, <1>2, <2>1, <2>2
  <2>3. CASE k # 1
    <3>1. k - 1 \in 1 .. Len(t) /\ (k - 1) + 1 = k BY <1>m, <2>3
    <3>2. t[k - 1] = s[k] BY <1>m, <3>1
    <3> QED BY <2>1, <2>3, <3>2
  <2> QED BY <2>2, <2>3
<1>4. \A j \in IDs : QEnd(j)' = QEnd(j)
  <2>1. QEnd(i)' = QEnd(i)
    <3>1. QEnd(i) = End(s[Len(s)]) BY <1>d DEF QEnd
    <3>2. QEnd(i)' = IF t = <<>> THEN Received(i)' ELSE End(t[Len(t)]) BY <1>t DEF QEnd
    <3>3. CASE t = <<>> BY <1>h, <1>m, <1>2, <3>1, <3>2, <3>3
    <3>4. CASE t # <<>>
      <4>1. Len(t) \in 1 .. Len(t) /\ Len(t) + 1 = Len(s) BY <1>m, <3>4
      <4>2. t[Len(t)] = s[Len(s)] BY <1>m, <4>1
      <4> QED BY <3>1, <3>2, <3>4, <4>2
    <3> QED BY <3>3, <3>4
  <2>2. \A j \in IDs \ {i} : QEnd(j)' = QEnd(j)
    <3> SUFFICES ASSUME NEW j \in IDs \ {i} PROVE QEnd(j)' = QEnd(j) OBVIOUS
    <3>1. dataCh'[j] = dataCh[j] /\ Received(j)' = Received(j) BY <1>f, <1>2
    <3> QED BY <3>1 DEF QEnd
  <2> QED BY <2>1, <2>2
<1>5. \A j \in IDs : Unknown(j)' <=> Unknown(j) BY <1>c DEF Unknown, readFrame, peerVars
<1>6. ~Unknown(i) BY <1>b DEF Queued
<1>7. Queued'
  <2> SUFFICES ASSUME NEW j \in IDs
               PROVE  /\ \A k \in 1 .. Len(delivered'[j]) : delivered'[j][k] = k
                      /\ \A k \in 1 .. Len(buf'[j]) : buf'[j][k] = Len(delivered'[j]) + k
                      /\ \A k \in 1 .. Len(dataCh'[j]) :
                           /\ Chunk(dataCh'[j][k])
                           /\ Start(dataCh'[j][k]) = IF k = 1 THEN Received(j)' ELSE End(dataCh'[j][k - 1])
                      /\ Unknown(j)' => dataCh'[j] = <<>> /\ buf'[j] = <<>> /\ delivered'[j] = <<>>
    BY DEF Queued
  <2>1. \A k \in 1 .. Len(delivered'[j]) : delivered'[j][k] = k BY <1>c DEF Queued
  <2>2. CASE j = i BY <1>1, <1>3, <1>5, <1>6, <1>t, <2>1, <2>2
  <2>3. CASE j # i
    <3>1. /\ delivered'[j] = delivered[j] /\ buf'[j] = buf[j] /\ dataCh'[j] = dataCh[j] /\ Received(j)' = Received(j)
          /\ (Unknown(j)' <=> Unknown(j))
      BY <1>c, <1>f, <1>2, <1>5, <2>3
    <3> QED BY <3>1 DEF Queued
  <2> QED BY <2>2, <2>3
<1>8. Reads'
  <2>1. UNCHANGED <<closed, err>> BY <1>c DEF readFrame
  <2> QED BY <1>f, <2>1 DEF Reads
<1> QED BY <1>c, <1>4, <1>7, <1>8, ReadQuiet

\* The calls of Read return every byte once, in order.
LEMMA ReadData == ASSUME IInv, DInv, NEW i \in IDs, Read(i) PROVE DInv'
<1>a. TypeOK BY DEF IInv
<1>1. CASE readBuf(i) BY <1>1, ReadBufData
<1>2. CASE readChunk(i) BY <1>2, ReadChunkData
<1>3. CASE readCheck(i) \/ readWake(i) \/ readEnd(i)
  <2>b. UNCHANGED <<readFrame, dataCh, buf, delivered>> BY <1>3 DEF readCheck, readWake, readEnd
  <2>c. UNCHANGED <<closed, err, peerHost>> BY <2>b DEF readFrame, peerVars
  <2>d. PICK l \in {"idle", "wait", "drain", "eof", "error"} :
          /\ reading' = [reading EXCEPT ![i] = l] /\ (l # "idle" => buf[i] = <<>>)
          /\ l = "drain" => closed[i]
          /\ l = "eof" => closed[i] /\ err[i] = "nil" /\ dataCh[i] = <<>>
    <3>1. CASE readCheck(i) BY <3>1 DEF readCheck
    <3>2. CASE readWake(i) BY <3>2 DEF readWake
    <3>3. CASE readEnd(i)
      <4>1. buf[i] = <<>> /\ closed[i] BY <3>3 DEF readEnd, DInv, Reads
      <4> QED BY <3>3, <4>1 DEF readEnd
    <3> QED BY <1>3, <3>1, <3>2, <3>3
  <2>1. \A j \in IDs : Received(j)' = Received(j) /\ QEnd(j)' = QEnd(j) /\ (Unknown(j)' <=> Unknown(j))
    BY <2>b, <2>c DEF Received, QEnd, Unknown
  <2>2. Queued' BY <2>b, <2>1 DEF DInv, Queued
  <2>3. Reads'
    <3>1. reading'[i] = l /\ \A j \in IDs \ {i} : reading'[j] = reading[j] BY <1>a, <2>d, DataTypes
    <3> QED BY <2>b, <2>c, <2>d, <3>1 DEF DInv, Reads
  <2> QED BY <2>b, <2>1, <2>2, <2>3, ReadQuiet
<1> QED BY <1>1, <1>2, <1>3 DEF Read

\* The device answers, opens or closes: it sends no data, and a stream it joins to one of
\* the host's is one on which nothing has been sent.
LEMMA DeviceData ==
    ASSUME TypeOK, LInv, DInv, UNCHANGED <<hostFrame, peerSent>>,
           toHost' = toHost \/ \E m \in Messages : toHost' = Append(toHost, m) /\ m.cmd # "WRTE",
           \A q \in IDs : peerHost'[q] = peerHost[q] \/ (peerHost[q] = 0 /\ peerHost'[q] \in IDs /\ Unknown(peerHost'[q])),
           \A q \in IDs : peerState[q] = "closed" => peerState'[q] = "closed"
    PROVE  DInv'
<1> USE LinkTypes DEF DInv
<1>t. peerSent \in [IDs -> Nat] BY DataTypes
<1>a. UNCHANGED <<streams, dataCh, buf, delivered, reading, closed, err, remoteID, pc, id, cause, rmsg, todo, peerSent>>
  BY DEF hostFrame, connVars, streamVars, appVars, procVars
<1>b. \A i \in IDs : /\ Received(i)' = Received(i) /\ QEnd(i)' = QEnd(i) /\ (InHand(i)' <=> InHand(i))
                     /\ REnd(i)' = REnd(i) /\ (Live(i)' <=> Live(i))
  BY <1>a DEF Received, QEnd, InHand, REnd, Live
<1>c. \A i \in IDs : Unknown(i)' => Unknown(i) BY DEF Unknown
<1>d. \A i \in IDs : toHost' = toHost \/ \E m \in Messages : toHost' = Append(toHost, m) /\ ~Carries(m, i)
  BY DEF Carries
<1>e. \A k \in 1 .. Len(toHost') : toHost'[k].cmd = "WRTE" => k \in 1 .. Len(toHost) /\ toHost'[k] = toHost[k]
  <2>1. CASE toHost' = toHost BY <2>1
  <2>2. ASSUME NEW m \in Messages, toHost' = Append(toHost, m), m.cmd # "WRTE"
        PROVE  \A k \in 1 .. Len(toHost') : toHost'[k].cmd = "WRTE" => k \in 1 .. Len(toHost) /\ toHost'[k] = toHost[k]
    BY <2>2, Appended
  <2> QED BY <2>1, <2>2
<1>1. Queued' BY <1>a, <1>b, <1>c DEF Queued
<1>2. Chunks' BY <1>a, <1>b, <1>e DEF Chunks
<1>3. Complete'
  <2> SUFFICES ASSUME NEW q \in IDs, peerHost'[q] # 0, Live(peerHost[q])' PROVE InOrder(peerHost[q], q)'
    BY DEF Complete
  <2>1. PICK i \in IDs : i = peerHost'[q] OBVIOUS
  <2>2. Live(i) BY <1>b, <2>1
  <2>3. CASE peerHost'[q] = peerHost[q]
    <3>1. InOrder(i, q) BY <2>1, <2>2, <2>3 DEF Complete
    <3>2. InOrder(i, q)' BY <1>a, <1>b, <1>d, <3>1, InOrderKept
    <3> QED BY <2>1, <3>2
  <2>4. CASE peerHost[q] = 0 /\ Unknown(i)
    <3>1. peerSent[q] = 0 BY <2>4 DEF Chunks
    <3>2. ~InHand(i) BY <2>4 DEF InHand, LInv, HostPackets, Handling, ToHost, Unknown
    <3>3. \A k \in 1 .. Len(toHost) : ~Carries(toHost[k], i)
      BY <2>4 DEF Carries, LInv, HostPackets, ToHost, Unknown
    <3>4. QEnd(i) = 0
      <4>1. dataCh[i] = <<>> /\ buf[i] = <<>> /\ delivered[i] = <<>> BY <2>4 DEF Queued
      <4>2. Received(i) = 0 BY <4>1 DEF Received
      <4> QED BY <4>1, <4>2 DEF QEnd
    <3>5. REnd(i)' = 0 /\ ~InHand(i)' /\ peerSent'[q] = 0 BY <1>a, <1>b, <3>1, <3>2, <3>4 DEF REnd
    <3>6. \A k \in 1 .. Len(toHost') : ~Carries(toHost'[k], i) BY <1>e, <3>3 DEF Carries
    <3>7. REnd(i)' + 1 .. peerSent'[q] = {} BY <3>5
    <3>8. InOrder(i, q)' BY <3>5, <3>6, <3>7 DEF InOrder
    <3> QED BY <2>1, <3>8
  <2> QED BY <2>1, <2>3, <2>4
<1>4. LastIsClse'
  <2>1. pc'[Reader] \in {"handle", "peerClose"} /\ rmsg'.cmd = "CLSE" =>
          \A l \in 1 .. Len(toHost') : ~Carries(toHost'[l], rmsg'.arg1)
    BY <1>a, <1>e DEF LastIsClse, Carries
  <2>2. ASSUME NEW k \in 1 .. Len(toHost'), NEW l \in 1 .. Len(toHost'), k < l, toHost'[k].cmd = "CLSE",
               Carries(toHost'[l], toHost'[k].arg1)
        PROVE  FALSE
    <3>1. l \in 1 .. Len(toHost) /\ toHost'[l] = toHost[l] BY <1>e, <2>2 DEF Carries
    <3>2. k \in 1 .. Len(toHost) BY <2>2, <3>1
    <3>3. toHost'[k] = toHost[k] BY <3>2, Appended
    <3> QED BY <2>2, <3>1, <3>2, <3>3 DEF LastIsClse
  <2> QED BY <2>1, <2>2 DEF LastIsClse
<1>5. CleanEnds'
  <2>1. ASSUME NEW i \in IDs, Finished(i) PROVE Finished(i)'
    <3>1. remoteID[i] \in IDs /\ peerHost[remoteID[i]] = i /\ peerState[remoteID[i]] = "closed" BY <2>1 DEF Finished
    <3>2. peerHost'[remoteID[i]] = peerHost[remoteID[i]] /\ peerState'[remoteID[i]] = "closed" BY <3>1
    <3> QED BY <1>a, <1>b, <1>d, <2>1, <3>2, FinishedKept
  <2>2. \A i \in IDs : closed'[i] /\ err'[i] = "nil" => Finished(i)' BY <1>a, <2>1 DEF CleanEnds
  <2>3. \A p \in Procs : cause'[p] = "nil" => \A i \in todo'[p] : Finished(i)' BY <1>a, <2>1 DEF CleanEnds
  <2>4. pc'[Reader] = "closeStream" /\ cause'[Reader] = "nil" => Finished(id[Reader])'
    <3> SUFFICES ASSUME pc'[Reader] = "closeStream", cause'[Reader] = "nil" PROVE Finished(id[Reader])' OBVIOUS
    <3>1. PICK i \in IDs : i = id[Reader] /\ Finished(i) BY <1>a DEF CleanEnds, OnStream
    <3>2. Finished(i)' BY <2>1, <3>1
    <3> QED BY <1>a, <3>1, <3>2
  <2> QED BY <2>2, <2>3, <2>4 DEF CleanEnds
<1>6. Reads' BY <1>a DEF Reads
<1> QED BY <1>1, <1>2, <1>3, <1>4, <1>5, <1>6

\* What the device does with the packets it takes.
LEMMA PeerReceivesData == ASSUME TypeOK, LInv, DInv, PeerReceives PROVE DInv'
<1> USE LinkTypes
<1>b. toPeer # <<>> /\ toPeer' = Tail(toPeer) /\ UNCHANGED <<hostFrame, peerSent>>
  BY DEF PeerReceives, peerAccept, peerRefuse, peerOkay, peerWrte, peerClse, peerReply, peerVars
<1>h. PICK h \in Messages : h = Head(toPeer) BY <1>b, Taken
<1>k. ToPeer(h) BY <1>b, <1>h, TakenPeer
<1>f. h.cmd \in Commands /\ h.arg0 \in IDs \cup {0} /\ h.arg1 \in IDs \cup {0} BY MessageFields
<1>q. ASSUME UNCHANGED <<peerHost>>, \A q \in IDs : peerState[q] = "closed" => peerState'[q] = "closed",
             toHost' = toHost \/ \E m \in Messages : toHost' = Append(toHost, m) /\ m.cmd # "WRTE"
      PROVE  DInv'
  BY <1>b, <1>q, DeviceData
<1>1. CASE peerAccept
  <2>1. PICK n \in IDs : n = peerNext + 1 /\ n > peerNext BY <1>1 DEF peerAccept
  <2>2. /\ h.cmd = "OPEN" /\ peerState' = [peerState EXCEPT ![n] = "open"]
        /\ peerHost' = [peerHost EXCEPT ![n] = h.arg0]
        /\ toHost' = Append(toHost, Message("OKAY", n, h.arg0, <<>>))
    BY <1>1, <1>h, <2>1 DEF peerAccept, peerReply
  <2>3. PICK i \in IDs : i = h.arg0 /\ Unknown(i) BY <1>k, <2>2 DEF ToPeer, Unjoined
  <2>4. peerHost[n] = 0 /\ peerState[n] = "free" BY <2>1 DEF LInv, PeerSide
  <2>5. \A q \in IDs : peerHost'[q] = peerHost[q] \/ (peerHost[q] = 0 /\ peerHost'[q] = i) BY <2>2, <2>3, <2>4
  <2>6. \A q \in IDs : peerState[q] = "closed" => peerState'[q] = "closed" BY <2>2, <2>4
  <2>7. PICK m \in Messages : m = Message("OKAY", n, i, <<>>) BY ControlMessage
  <2>8. m.cmd # "WRTE" BY <2>7 DEF Message
  <2> QED BY <1>b, <2>2, <2>3, <2>5, <2>6, <2>7, <2>8, DeviceData
<1>2. CASE peerRefuse
  <2>1. toHost' = Append(toHost, Message("CLSE", 0, h.arg0, <<>>)) /\ UNCHANGED <<peerState, peerHost>> /\ h.cmd = "OPEN"
    BY <1>2, <1>h DEF peerRefuse, peerReply, peerVars
  <2>2. PICK i \in IDs : i = h.arg0 BY <1>k, <2>1 DEF ToPeer
  <2>3. PICK m \in Messages : m = Message("CLSE", 0, i, <<>>) BY ControlMessage
  <2>4. m.cmd # "WRTE" BY <2>3 DEF Message
  <2> QED BY <1>q, <2>1, <2>2, <2>3, <2>4
<1>3. CASE peerOkay
  <2>1. h.cmd = "OKAY" /\ UNCHANGED toHost BY <1>3, <1>h DEF peerOkay
  <2>2. PICK i \in IDs, q \in IDs : i = h.arg0 /\ q = h.arg1 /\ remoteID[i] = q BY <1>k, <2>1 DEF ToPeer
  <2>3. CASE peerState[q] # "opening" BY <1>3, <1>h, <1>q, <2>1, <2>2, <2>3 DEF peerOkay
  <2>4. CASE peerState[q] = "opening"
    <3>1. peerState' = [peerState EXCEPT ![q] = "open"] /\ peerHost' = [peerHost EXCEPT ![q] = i]
      BY <1>3, <1>h, <2>2, <2>4 DEF peerOkay
    <3>2. peerHost[q] = 0 /\ q # 0 /\ i # 0 BY <2>2, <2>4 DEF LInv, PeerSide, HostSide
    <3>3. Unknown(i) BY <2>2, <3>2 DEF LInv, PeerSide, Unknown
    <3>4. \A r \in IDs : peerHost'[r] = peerHost[r] \/ (peerHost[r] = 0 /\ peerHost'[r] = i) BY <3>1, <3>2
    <3>5. \A r \in IDs : peerState[r] = "closed" => peerState'[r] = "closed" BY <2>4, <3>1
    <3> QED BY <1>b, <2>1, <3>3, <3>4, <3>5, DeviceData
  <2> QED BY <2>3, <2>4
<1>4. CASE peerWrte
  <2>1. h.cmd = "WRTE" /\ UNCHANGED <<peerState, peerHost>> BY <1>4, <1>h DEF peerWrte, peerVars
  <2>2. PICK i \in IDs, q \in IDs : i = h.arg0 /\ q = h.arg1 BY <1>k, <2>1 DEF ToPeer
  <2>3. PICK m \in Messages : m = Message("OKAY", q, i, <<>>) BY ControlMessage
  <2>4. m.cmd # "WRTE" BY <2>3 DEF Message
  <2>5. toHost' = toHost \/ toHost' = Append(toHost, m) BY <1>4, <1>h, <2>2, <2>3 DEF peerWrte, peerReply
  <2> QED BY <1>q, <2>1, <2>4, <2>5
<1>5. CASE peerClse
  <2>1. UNCHANGED <<toHost, peerHost>> /\ h.arg1 \in IDs /\ peerState' = [peerState EXCEPT ![h.arg1] = "closed"]
    BY <1>5, <1>h, <1>k DEF peerClse, ToPeer
  <2> QED BY <1>q, <2>1
<1> QED BY <1>1, <1>2, <1>3, <1>4, <1>5 DEF PeerReceives

\* A WRTE of the device carries the bytes after those it has sent on the stream.
LEMMA NextChunk ==
    ASSUME NEW a \in Nat, NEW n \in Nat \ {0}, NEW d, d = [k \in 1 .. n |-> a + k]
    PROVE  d \in Seq(Nat) /\ Chunk(d) /\ Start(d) = a /\ End(d) = a + n
<1>1. d \in Seq(Nat) /\ Len(d) = n OBVIOUS
<1>2. \A k \in 1 .. n : d[k] = a + k OBVIOUS
<1>3. 1 \in 1 .. n /\ n \in 1 .. n OBVIOUS
<1>4. d[1] = a + 1 /\ d[n] = a + n BY <1>2, <1>3
<1>5. d # <<>> BY <1>1
<1>6. \A k \in 1 .. Len(d) : d[k] = d[1] + k - 1 BY <1>1, <1>2, <1>4
<1>7. d[1] > 0 BY <1>4
<1>8. Start(d) = a BY <1>4 DEF Start
<1> QED BY <1>1, <1>4, <1>5, <1>6, <1>7, <1>8 DEF Chunk, End

\* The device's data enter the wire behind all that it sent on the stream before.
LEMMA PeerWritesData == ASSUME TypeOK, LInv, DInv, NEW q \in IDs, PeerWrites(q) PROVE DInv'
<1> USE LinkTypes DEF DInv
<1>t. peerSent \in [IDs -> Nat] BY DataTypes
<1>n. PICK n \in 1 .. MaxChunk :
        /\ peerSent' = [peerSent EXCEPT ![q] = @ + n]
        /\ toHost' = Append(toHost, Message("WRTE", q, peerHost[q], [k \in 1 .. n |-> peerSent[q] + k]))
  BY DEF PeerWrites
<1>o. n \in Nat \ {0} BY ConnectionAssumption
<1>s. PICK a \in Nat : a = peerSent[q] BY <1>t
<1>d. PICK d \in Seq(Nat) : d = [k \in 1 .. n |-> peerSent[q] + k] /\ Chunk(d) /\ Start(d) = a /\ End(d) = a + n
  BY <1>o, <1>s, NextChunk
<1>a. /\ UNCHANGED <<streams, dataCh, buf, delivered, reading, closed, err, remoteID, pc, id, cause, rmsg, todo, peerHost, peerState>>
      /\ peerState[q] = "open"
  BY DEF PeerWrites, hostFrame, connVars, streamVars, appVars, procVars
<1>i. PICK i \in IDs : i = peerHost[q] /\ i # 0 BY <1>a DEF LInv, PeerSide
<1>u. \A r \in IDs : peerHost[r] = i => r = q BY <1>i DEF LInv, PeerSide
<1>m. PICK m \in Messages : m = Message("WRTE", q, i, d) BY MessageType DEF Commands
<1>c. m.cmd = "WRTE" /\ m.arg0 = q /\ m.arg1 = i /\ m.data = d BY <1>m DEF Message
<1>w. toHost' = Append(toHost, m) BY <1>n, <1>d, <1>i, <1>m
<1>p. peerSent'[q] = a + n /\ \A r \in IDs \ {q} : peerSent'[r] = peerSent[r] BY <1>n, <1>s, <1>t
<1>e. /\ Len(toHost) \in Nat /\ Len(toHost') = Len(toHost) + 1 /\ toHost'[Len(toHost) + 1] = m
      /\ \A k \in 1 .. Len(toHost) : toHost'[k] = toHost[k] /\ k \in 1 .. Len(toHost')
      /\ \A k \in 1 .. Len(toHost') : k \in 1 .. Len(toHost) \/ k = Len(toHost) + 1
  BY <1>w, Appended
<1>b. \A j \in IDs : /\ Received(j)' = Received(j) /\ QEnd(j)' = QEnd(j) /\ (InHand(j)' <=> InHand(j))
                     /\ REnd(j)' = REnd(j) /\ (Live(j)' <=> Live(j)) /\ (Unknown(j)' <=> Unknown(j))
  BY <1>a DEF Received, QEnd, InHand, REnd, Live, Unknown
<1>f. \A j \in IDs \ {i} : ~Carries(m, j) BY <1>c DEF Carries
<1>1. Queued' BY <1>a, <1>b DEF Queued
<1>2. Chunks'
  <2>1. \A k \in 1 .. Len(toHost') : toHost'[k].cmd = "WRTE" => Chunk(toHost'[k].data) BY <1>c, <1>d, <1>e DEF Chunks
  <2>2. \A r \in IDs : peerHost'[r] = 0 => peerSent'[r] = 0 BY <1>a, <1>i, <1>p DEF Chunks
  <2> QED BY <1>a, <1>b, <2>1, <2>2 DEF Chunks
<1>3. Live(i) => InOrder(i, q)'
  <2> SUFFICES ASSUME InOrder(i, q) PROVE InOrder(i, q)' BY <1>i DEF Complete
  <2>0. PICK b \in Nat : b = REnd(i) /\ b = REnd(i)' /\ b <= a BY <1>b, <1>s, EndsNat DEF InOrder
  <2>1. InHand(i)' => Start(rmsg.data)' = QEnd(i)' BY <1>a, <1>b DEF InOrder
  <2>2. b <= a + n BY <1>o, <2>0
  <2>3. ASSUME NEW k \in 1 .. Len(toHost), Carries(toHost[k], i)
        PROVE  /\ Start(toHost[k].data) \in Nat /\ End(toHost[k].data) \in Nat
               /\ b <= Start(toHost[k].data) /\ End(toHost[k].data) <= a
    BY <1>s, <2>0, <2>3, FlightChunks DEF InOrder
  <2>4. \A k \in 1 .. Len(toHost') : Carries(toHost'[k], i) =>
          b <= Start(toHost'[k].data) /\ End(toHost'[k].data) <= a + n
    <3>1. \A k \in 1 .. Len(toHost) : Carries(toHost[k], i) => b <= Start(toHost[k].data) /\ End(toHost[k].data) <= a + n
      BY <1>o, <2>3
    <3>2. b <= Start(m.data) /\ End(m.data) <= a + n BY <1>c, <1>d, <2>0, <1>o
    <3> QED BY <1>e, <3>1, <3>2
  <2>5. ASSUME NEW k \in 1 .. Len(toHost'), NEW l \in 1 .. Len(toHost'), k < l, Carries(toHost'[k], i), Carries(toHost'[l], i)
        PROVE  End(toHost'[k].data) <= Start(toHost'[l].data)
    <3>1. k \in 1 .. Len(toHost) BY <1>e, <2>5
    <3>2. toHost'[k] = toHost[k] BY <1>e, <3>1
    <3>3. CASE l \in 1 .. Len(toHost) BY <1>e, <2>5, <3>1, <3>2, <3>3 DEF InOrder
    <3>4. CASE l = Len(toHost) + 1
      <4>1. End(toHost[k].data) <= a BY <2>3, <2>5, <3>1, <3>2
      <4> QED BY <1>c, <1>d, <1>e, <3>2, <3>4, <4>1
    <3> QED BY <1>e, <3>3, <3>4
  <2>6. ASSUME NEW x \in b + 1 .. a + n
        PROVE  \E k \in 1 .. Len(toHost') : Carries(toHost'[k], i) /\ Start(toHost'[k].data) < x /\ x <= End(toHost'[k].data)
    <3>1. CASE x <= a
      <4>1. x \in b + 1 .. a BY <1>o, <2>0, <3>1
      <4>2. PICK k \in 1 .. Len(toHost) : Carries(toHost[k], i) /\ Start(toHost[k].data) < x /\ x <= End(toHost[k].data)
        BY <1>s, <2>0, <4>1 DEF InOrder
      <4> QED BY <1>e, <4>2
    <3>2. CASE x > a
      <4>1. Carries(m, i) BY <1>c DEF Carries
      <4>2. Start(m.data) < x /\ x <= End(m.data) BY <1>c, <1>d, <3>2
      <4>3. Len(toHost) + 1 \in 1 .. Len(toHost') BY <1>e
      <4> QED BY <1>e, <4>1, <4>2, <4>3
    <3> QED BY <1>o, <2>0, <3>1, <3>2
  <2> QED BY <1>p, <2>0, <2>1, <2>2, <2>4, <2>5, <2>6 DEF InOrder
<1>4. Complete'
  <2> SUFFICES ASSUME NEW r \in IDs, peerHost'[r] # 0, Live(peerHost[r])' PROVE InOrder(peerHost[r], r)'
    BY DEF Complete
  <2>1. PICK j \in IDs : j = peerHost'[r] /\ j = peerHost[r] BY <1>a
  <2>2. Live(j) BY <1>b, <2>1
  <2>3. CASE r = q BY <1>3, <1>i, <2>1, <2>2, <2>3
  <2>4. CASE r # q
    <3>1. InOrder(j, r) BY <2>1, <2>2 DEF Complete
    <3>2. j # i BY <1>u, <2>1, <2>4
    <3>3. InOrder(j, r)' BY <1>a, <1>b, <1>f, <1>p, <1>w, <2>4, <3>1, <3>2, InOrderKept
    <3> QED BY <2>1, <3>3
  <2> QED BY <2>3, <2>4
<1>5. LastIsClse'
  <2>1. ASSUME NEW h \in Messages, ToHost(h), h.cmd = "CLSE" PROVE h.arg1 # i
    <3>1. h.arg0 \in IDs \cup {0} BY MessageFields
    <3> QED BY <1>a, <1>i, <1>u, <2>1, <3>1 DEF ToHost, Unjoined, Unknown
  <2>2. \A k \in 1 .. Len(toHost) : toHost[k].cmd = "CLSE" => toHost[k].arg1 # i BY <2>1 DEF LInv, HostPackets
  <2>3. pc[Reader] \in {"handle", "peerClose"} /\ rmsg.cmd = "CLSE" => rmsg.arg1 # i
    BY <2>1 DEF LInv, HostPackets, Handling
  <2>4. pc'[Reader] \in {"handle", "peerClose"} /\ rmsg'.cmd = "CLSE" =>
          \A l \in 1 .. Len(toHost') : ~Carries(toHost'[l], rmsg'.arg1)
    BY <1>a, <1>c, <1>e, <2>3 DEF LastIsClse, Carries
  <2>5. ASSUME NEW k \in 1 .. Len(toHost'), NEW l \in 1 .. Len(toHost'), k < l, toHost'[k].cmd = "CLSE",
               Carries(toHost'[l], toHost'[k].arg1)
        PROVE  FALSE
    <3>1. k \in 1 .. Len(toHost) BY <1>e, <2>5
    <3>2. toHost'[k] = toHost[k] BY <1>e, <3>1
    <3>3. CASE l \in 1 .. Len(toHost) BY <1>e, <2>5, <3>1, <3>2, <3>3 DEF LastIsClse
    <3>4. CASE l = Len(toHost) + 1 BY <1>c, <1>e, <2>2, <2>5, <3>1, <3>2, <3>4 DEF Carries
    <3> QED BY <1>e, <3>3, <3>4
  <2> QED BY <2>4, <2>5 DEF LastIsClse
<1>6. CleanEnds'
  <2>1. ASSUME NEW j \in IDs, Finished(j) PROVE Finished(j)'
    <3>1. PICK r \in IDs : r = remoteID[j] /\ peerHost[r] = j /\ peerState[r] = "closed" BY <2>1 DEF Finished
    <3>2. r # q /\ j # i BY <1>a, <1>u, <3>1
    <3> QED BY <1>a, <1>b, <1>f, <1>p, <1>w, <2>1, <3>1, <3>2, FinishedKept
  <2>2. \A j \in IDs : closed'[j] /\ err'[j] = "nil" => Finished(j)' BY <1>a, <2>1 DEF CleanEnds
  <2>3. \A p \in Procs : cause'[p] = "nil" => \A j \in todo'[p] : Finished(j)' BY <1>a, <2>1 DEF CleanEnds
  <2>4. pc'[Reader] = "closeStream" /\ cause'[Reader] = "nil" => Finished(id[Reader])'
    <3> SUFFICES ASSUME pc'[Reader] = "closeStream", cause'[Reader] = "nil" PROVE Finished(id[Reader])' OBVIOUS
    <3>1. PICK j \in IDs : j = id[Reader] /\ Finished(j) BY <1>a DEF CleanEnds, OnStream
    <3>2. Finished(j)' BY <2>1, <3>1
    <3> QED BY <1>a, <3>1, <3>2
  <2> QED BY <2>2, <2>3, <2>4 DEF CleanEnds
<1>7. Reads' BY <1>a DEF Reads
<1> QED BY <1>1, <1>2, <1>4, <1>5, <1>6, <1>7

\* The device's own steps keep its data in order.
LEMMA PeerStepData == ASSUME TypeOK, LInv, DInv, PeerStep PROVE DInv'
<1> USE LinkTypes
<1>1. CASE PeerReceives BY <1>1, PeerReceivesData
<1>2. CASE PeerOpens
  <2>n. PICK n \in IDs : n = peerNext + 1 /\ n > peerNext BY <1>2 DEF PeerOpens
  <2>b. /\ peerState' = [peerState EXCEPT ![n] = "opening"] /\ UNCHANGED <<hostFrame, peerSent, peerHost>>
        /\ toHost' = Append(toHost, Message("OPEN", n, 0, <<>>))
    BY <1>2, <2>n DEF PeerOpens
  <2>m. PICK m \in Messages : m = Message("OPEN", n, 0, <<>>) BY ControlMessage
  <2>c. m.cmd # "WRTE" BY <2>m DEF Message
  <2>1. peerState[n] = "free" BY <2>n DEF LInv, PeerSide
  <2>2. \A r \in IDs : peerState[r] = "closed" => peerState'[r] = "closed" BY <2>b, <2>1
  <2> QED BY <2>b, <2>m, <2>c, <2>2, DeviceData
<1>3. CASE PeerLeaves BY <1>3, DeviceData DEF PeerLeaves, peerVars
<1>4. ASSUME NEW q \in IDs, PeerWrites(q) PROVE DInv' BY <1>4, PeerWritesData
<1>5. ASSUME NEW q \in IDs, PeerCloses(q) PROVE DInv'
  <2>1. PICK m \in Messages : m = Message("CLSE", q, peerHost[q], <<>>) BY ControlMessage
  <2>2. m.cmd # "WRTE" BY <2>1 DEF Message
  <2>3. /\ UNCHANGED <<hostFrame, peerSent, peerHost>> /\ toHost' = Append(toHost, m)
        /\ peerState' = [peerState EXCEPT ![q] = "closed"]
    BY <1>5, <2>1 DEF PeerCloses
  <2> QED BY <2>2, <2>3, DeviceData
<1> QED BY <1>1, <1>2, <1>3, <1>4, <1>5 DEF PeerStep

\* DInv is inductive, relative to IInv and LInv.
LEMMA NextData == ASSUME IInv, LInv, DInv, [Next]_vars PROVE DInv'
<1>a. TypeOK BY DEF IInv
<1>1. CASE ReaderStep BY <1>1, ReaderData
<1>2. ASSUME NEW t \in Threads, ThreadStep(t) \/ ThreadCall(t) PROVE DInv'
  BY <1>2, ThreadStepData, ThreadCallData
<1>3. ASSUME NEW i \in IDs, Read(i) PROVE DInv' BY <1>3, ReadData
<1>4. CASE PeerStep BY <1>a, <1>4, PeerStepData
<1>5. CASE UNCHANGED vars BY <1>a, <1>5, DeviceData DEF vars, wireVars, peerVars, hostFrame
<1> QED BY <1>1, <1>2, <1>3, <1>4, <1>5 DEF Next

\* In every reachable state the bytes of a stream that the device has written, that are
\* in flight, that wait in dataCh and buf and that Read has returned follow each other
\* without a gap, and a stream that has ended cleanly has none left on the way.
THEOREM DataInvariant == Spec => [](IInv /\ LInv /\ DInv)
<1>1. Init => IInv /\ LInv /\ DInv BY InitInv, InitLink, InitData
<1>2. IInv /\ LInv /\ DInv /\ [Next]_vars => (IInv /\ LInv /\ DInv)' BY NextInv, NextLink, NextData
<1> QED BY <1>1, <1>2, PTL DEF Spec

\* For any number of streams, chunks and bytes, Read (stream.go:105) returns what the device
\* wrote, in order and once, and io.EOF only after the last byte.
THEOREM ReadsWhatWasWritten == Spec => []FaithfulDelivery
<1>1. IInv /\ LInv /\ DInv => FaithfulDelivery
  <2> SUFFICES ASSUME IInv, LInv, DInv, NEW i \in IDs
               PROVE  /\ \A k \in 1 .. Len(delivered[i] \o buf[i]) : (delivered[i] \o buf[i])[k] = k
                      /\ reading[i] = "eof" => Len(delivered[i]) = peerSent[remoteID[i]]
    BY DEF FaithfulDelivery
  <2>a. TypeOK BY DEF IInv
  <2>1. PICK s \in Seq(Nat), b \in Seq(Nat) : s = delivered[i] /\ b = buf[i] BY <2>a, DataTypes
  <2>2. /\ \A k \in 1 .. Len(s) : s[k] = k
        /\ \A k \in 1 .. Len(b) : b[k] = Len(s) + k
    BY <2>1 DEF DInv, Queued
  <2>3. ASSUME NEW k \in 1 .. Len(s \o b) PROVE (s \o b)[k] = k
    <3>1. Len(s) \in Nat /\ Len(b) \in Nat /\ Len(s \o b) = Len(s) + Len(b) OBVIOUS
    <3>2. CASE k <= Len(s)
      <4>1. k \in 1 .. Len(s) /\ (s \o b)[k] = s[k] BY <3>1, <3>2
      <4> QED BY <2>2, <4>1
    <3>3. CASE k > Len(s)
      <4>1. k - Len(s) \in 1 .. Len(b) /\ (s \o b)[k] = b[k - Len(s)] BY <3>1, <3>3
      <4>2. b[k - Len(s)] = Len(s) + (k - Len(s)) BY <2>2, <4>1
      <4> QED BY <3>1, <4>1, <4>2
    <3> QED BY <3>1, <3>2, <3>3
  <2>4. ASSUME reading[i] = "eof" PROVE Len(delivered[i]) = peerSent[remoteID[i]]
    <3>1. closed[i] /\ err[i] = "nil" /\ dataCh[i] = <<>> /\ buf[i] = <<>> BY <2>4 DEF DInv, Reads
    <3>2. QEnd(i) = peerSent[remoteID[i]] BY <3>1 DEF DInv, CleanEnds, Finished
    <3>3. QEnd(i) = Len(delivered[i]) + Len(buf[i]) BY <3>1 DEF QEnd, Received
    <3>4. Len(delivered[i]) \in Nat /\ Len(buf[i]) = 0 BY <2>1, <3>1
    <3> QED BY <3>2, <3>3, <3>4
  <2> QED BY <2>1, <2>3, <2>4
<1> QED BY <1>1, DataInvariant, PTL

-----------------------------------------------------------------------------
(***************************************************************************)
(* Why a stream is closed.  Behind the theorems that a stream ends in an    *)
(* error, and that the reader panics, only after a cut.                     *)
(***************************************************************************)

\* Errors of a stream that was not closed by its own Close.
Abrupt == {"ErrDeviceClosed", "ErrWrite"}

\* A stream's error is set when it is closed, by the goroutine that is about to signal openCh.
ErrSet == \A i \in IDs : err[i] # "nil" => closed[i]
FireErr == \A p \in Procs : pc[p] = "fire" => err[id[p]] = cause[p]

\* The program's goroutines close a stream in Stream.Close or in Connection.Close.
ThreadCause ==
    \A t \in Threads :
      /\ cause[t] # "ErrWrite"
      /\ cause[t] = "ErrDeviceClosed" => pc[t] \in {"closeAll", "closing", "fire"}
      /\ pc[t] \in {"writeClse", "closeStream", "closeAll", "closing", "fire"} => cause[t] # "nil"

\* While it can read from the device, the reader closes abruptly only what no OpenContext has returned:
\* a stream that was refused.
ReaderCause ==
    cause[Reader] \in Abrupt /\ ~Lost =>
      /\ pc[Reader] # "closeAll"
      /\ pc[Reader] = "closeStream" => openCh[id[Reader]] # "nil"
      /\ \A i \in todo[Reader] : openCh[i] # "nil"

\* A stream was closed abruptly because it was cut, or before it was answered.
AbruptCut ==
    \A i \in IDs : closed[i] /\ err[i] \in Abrupt =>
      \/ Cut(i)
      \/ openCh[i] # "nil" /\ (openCh[i] = "empty" => pc[Reader] = "fire" /\ id[Reader] = i)

\* If the stream is closed under the reader that has found it, the program closed it.
FoundClosed == pc[Reader] \in OnFound /\ closed[id[Reader]] => OwnClose(id[Reader])

\* The close invariant, inductive relative to IInv and LInv.
CInv == ErrSet /\ FireErr /\ ThreadCause /\ ReaderCause /\ AbruptCut /\ FoundClosed

\* What is cut stays cut.
NoCutHeals == \A i \in IDs : (OwnClose(i) => OwnClose(i)') /\ (Cut(i) => Cut(i)')

\* The types of what the close invariant speaks of.
LEMMA CloseTypes ==
    ASSUME TypeOK
    PROVE  /\ closed \in [IDs -> BOOLEAN] /\ err \in [IDs -> Errors] /\ openCh \in [IDs -> Errors \cup {"empty"}]
           /\ pc \in [Procs -> Labels] /\ id \in [Procs -> IDs \cup {0}] /\ cause \in [Procs -> Errors]
           /\ todo \in [Procs -> SUBSET IDs] /\ Reader \in Procs /\ Reader \notin Threads
           /\ Procs = Threads \cup {Reader}
           /\ transport \in {"up", "peerGone", "closed"} /\ readerErr \in BOOLEAN
           /\ \A p \in Procs : pc[p] \in OnStream => id[p] \in IDs
  BY ConnectionAssumption DEF TypeOK, ConnType, WireType, StreamType, ProcType, Procs

\* A new connection has closed nothing.
THEOREM InitClose == Init => CInv
<1> SUFFICES ASSUME Init PROVE CInv OBVIOUS
<1>t. TypeOK BY InitType
<1> USE CloseTypes, <1>t
<1>1. ErrSet /\ FireErr BY DEF Init, ErrSet, FireErr
<1>2. ThreadCause BY DEF Init, ThreadCause
<1>3. ReaderCause BY DEF Init, ReaderCause, Abrupt, Lost
<1>4. AbruptCut /\ FoundClosed BY DEF Init, AbruptCut, Abrupt, FoundClosed, OnFound
<1> QED BY <1>1, <1>2, <1>3, <1>4 DEF CInv

\* A step that leaves alone why streams are closed keeps the invariant, and every cut.
LEMMA CloseFrame ==
    ASSUME CInv, UNCHANGED <<closed, err, openCh, todo, transport, readerErr, pc, id, cause>>
    PROVE  CInv' /\ NoCutHeals
<1>1. \A i : (OwnClose(i)' <=> OwnClose(i)) /\ (Cut(i)' <=> Cut(i)) BY DEF OwnClose, Cut, ConnectionClosing, Lost
<1>2. ErrSet' /\ FireErr' /\ ThreadCause' /\ ReaderCause'
  BY DEF CInv, ErrSet, FireErr, ThreadCause, ReaderCause, Lost
<1>3. AbruptCut' /\ FoundClosed' BY <1>1 DEF CInv, AbruptCut, FoundClosed
<1> QED BY <1>1, <1>2, <1>3 DEF CInv, NoCutHeals

\* A goroutine that is not closing moves: the program's into a call or out of one, the reader on
\* to a stream nobody else has closed, or to closing with good reason.
LEMMA MoveClose ==
    ASSUME TypeOK, CInv, NEW p \in Procs, NEW label, NEW i, NEW e,
           pc'[p] = label, id'[p] = i, cause'[p] = e,
           \A o \in Procs \ {p} : pc'[o] = pc[o] /\ id'[o] = id[o] /\ cause'[o] = cause[o],
           UNCHANGED <<closed, err, openCh, todo, transport>>, readerErr => readerErr',
           todo[p] = {}, pc[p] # "fire", label # "fire",
           p \in Threads =>
             /\ cause[p] # "ErrDeviceClosed" /\ pc[p] # "closeTransport"
             /\ e # "ErrWrite" /\ (e = "ErrDeviceClosed" => label = "closeAll")
             /\ label \in {"writeClse", "closeStream", "closeAll", "closing"} => e # "nil",
           p = Reader =>
             /\ label \in OnFound => (closed[i] => OwnClose(i))
             /\ e \in Abrupt /\ ~Lost' => label # "closeAll" /\ (label = "closeStream" => openCh[i] # "nil")
    PROVE  CInv' /\ NoCutHeals
<1> USE CloseTypes DEF CInv
<1>1. ConnectionClosing => ConnectionClosing'
  <2> SUFFICES ASSUME ConnectionClosing PROVE ConnectionClosing' OBVIOUS
  <2>1. PICK t \in Threads : cause[t] = "ErrDeviceClosed" \/ pc[t] = "closeTransport" BY DEF ConnectionClosing
  <2>2. t # p BY <2>1
  <2>3. cause'[t] = cause[t] /\ pc'[t] = pc[t] BY <2>2
  <2> QED BY <2>1, <2>3 DEF ConnectionClosing
<1>2. \A j : (OwnClose(j) => OwnClose(j)') /\ (Cut(j) => Cut(j)') BY <1>1 DEF OwnClose, Cut, Lost
<1>3. ErrSet' BY DEF ErrSet
<1>4. FireErr'
  <2>1. ASSUME NEW o \in Procs, pc'[o] = "fire" PROVE err'[id'[o]] = cause'[o]
    <3>1. o # p BY <2>1
    <3>2. pc'[o] = pc[o] /\ id'[o] = id[o] /\ cause'[o] = cause[o] BY <3>1
    <3> QED BY <2>1, <3>2 DEF FireErr
  <2> QED BY <2>1 DEF FireErr
<1>5. ThreadCause'
  <2>1. ASSUME NEW t \in Threads
        PROVE  /\ cause'[t] # "ErrWrite"
               /\ cause'[t] = "ErrDeviceClosed" => pc'[t] \in {"closeAll", "closing", "fire"}
               /\ pc'[t] \in {"writeClse", "closeStream", "closeAll", "closing", "fire"} => cause'[t] # "nil"
    <3>1. CASE t = p BY <3>1
    <3>2. CASE t # p
      <4>1. cause'[t] = cause[t] /\ pc'[t] = pc[t] BY <3>2
      <4> QED BY <4>1 DEF ThreadCause
    <3> QED BY <3>1, <3>2
  <2> QED BY <2>1 DEF ThreadCause
<1>6. ReaderCause'
  <2>1. CASE p = Reader BY <2>1 DEF ReaderCause, Lost
  <2>2. CASE p # Reader
    <3>1. pc'[Reader] = pc[Reader] /\ id'[Reader] = id[Reader] /\ cause'[Reader] = cause[Reader] BY <2>2
    <3> QED BY <3>1 DEF ReaderCause, Lost
  <2> QED BY <2>1, <2>2
<1>7. AbruptCut'
  <2>1. ASSUME NEW j \in IDs, closed'[j], err'[j] \in Abrupt, ~Cut(j)'
        PROVE  openCh'[j] # "nil" /\ (openCh'[j] = "empty" => pc'[Reader] = "fire" /\ id'[Reader] = j)
    <3>1. openCh[j] # "nil" /\ (openCh[j] = "empty" => pc[Reader] = "fire" /\ id[Reader] = j)
      BY <1>2, <2>1 DEF AbruptCut
    <3>2. pc[Reader] = "fire" => pc'[Reader] = pc[Reader] /\ id'[Reader] = id[Reader]
      <4>1. pc[Reader] = "fire" => Reader # p OBVIOUS
      <4> QED BY <4>1
    <3> QED BY <3>1, <3>2
  <2> QED BY <2>1 DEF AbruptCut
<1>8. FoundClosed'
  <2>1. CASE p = Reader
    <3>1. pc'[Reader] = label /\ id'[Reader] = i BY <2>1
    <3>2. OwnClose(i) => OwnClose(i)' BY <1>2
    <3>3. label \in OnFound /\ closed[i] => OwnClose(i)' BY <2>1, <3>2
    <3>4. OwnClose(i)' <=> OwnClose(id[Reader])' BY <3>1 DEF OwnClose, ConnectionClosing
    <3> QED BY <3>1, <3>3, <3>4 DEF FoundClosed
  <2>2. CASE p # Reader
    <3>1. pc'[Reader] = pc[Reader] /\ id'[Reader] = id[Reader] BY <2>2
    <3>2. PICK j : j = id[Reader] OBVIOUS
    <3>3. OwnClose(j) => OwnClose(j)' BY <1>2
    <3>4. (OwnClose(j)' <=> OwnClose(id[Reader])') /\ (OwnClose(j) <=> OwnClose(id[Reader]))
      BY <3>1, <3>2 DEF OwnClose, ConnectionClosing
    <3> QED BY <3>1, <3>3, <3>4 DEF FoundClosed
  <2> QED BY <2>1, <2>2
<1> QED BY <1>2, <1>3, <1>4, <1>5, <1>6, <1>7, <1>8 DEF NoCutHeals

\* Connection.Close goes on to close the transport.
LEMMA ClosingKept ==
    ASSUME TypeOK, ThreadCause, NEW p \in Procs,
           \A o \in Procs \ {p} : pc'[o] = pc[o] /\ cause'[o] = cause[o],
           pc[p] # "closeTransport",
           cause'[p] = cause[p] \/ (p \in Threads /\ cause[p] = "ErrDeviceClosed" => pc'[p] = "closeTransport")
    PROVE  ConnectionClosing => ConnectionClosing'
<1> SUFFICES ASSUME ConnectionClosing PROVE ConnectionClosing' OBVIOUS
<1>1. PICK t \in Threads : cause[t] = "ErrDeviceClosed" \/ pc[t] = "closeTransport" BY DEF ConnectionClosing
<1>2. CASE t = p BY <1>1, <1>2 DEF ConnectionClosing
<1>3. CASE t # p
  <2>1. cause'[t] = cause[t] /\ pc'[t] = pc[t] BY <1>3 DEF Procs
  <2> QED BY <1>1, <2>1 DEF ConnectionClosing
<1> QED BY <1>2, <1>3

\* closeStream, closeAllStreams and closeWithError give the stream the closer's reason.
LEMMA ClosingClose == ASSUME IInv, LInv, CInv, NEW p \in Procs, Closing(p) PROVE CInv' /\ NoCutHeals
<1>a. TypeOK BY DEF IInv
<1> USE <1>a, CloseTypes DEF CInv
<1>t. pc[p] \notin {"closing", "fire"} => todo[p] = {} BY DEF IInv, TodoClosing
<1>1. ASSUME NEW set, Detach(p, set), pc[p] \in {"closeStream", "closeAll"},
             p = Reader /\ cause[p] \in Abrupt /\ ~Lost => \A j \in set : openCh[j] # "nil"
      PROVE  CInv' /\ NoCutHeals
  <2>1. /\ pc' = [pc EXCEPT ![p] = "closing"] /\ todo' = [todo EXCEPT ![p] = set]
        /\ UNCHANGED <<closed, err, openCh, transport, readerErr, id, cause>>
    BY <1>1 DEF Detach, Goto, wireVars, streamVars, connVars
  <2>2. /\ pc'[p] = "closing" /\ todo'[p] = set
        /\ \A o \in Procs \ {p} : pc'[o] = pc[o] /\ todo'[o] = todo[o]
    BY <2>1
  <2>3. ConnectionClosing => ConnectionClosing' BY <1>1, <2>1, <2>2, ClosingKept
  <2>4. \A j : (OwnClose(j) => OwnClose(j)') /\ (Cut(j) => Cut(j)') BY <2>1, <2>3 DEF OwnClose, Cut, Lost
  <2>5. ErrSet' BY <2>1 DEF ErrSet
  <2>6. FireErr' BY <2>1, <2>2 DEF FireErr
  <2>7. ThreadCause'
    <3>1. ASSUME NEW t \in Threads
          PROVE  /\ cause'[t] # "ErrWrite"
                 /\ cause'[t] = "ErrDeviceClosed" => pc'[t] \in {"closeAll", "closing", "fire"}
                 /\ pc'[t] \in {"writeClse", "closeStream", "closeAll", "closing", "fire"} => cause'[t] # "nil"
      BY <1>1, <2>1, <2>2 DEF ThreadCause
    <3> QED BY <3>1 DEF ThreadCause
  <2>8. ReaderCause'
    <3>1. CASE p = Reader BY <1>1, <2>1, <2>2, <3>1 DEF ReaderCause, Lost
    <3>2. CASE p # Reader
      <4>1. pc'[Reader] = pc[Reader] /\ todo'[Reader] = todo[Reader] BY <2>2, <3>2
      <4> QED BY <2>1, <4>1 DEF ReaderCause, Lost
    <3> QED BY <3>1, <3>2
  <2>9. AbruptCut'
    <3>1. pc[Reader] = "fire" => pc'[Reader] = "fire"
      <4>1. pc[Reader] = "fire" => Reader # p BY <1>1
      <4> QED BY <2>2, <4>1
    <3> QED BY <2>1, <2>4, <3>1 DEF AbruptCut
  <2>10. FoundClosed'
    <3>1. pc'[Reader] \in OnFound => pc[Reader] \in OnFound
      <4>1. pc'[Reader] \in OnFound => Reader # p BY <2>2 DEF OnFound
      <4> QED BY <2>2, <4>1
    <3>2. PICK j : j = id[Reader] OBVIOUS
    <3>3. OwnClose(j) => OwnClose(j)' BY <2>4
    <3>4. (OwnClose(j)' <=> OwnClose(id[Reader])') /\ (OwnClose(j) <=> OwnClose(id[Reader]))
      BY <2>1, <3>2 DEF OwnClose, ConnectionClosing
    <3> QED BY <2>1, <3>1, <3>3, <3>4 DEF FoundClosed
  <2> QED BY <2>4, <2>5, <2>6, <2>7, <2>8, <2>9, <2>10 DEF NoCutHeals
<1>2. CASE closeStream(p) BY <1>1, <1>2 DEF closeStream, ReaderCause, Lost
<1>3. CASE closeAllStreams(p) BY <1>1, <1>3 DEF closeAllStreams, ReaderCause, Lost
<1>4. CASE closeWithError(p)
  <2>1. PICK i \in todo[p] : closeWithError(p)!2!(i) BY <1>4 DEF closeWithError
  <2>2. i \in IDs /\ ~closed[i] BY DEF IInv, CloseOnce
  <2>3. /\ todo' = [todo EXCEPT ![p] = @ \ {i}] /\ closed' = [closed EXCEPT ![i] = TRUE]
        /\ err' = [err EXCEPT ![i] = cause[p]]
        /\ pc' = [pc EXCEPT ![p] = "fire"] /\ id' = [id EXCEPT ![p] = i]
        /\ cause' = [cause EXCEPT ![p] = cause[p]]
        /\ UNCHANGED <<openCh, transport, readerErr>> /\ pc[p] = "closing"
    BY <1>4, <2>1, <2>2 DEF closeWithError, Enter, wireVars, connVars
  <2>4. /\ pc'[p] = "fire" /\ id'[p] = i /\ cause' = cause /\ todo'[p] \subseteq todo[p]
        /\ closed'[i] /\ err'[i] = cause[p] /\ err[i] = "nil"
        /\ \A o \in Procs \ {p} : pc'[o] = pc[o] /\ id'[o] = id[o] /\ todo'[o] = todo[o]
        /\ \A j \in IDs \ {i} : closed'[j] = closed[j] /\ err'[j] = err[j]
    <3>1. err[i] = "nil" BY <2>2 DEF ErrSet
    <3> QED BY <2>2, <2>3, <3>1
  <2>5. ConnectionClosing => ConnectionClosing' BY <2>3, <2>4, ClosingKept
  <2>6. ASSUME NEW j \in IDs PROVE (OwnClose(j) => OwnClose(j)') /\ (Cut(j) => Cut(j)')
    <3>1. err[j] = "ErrClosedPipe" => err'[j] = "ErrClosedPipe" BY <2>4
    <3> QED BY <2>3, <2>5, <3>1 DEF OwnClose, Cut, Lost
  <2>7. ErrSet'
    <3>1. ASSUME NEW j \in IDs, err'[j] # "nil" PROVE closed'[j] BY <2>4, <3>1 DEF ErrSet
    <3> QED BY <3>1 DEF ErrSet
  <2>8. FireErr'
    <3>1. ASSUME NEW o \in Procs, pc'[o] = "fire" PROVE err'[id'[o]] = cause'[o]
      <4>1. CASE o = p BY <2>4, <4>1
      <4>2. CASE o # p
        <5>1. pc[o] = "fire" /\ id'[o] = id[o] BY <2>4, <3>1, <4>2
        <5>2. closed[id[o]] /\ id[o] \in IDs BY <5>1 DEF IInv, FireClosed, OnStream
        <5>3. err'[id[o]] = err[id[o]] BY <2>2, <2>4, <5>2
        <5> QED BY <2>4, <5>1, <5>3 DEF FireErr
      <4> QED BY <4>1, <4>2
    <3> QED BY <3>1 DEF FireErr
  <2>9. ThreadCause'
    <3>1. ASSUME NEW t \in Threads
          PROVE  /\ cause'[t] # "ErrWrite"
                 /\ cause'[t] = "ErrDeviceClosed" => pc'[t] \in {"closeAll", "closing", "fire"}
                 /\ pc'[t] \in {"writeClse", "closeStream", "closeAll", "closing", "fire"} => cause'[t] # "nil"
      BY <2>3, <2>4 DEF ThreadCause
    <3> QED BY <3>1 DEF ThreadCause
  <2>10. ReaderCause'
    <3>1. CASE p = Reader BY <2>3, <2>4, <3>1 DEF ReaderCause, Lost
    <3>2. CASE p # Reader
      <4>1. pc'[Reader] = pc[Reader] /\ todo'[Reader] = todo[Reader] /\ id'[Reader] = id[Reader] BY <2>4, <3>2
      <4> QED BY <2>3, <2>4, <4>1 DEF ReaderCause, Lost
    <3> QED BY <3>1, <3>2
  <2>11. AbruptCut'
    <3>1. ASSUME NEW j \in IDs, closed'[j], err'[j] \in Abrupt, ~Cut(j)'
          PROVE  openCh'[j] # "nil" /\ (openCh'[j] = "empty" => pc'[Reader] = "fire" /\ id'[Reader] = j)
      <4>1. CASE j = i
        <5>1. p = Reader
          <6>1. CASE p \in Threads
            <7>1. cause[p] = "ErrDeviceClosed" BY <2>4, <3>1, <4>1, <6>1 DEF Abrupt, ThreadCause
            <7>2. ConnectionClosing BY <6>1, <7>1 DEF ConnectionClosing
            <7> QED BY <2>5, <3>1, <7>2 DEF Cut, OwnClose, Lost
          <6> QED BY <6>1
        <5>2. ~Lost BY <2>3, <3>1 DEF Cut, Lost
        <5>3. cause[Reader] \in Abrupt BY <2>4, <3>1, <4>1, <5>1
        <5>4. openCh[i] # "nil" BY <5>1, <5>2, <5>3 DEF ReaderCause, Lost
        <5> QED BY <2>3, <2>4, <4>1, <5>1, <5>4
      <4>2. CASE j # i
        <5>1. closed[j] /\ err[j] \in Abrupt BY <2>4, <3>1, <4>2
        <5>2. openCh[j] # "nil" /\ (openCh[j] = "empty" => pc[Reader] = "fire" /\ id[Reader] = j)
          BY <2>6, <3>1, <5>1 DEF AbruptCut
        <5>3. pc[Reader] = "fire" => pc'[Reader] = "fire" /\ id'[Reader] = id[Reader]
          <6>1. pc[Reader] = "fire" => Reader # p BY <2>3
          <6> QED BY <2>4, <6>1
        <5> QED BY <2>3, <5>2, <5>3
      <4> QED BY <4>1, <4>2
    <3> QED BY <3>1 DEF AbruptCut
  <2>12. FoundClosed'
    <3>1. SUFFICES ASSUME pc'[Reader] \in OnFound, closed'[id'[Reader]] PROVE OwnClose(id[Reader])'
      BY DEF FoundClosed
    <3>2. p # Reader BY <2>4, <3>1 DEF OnFound
    <3>3. pc[Reader] \in OnFound /\ id'[Reader] = id[Reader] /\ id[Reader] \in IDs
      BY <2>4, <3>1, <3>2 DEF OnFound, OnStream
    <3>4. PICK j \in IDs : j = id[Reader] BY <3>3
    <3>5. OwnClose(j)' => OwnClose(id[Reader])' BY <3>3, <3>4 DEF OwnClose, ConnectionClosing
    <3>6. CASE j = i
      <4>1. cause[p] \in {"ErrClosedPipe", "ErrDeviceClosed"}
        BY <2>3, <3>2 DEF ThreadCause, Errors
      <4>2. CASE cause[p] = "ErrClosedPipe" BY <2>4, <3>5, <3>6, <4>2 DEF OwnClose
      <4>3. CASE cause[p] = "ErrDeviceClosed"
        <5>1. ConnectionClosing BY <3>2, <4>3 DEF ConnectionClosing
        <5> QED BY <2>5, <3>5, <5>1 DEF OwnClose
      <4> QED BY <4>1, <4>2, <4>3
    <3>7. CASE j # i
      <4>1. closed[j] BY <2>4, <3>1, <3>3, <3>4, <3>7
      <4>2. OwnClose(j) BY <3>3, <3>4, <4>1 DEF FoundClosed
      <4> QED BY <2>6, <3>5, <4>2
    <3> QED BY <3>6, <3>7
  <2> QED BY <2>6, <2>7, <2>8, <2>9, <2>10, <2>11, <2>12 DEF NoCutHeals
<1>5. CASE fireOpen(p)
  <2>1. /\ openCh' = [openCh EXCEPT ![id[p]] = IF @ = "empty" THEN cause[p] ELSE @]
        /\ pc' = [pc EXCEPT ![p] = "closing"] /\ pc[p] = "fire"
        /\ UNCHANGED <<closed, err, transport, readerErr, todo, id, cause>>
    BY <1>5 DEF fireOpen, openOnce, Goto, wireVars, connVars
  <2>2. /\ pc'[p] = "closing" /\ id[p] \in IDs /\ err[id[p]] = cause[p] /\ cause[p] # "empty" /\ closed[id[p]]
        /\ \A o \in Procs \ {p} : pc'[o] = pc[o]
        /\ openCh'[id[p]] = IF openCh[id[p]] = "empty" THEN cause[p] ELSE openCh[id[p]]
        /\ \A j \in IDs \ {id[p]} : openCh'[j] = openCh[j]
    <3>1. id[p] \in IDs /\ err[id[p]] = cause[p] /\ closed[id[p]]
      BY <2>1 DEF OnStream, FireErr, IInv, FireClosed
    <3>2. cause[p] # "empty" BY DEF Errors
    <3> QED BY <2>1, <3>1, <3>2
  <2>3. ConnectionClosing => ConnectionClosing' BY <2>1, <2>2, ClosingKept
  <2>4. \A j : (OwnClose(j) => OwnClose(j)') /\ (Cut(j) => Cut(j)') BY <2>1, <2>3 DEF OwnClose, Cut, Lost
  <2>5. ErrSet' /\ FireErr' BY <2>1, <2>2 DEF ErrSet, FireErr
  <2>6. ThreadCause'
    <3>1. ASSUME NEW t \in Threads
          PROVE  /\ cause'[t] # "ErrWrite"
                 /\ cause'[t] = "ErrDeviceClosed" => pc'[t] \in {"closeAll", "closing", "fire"}
                 /\ pc'[t] \in {"writeClse", "closeStream", "closeAll", "closing", "fire"} => cause'[t] # "nil"
      BY <2>1, <2>2 DEF ThreadCause
    <3> QED BY <3>1 DEF ThreadCause
  <2>7. ReaderCause'
    <3>1. \A j \in IDs : openCh[j] # "nil" /\ cause[p] # "nil" => openCh'[j] # "nil" BY <2>2
    <3>2. ASSUME cause[Reader] \in Abrupt, ~Lost
          PROVE  /\ pc'[Reader] # "closeAll"
                 /\ pc'[Reader] = "closeStream" => openCh'[id[Reader]] # "nil"
                 /\ \A i \in todo[Reader] : openCh'[i] # "nil"
      <4>1. cause[p] # "nil" BY <2>1, <3>2 DEF ThreadCause, Abrupt
      <4>2. pc'[Reader] = "closeStream" => pc[Reader] = "closeStream" BY <2>1, <2>2
      <4>3. pc'[Reader] = "closeAll" => pc[Reader] = "closeAll" BY <2>1, <2>2
      <4>4. pc[Reader] = "closeStream" => id[Reader] \in IDs BY DEF OnStream
      <4>5. todo[Reader] \subseteq IDs OBVIOUS
      <4>6. pc'[Reader] = "closeStream" => openCh'[id[Reader]] # "nil"
        BY <3>1, <3>2, <4>1, <4>2, <4>4 DEF ReaderCause, Lost
      <4>7. \A i \in todo[Reader] : openCh'[i] # "nil" BY <3>1, <3>2, <4>1, <4>5 DEF ReaderCause, Lost
      <4> QED BY <3>2, <4>3, <4>6, <4>7 DEF ReaderCause, Lost
    <3> QED BY <2>1, <3>2 DEF ReaderCause, Lost
  <2>8. AbruptCut'
    <3>1. ASSUME NEW j \in IDs, closed'[j], err'[j] \in Abrupt, ~Cut(j)'
          PROVE  openCh'[j] # "nil" /\ (openCh'[j] = "empty" => pc'[Reader] = "fire" /\ id'[Reader] = j)
      <4>1. closed[j] /\ err[j] \in Abrupt BY <2>1, <3>1
      <4>2. openCh[j] # "nil" /\ (openCh[j] = "empty" => pc[Reader] = "fire" /\ id[Reader] = j)
        BY <2>4, <3>1, <4>1 DEF AbruptCut
      <4>3. CASE j = id[p]
        <5>1. cause[p] # "nil" BY <2>2, <4>1, <4>3 DEF Abrupt
        <5> QED BY <2>2, <4>2, <4>3, <5>1
      <4>4. CASE j # id[p]
        <5>1. openCh'[j] = openCh[j] BY <2>2, <4>4
        <5>2. openCh[j] = "empty" => Reader # p BY <4>2, <4>4
        <5>3. openCh[j] = "empty" => pc'[Reader] = "fire" BY <2>2, <4>2, <5>2
        <5> QED BY <2>1, <4>2, <5>1, <5>3
      <4> QED BY <4>3, <4>4
    <3> QED BY <3>1 DEF AbruptCut
  <2>9. FoundClosed'
    <3>1. pc'[Reader] \in OnFound => pc[Reader] \in OnFound
      <4>1. pc'[Reader] \in OnFound => Reader # p BY <2>2 DEF OnFound
      <4> QED BY <2>2, <4>1
    <3>2. PICK j : j = id[Reader] OBVIOUS
    <3>3. OwnClose(j) => OwnClose(j)' BY <2>4
    <3>4. (OwnClose(j)' <=> OwnClose(id[Reader])') /\ (OwnClose(j) <=> OwnClose(id[Reader]))
      BY <2>1, <3>2 DEF OwnClose, ConnectionClosing
    <3> QED BY <2>1, <3>1, <3>3, <3>4 DEF FoundClosed
  <2> QED BY <2>4, <2>5, <2>6, <2>7, <2>8, <2>9 DEF NoCutHeals
<1>6. CASE closeReturn(p)
  <2>1. /\ pc' = [pc EXCEPT ![p] = AfterClose(p)] /\ id' = [id EXCEPT ![p] = 0] /\ todo[p] = {}
        /\ cause' = [cause EXCEPT ![p] = "nil"] /\ pc[p] = "closing"
        /\ UNCHANGED <<closed, err, openCh, transport, readerErr, todo>>
    BY <1>6 DEF closeReturn, Return, noData, noWrite, wireVars, streamVars, connVars
  <2>2. /\ pc'[p] = AfterClose(p) /\ id'[p] = 0 /\ cause'[p] = "nil"
        /\ \A o \in Procs \ {p} : pc'[o] = pc[o] /\ id'[o] = id[o] /\ cause'[o] = cause[o]
    BY <2>1
  <2>3. /\ AfterClose(p) \in {"stopped", "read", "closeTransport", "idle"}
        /\ p \in Threads /\ cause[p] = "ErrDeviceClosed" => AfterClose(p) = "closeTransport"
    BY DEF AfterClose
  <2>4. CASE p \in Threads /\ cause[p] = "ErrDeviceClosed"
    <3>1. ConnectionClosing' BY <2>2, <2>3, <2>4 DEF ConnectionClosing
    <3>2. \A j : OwnClose(j)' /\ Cut(j)' BY <3>1 DEF OwnClose, Cut, Lost
    <3>3. p # Reader /\ pc'[Reader] = pc[Reader] /\ cause'[Reader] = cause[Reader] /\ id'[Reader] = id[Reader] BY <2>2, <2>4
    <3>4. ErrSet' /\ FireErr' BY <2>1, <2>2, <2>3 DEF ErrSet, FireErr
    <3>5. ThreadCause'
      <4>1. ASSUME NEW t \in Threads
            PROVE  /\ cause'[t] # "ErrWrite"
                   /\ cause'[t] = "ErrDeviceClosed" => pc'[t] \in {"closeAll", "closing", "fire"}
                   /\ pc'[t] \in {"writeClse", "closeStream", "closeAll", "closing", "fire"} => cause'[t] # "nil"
        BY <2>2, <2>3 DEF ThreadCause
      <4> QED BY <4>1 DEF ThreadCause
    <3>6. ReaderCause' BY <2>1, <3>3 DEF ReaderCause, Lost
    <3>7. AbruptCut' /\ FoundClosed' BY <3>2 DEF AbruptCut, FoundClosed
    <3> QED BY <3>2, <3>4, <3>5, <3>6, <3>7 DEF NoCutHeals
  <2>5. CASE ~(p \in Threads /\ cause[p] = "ErrDeviceClosed")
    BY <2>1, <2>2, <2>3, <2>5, MoveClose DEF OnFound, Abrupt
  <2> QED BY <2>4, <2>5
<1> QED BY <1>2, <1>3, <1>4, <1>5, <1>6 DEF Closing

\* startReader moves the reader out of no close.
LEMMA StartClose ==
    ASSUME TypeOK, CInv, NEW t \in Threads, NEW label \in {"newStream", "idle"}, pc[t] \in {"idle", "handleOpen"},
           startReader([pc EXCEPT ![t] = label]), UNCHANGED <<closed, err, openCh, todo, transport, readerErr>>
    PROVE  CInv' /\ NoCutHeals
<1> USE CloseTypes DEF CInv
<1>b. /\ pc'[t] = label /\ pc'[Reader] = IF pc[Reader] = "off" THEN "read" ELSE pc[Reader]
      /\ \A p \in Procs \ {t, Reader} : pc'[p] = pc[p]
      /\ id' = id /\ cause' = cause
  BY DEF startReader
<1>c. \A p \in Procs : \A l \in {"writeClse", "closeStream", "closeAll", "closing", "fire", "closeTransport"} :
        pc'[p] = l <=> pc[p] = l
  BY <1>b
<1>1. \A i : (OwnClose(i)' <=> OwnClose(i)) /\ (Cut(i)' <=> Cut(i)) BY <1>b, <1>c DEF OwnClose, Cut, ConnectionClosing, Lost
<1>2. ErrSet' /\ FireErr' BY <1>b, <1>c DEF ErrSet, FireErr
<1>3. ThreadCause' BY <1>b, <1>c DEF ThreadCause
<1>4. ReaderCause' BY <1>b, <1>c DEF ReaderCause, Lost
<1>5. AbruptCut' BY <1>b, <1>c, <1>1 DEF AbruptCut
<1>6. FoundClosed' BY <1>b, <1>1 DEF FoundClosed, OnFound
<1> QED BY <1>1, <1>2, <1>3, <1>4, <1>5, <1>6 DEF NoCutHeals

\* Once the transport is not up, everything is cut.
LEMMA CutAll ==
    ASSUME TypeOK, CInv, UNCHANGED <<closed, err, openCh, todo>>, transport' # "up",
           transport = "closed" => transport' = "closed",
           \/ UNCHANGED <<pc, id, cause>>
           \/ transport' = "closed" /\ \E t \in Threads : pc[t] = "closeTransport" /\ Return(t, "idle")
    PROVE  CInv' /\ NoCutHeals
<1> USE CloseTypes DEF CInv
<1>1. \A i : Cut(i)' BY DEF Cut, Lost
<1>2. ASSUME UNCHANGED <<pc, id, cause>> PROVE CInv' /\ NoCutHeals
  <2>1. \A i : OwnClose(i) => OwnClose(i)' BY <1>2 DEF OwnClose, ConnectionClosing
  <2>2. ErrSet' /\ FireErr' /\ ThreadCause' BY <1>2 DEF ErrSet, FireErr, ThreadCause
  <2>3. ReaderCause' /\ AbruptCut' BY <1>1 DEF ReaderCause, AbruptCut, Lost
  <2>4. FoundClosed' BY <1>2, <2>1 DEF FoundClosed
  <2> QED BY <1>1, <2>1, <2>2, <2>3, <2>4 DEF NoCutHeals
<1>3. ASSUME transport' = "closed", NEW t \in Threads, Return(t, "idle") PROVE CInv' /\ NoCutHeals
  <2>1. \A i : OwnClose(i)' BY <1>3 DEF OwnClose
  <2>2. /\ pc'[t] = "idle" /\ cause'[t] = "nil"
        /\ \A o \in Procs \ {t} : pc'[o] = pc[o] /\ id'[o] = id[o] /\ cause'[o] = cause[o]
    BY <1>3 DEF Return
  <2>3. ErrSet' BY DEF ErrSet
  <2>4. FireErr' BY <2>2 DEF FireErr
  <2>5. ThreadCause'
    <3>1. ASSUME NEW u \in Threads
          PROVE  /\ cause'[u] # "ErrWrite"
                 /\ cause'[u] = "ErrDeviceClosed" => pc'[u] \in {"closeAll", "closing", "fire"}
                 /\ pc'[u] \in {"writeClse", "closeStream", "closeAll", "closing", "fire"} => cause'[u] # "nil"
      BY <2>2 DEF ThreadCause
    <3> QED BY <3>1 DEF ThreadCause
  <2>6. ReaderCause' /\ AbruptCut' BY <1>1 DEF ReaderCause, AbruptCut, Lost
  <2>7. FoundClosed' BY <2>1 DEF FoundClosed
  <2> QED BY <1>1, <2>1, <2>3, <2>4, <2>5, <2>6, <2>7 DEF NoCutHeals
<1> QED BY <1>2, <1>3

\* The steps inside a call keep the close invariant.
LEMMA ThreadStepClose == ASSUME IInv, LInv, CInv, NEW t \in Threads, ThreadStep(t) PROVE CInv' /\ NoCutHeals
<1>a. TypeOK /\ t \in Procs /\ t # Reader BY CloseTypes DEF IInv
<1> USE <1>a, CloseTypes
<1>t. pc[t] \notin {"closing", "fire"} => todo[t] = {} BY DEF IInv, TodoClosing
<1>c. pc[t] \notin {"closeAll", "closing", "fire"} => cause[t] # "ErrDeviceClosed" BY DEF CInv, ThreadCause
<1>1. CASE newStream(t)
  <2>1. /\ pc[t] = "newStream" /\ Enter(t, "writeOpen", nextLocalID + 1, "nil")
        /\ UNCHANGED <<closed, err, openCh, todo, transport, readerErr>>
    BY <1>1 DEF newStream, newStreamLocked, wireVars, connVars
  <2> QED BY <1>t, <1>c, <2>1, MoveClose DEF Enter
<1>2. CASE writeOpen(t)
  <2>1. PICK label \in {"awaitOpen", "removeStream"} : Goto(t, label) BY <1>2 DEF writeOpen
  <2>2. pc[t] = "writeOpen" /\ UNCHANGED <<closed, err, openCh, todo, transport, readerErr>>
    BY <1>2 DEF writeOpen, writeMessage, noWrite, streamVars, connVars
  <2>3. cause[t] # "ErrWrite" BY DEF CInv, ThreadCause
  <2> QED BY <1>t, <1>c, <2>1, <2>2, <2>3, MoveClose DEF Goto
<1>3. CASE removeStream(t)
  <2>1. pc[t] = "removeStream" /\ Return(t, "idle") /\ UNCHANGED <<closed, err, openCh, todo, transport, readerErr>>
    BY <1>3 DEF removeStream, wireVars, streamVars, connVars
  <2> QED BY <1>t, <1>c, <2>1, MoveClose DEF Return
<1>4. CASE openReturns(t)
  <2>1. pc[t] = "awaitOpen" /\ Return(t, "idle") /\ UNCHANGED <<closed, err, openCh, todo, transport, readerErr>>
    BY <1>4 DEF openReturns, wireVars, streamVars, connVars
  <2> QED BY <1>t, <1>c, <2>1, MoveClose DEF Return
<1>5. CASE writeClse(t)
  <2>1. pc[t] = "writeClse" /\ Goto(t, "closeStream") /\ UNCHANGED <<closed, err, openCh, todo, transport, readerErr>>
    BY <1>5 DEF writeClse, writeMessage, noWrite, streamVars, connVars
  <2>2. cause[t] # "ErrWrite" /\ cause[t] # "nil" BY <2>1 DEF CInv, ThreadCause
  <2> QED BY <1>t, <1>c, <2>1, <2>2, MoveClose DEF Goto
<1>6. CASE writeData(t)
  <2>1. pc[t] = "writeData" /\ Return(t, "idle") /\ UNCHANGED <<closed, err, openCh, todo, transport, readerErr>>
    BY <1>6 DEF writeData, writeMessage, noWrite, streamVars, connVars
  <2> QED BY <1>t, <1>c, <2>1, MoveClose DEF Return
<1>7. CASE handleOpenStart(t)
  BY <1>7, StartClose DEF handleOpenStart, noData, noWrite, wireVars, streamVars, connVars
<1>8. CASE closeTransport(t)
  BY <1>8, CutAll DEF closeTransport, streamVars, connVars
<1>9. CASE Closing(t) BY <1>9, ClosingClose
<1> QED BY <1>1, <1>2, <1>3, <1>4, <1>5, <1>6, <1>7, <1>8, <1>9 DEF ThreadStep

\* So does starting or cancelling one.
LEMMA ThreadCallClose == ASSUME IInv, CInv, NEW t \in Threads, ThreadCall(t) PROVE CInv' /\ NoCutHeals
<1>a. TypeOK /\ t \in Procs /\ t # Reader BY CloseTypes DEF IInv
<1> USE <1>a, CloseTypes
<1>t. pc[t] \notin {"closing", "fire"} => todo[t] = {} BY DEF IInv, TodoClosing
<1>c. pc[t] \notin {"closeAll", "closing", "fire"} => cause[t] # "ErrDeviceClosed" BY DEF CInv, ThreadCause
<1>b. ASSUME NEW i, pc[t] \in {"idle", "awaitOpen"}, Close(t, i) PROVE CInv' /\ NoCutHeals
  <2>1. PICK label \in {"writeClse", "closeStream"} : Enter(t, label, i, "ErrClosedPipe") BY <1>b DEF Close
  <2>2. UNCHANGED <<closed, err, openCh, todo, transport, readerErr>> BY <1>b DEF Close, wireVars, streamVars, connVars
  <2> QED BY <1>b, <1>t, <1>c, <2>1, <2>2, MoveClose DEF Enter
<1>1. CASE OpenContext(t) BY <1>1, StartClose DEF OpenContext, wireVars, streamVars, connVars
<1>2. CASE openCanceled(t) BY <1>2, <1>b DEF openCanceled
<1>3. CASE StreamClose(t) BY <1>3, <1>b DEF StreamClose
<1>4. CASE Write(t)
  <2>1. PICK i \in held : Enter(t, "writeData", i, "nil") BY <1>4 DEF Write
  <2>2. pc[t] = "idle" /\ UNCHANGED <<closed, err, openCh, todo, transport, readerErr>> BY <1>4 DEF Write, wireVars, streamVars, connVars
  <2> QED BY <1>t, <1>c, <2>1, <2>2, MoveClose DEF Enter
<1>5. CASE HandleOpen(t)
  <2>1. pc[t] = "idle" /\ Goto(t, "handleOpen") /\ UNCHANGED <<closed, err, openCh, todo, transport, readerErr>>
    BY <1>5 DEF HandleOpen, wireVars, streamVars, connVars
  <2>2. cause[t] # "ErrWrite" BY DEF CInv, ThreadCause
  <2> QED BY <1>t, <1>c, <2>1, <2>2, MoveClose DEF Goto
<1>6. CASE RemoveOpenHandler(t)
  BY <1>6, CloseFrame DEF RemoveOpenHandler, wireVars, streamVars, procVars, connVars
<1>7. CASE ConnectionClose(t)
  <2>1. /\ pc[t] = "idle" /\ Enter(t, "closeAll", 0, "ErrDeviceClosed")
        /\ UNCHANGED <<closed, err, openCh, todo, transport, readerErr>>
    BY <1>7 DEF ConnectionClose, noData, noWrite, wireVars, streamVars, connVars
  <2> QED BY <1>t, <1>c, <2>1, MoveClose DEF Enter
<1> QED BY <1>1, <1>2, <1>3, <1>4, <1>5, <1>6, <1>7 DEF ThreadCall

\* The reader answers a stream that was not closed abruptly, and moves on.
LEMMA AnswerClose ==
    ASSUME TypeOK, CInv, NEW n \in IDs, NEW label, pc'[Reader] = label,
           pc[Reader] \notin {"closing", "fire", "closeStream", "closeAll"}, todo[Reader] = {},
           label \in {"read", "writeOkay", "ack"},
           \A o \in Procs \ {Reader} : pc'[o] = pc[o] /\ id'[o] = id[o] /\ cause'[o] = cause[o],
           UNCHANGED <<closed, err, todo, transport, readerErr>>,
           openCh' = [openCh EXCEPT ![n] = IF @ = "empty" THEN "nil" ELSE @],
           label = "ack" => pc[Reader] \in OnFound /\ id'[Reader] = id[Reader]
    PROVE  CInv' /\ NoCutHeals
<1> USE CloseTypes DEF CInv
<1>a. \A t \in Threads : pc'[t] = pc[t] /\ cause'[t] = cause[t] OBVIOUS
<1>1. \A i : (OwnClose(i)' <=> OwnClose(i)) /\ (Cut(i)' <=> Cut(i)) BY <1>a DEF OwnClose, Cut, ConnectionClosing, Lost
<1>2. ErrSet' BY DEF ErrSet
<1>3. FireErr'
  <2>1. ASSUME NEW o \in Procs, pc'[o] = "fire" PROVE err'[id'[o]] = cause'[o]
    <3>1. o # Reader BY <2>1
    <3>2. pc[o] = "fire" /\ id'[o] = id[o] /\ cause'[o] = cause[o] BY <2>1, <3>1
    <3> QED BY <3>2 DEF FireErr
  <2> QED BY <2>1 DEF FireErr
<1>4. ThreadCause' BY <1>a DEF ThreadCause
<1>5. ReaderCause' BY DEF ReaderCause, Lost
<1>6. AbruptCut'
  <2>1. ASSUME NEW j \in IDs, closed'[j], err'[j] \in Abrupt, ~Cut(j)' PROVE openCh'[j] \notin {"nil", "empty"}
    <3>1. openCh[j] # "nil" /\ openCh[j] # "empty" BY <1>1, <2>1 DEF AbruptCut
    <3> QED BY <3>1
  <2> QED BY <2>1 DEF AbruptCut
<1>7. FoundClosed'
  <2>1. CASE label = "ack"
    <3>1. pc[Reader] \in OnFound /\ id'[Reader] = id[Reader] BY <2>1
    <3>2. OwnClose(id[Reader]) => OwnClose(id[Reader])' BY <1>a, <3>1 DEF OwnClose, ConnectionClosing
    <3> QED BY <3>1, <3>2 DEF FoundClosed
  <2>2. CASE label # "ack" BY <2>2 DEF FoundClosed, OnFound
  <2> QED BY <2>1, <2>2
<1> QED BY <1>1, <1>2, <1>3, <1>4, <1>5, <1>6, <1>7 DEF NoCutHeals

\* readLoop and its handlers keep the close invariant.
LEMMA ReaderClose == ASSUME IInv, LInv, CInv, ReaderStep PROVE CInv' /\ NoCutHeals
<1>a. TypeOK /\ streams \subseteq IDs BY Types DEF IInv
<1> USE <1>a, CloseTypes
<1>t. pc[Reader] \notin {"closing", "fire"} => todo[Reader] = {} BY DEF IInv, TodoClosing
<1>f. pc[Reader] \in OnFound => id[Reader] \in IDs /\ (closed[id[Reader]] => OwnClose(id[Reader]))
  BY DEF CInv, FoundClosed, OnFound, OnStream
<1>g. ASSUME NEW label, label \notin {"fire", "closeStream", "closeAll"}, pc[Reader] \notin {"closing", "fire"},
             pc' = [pc EXCEPT ![Reader] = label], UNCHANGED <<id, cause, closed, err, openCh, todo, transport, readerErr>>,
             label \in OnFound => pc[Reader] \in OnFound
      PROVE  CInv' /\ NoCutHeals
  BY <1>f, <1>g, <1>t, MoveClose
<1>r. ASSUME Return(Reader, "read"), pc[Reader] \notin {"closing", "fire"},
             UNCHANGED <<closed, err, openCh, todo, transport, readerErr>>
      PROVE  CInv' /\ NoCutHeals
  BY <1>r, <1>t, MoveClose DEF Return, OnFound, Abrupt
<1>1. CASE readMessage
  BY <1>1, <1>g DEF readMessage, streamVars, OnFound, connVars
<1>2. CASE readFailed
  <2>1. /\ pc[Reader] = "read" /\ readerErr' /\ Enter(Reader, "closeAll", 0, "ErrDeviceClosed")
        /\ UNCHANGED <<closed, err, openCh, todo, transport>>
    BY <1>2 DEF readFailed, wireVars, streamVars
  <2> QED BY <1>t, <2>1, MoveClose DEF Enter, OnFound, Lost
<1>3. CASE streamByLocalID
  <2>1. pc[Reader] = "handle" /\ UNCHANGED <<closed, err, openCh, todo, transport, readerErr>>
    BY <1>3 DEF streamByLocalID, noData, noWrite, wireVars, streamVars, connVars
  <2>2. CASE rmsg.arg1 \in streams
    <3>1. Enter(Reader, HandlerOf(rmsg.cmd), rmsg.arg1, "nil") BY <1>3, <2>2 DEF streamByLocalID
    <3>2. HandlerOf(rmsg.cmd) \in {"peerClose", "establish"} BY DEF HandlerOf
    <3>3. ~closed[rmsg.arg1] BY <2>2 DEF IInv, RegisteredOpen
    <3> QED BY <1>t, <2>1, <3>1, <3>2, <3>3, MoveClose DEF Enter, Abrupt
  <2>3. CASE rmsg.arg1 \notin streams BY <1>3, <1>r, <2>1, <2>3 DEF streamByLocalID
  <2> QED BY <2>2, <2>3
<1>4. CASE establish
  BY <1>4, <1>g DEF establish, Goto, wireVars, OnFound, connVars
<1>5. CASE established
  <2>1. /\ pc[Reader] = "established" /\ UNCHANGED <<closed, err, todo, transport, readerErr>>
        /\ openCh' = [openCh EXCEPT ![id[Reader]] = IF @ = "empty" THEN "nil" ELSE @]
    BY <1>5 DEF established, openOnce, wireVars, connVars
  <2>2. id[Reader] \in IDs /\ pc[Reader] \in OnFound BY <1>f, <2>1 DEF OnFound
  <2>3. CASE rmsg.cmd = "WRTE" BY <1>5, <1>t, <2>1, <2>2, <2>3, AnswerClose DEF established, Goto
  <2>4. CASE rmsg.cmd # "WRTE" BY <1>5, <1>t, <2>1, <2>2, <2>4, AnswerClose DEF established, Return
  <2> QED BY <2>3, <2>4
<1>6. CASE acknowledge
  <2>1. transport' = transport BY <1>6 DEF acknowledge, writeMessage
  <2> QED BY <1>6, <1>g, <2>1 DEF acknowledge, Goto, noWrite, streamVars, OnFound, connVars
<1>7. CASE receive
  <2>1. pc[Reader] = "receive" /\ UNCHANGED <<closed, err, openCh, todo, transport, readerErr>> BY <1>7 DEF receive, wireVars, connVars
  <2>2. CASE UNCHANGED <<pc, id, cause>> BY <2>1, <2>2, CloseFrame
  <2>3. CASE Return(Reader, "read") BY <1>r, <2>1, <2>3
  <2> QED BY <1>7, <2>2, <2>3 DEF receive
<1>8. CASE peerClose
  <2>1. PICK e : Enter(Reader, "closeStream", id[Reader], e) /\ (e \in Abrupt => remoteID[id[Reader]] = 0)
    BY <1>8 DEF peerClose, Abrupt
  <2>2. pc[Reader] = "peerClose" /\ UNCHANGED <<closed, err, openCh, todo, transport, readerErr>>
    BY <1>8 DEF peerClose, noData, noWrite, wireVars, streamVars, connVars
  <2>3. e \in Abrupt => openCh[id[Reader]] # "nil" BY <1>f, <2>1, <2>2, AnswersKept DEF OnFound
  <2> QED BY <1>t, <2>1, <2>2, <2>3, MoveClose DEF Enter, OnFound
<1>9. CASE handlePeerOpen
  <2>1. PICK label \in {"accept", "refuse"} : Goto(Reader, label) BY <1>9 DEF handlePeerOpen
  <2> QED BY <1>9, <1>g, <2>1 DEF handlePeerOpen, Goto, noData, noWrite, wireVars, streamVars, OnFound, connVars
<1>10. CASE refuse
  <2>1. transport' = transport BY <1>10 DEF refuse, writeMessage
  <2> QED BY <1>10, <1>r, <2>1 DEF refuse, noWrite, streamVars, connVars
<1>11. CASE newAcceptedStream
  <2>n. PICK n \in IDs : n = nextLocalID + 1 BY <1>11 DEF newAcceptedStream, newStreamLocked
  <2>1. /\ pc[Reader] = "accept" /\ UNCHANGED <<closed, err, todo, transport, readerErr>>
        /\ openCh' = [openCh EXCEPT ![n] = IF @ = "empty" THEN "nil" ELSE @]
        /\ pc' = [pc EXCEPT ![Reader] = "writeOkay"] /\ id' = [id EXCEPT ![Reader] = n]
        /\ cause' = [cause EXCEPT ![Reader] = "nil"]
    BY <1>11, <2>n DEF newAcceptedStream, newStreamLocked, openOnce, Enter, wireVars, connVars
  <2> QED BY <1>t, <2>1, AnswerClose
<1>12. CASE acceptOkay
  <2>1. /\ pc[Reader] = "writeOkay" /\ UNCHANGED <<closed, err, openCh, todo, transport, readerErr>>
        /\ \/ Return(Reader, "read")
           \/ transport # "up" /\ Enter(Reader, "closeStream", id[Reader], "ErrWrite")
    BY <1>12 DEF acceptOkay, writeMessage, streamVars, connVars
  <2>2. CASE Return(Reader, "read") BY <1>r, <2>1, <2>2
  <2>3. CASE transport # "up" /\ Enter(Reader, "closeStream", id[Reader], "ErrWrite")
    BY <1>t, <2>1, <2>3, MoveClose DEF Enter, OnFound, Lost
  <2> QED BY <2>1, <2>2, <2>3
<1>13. CASE Closing(Reader) BY <1>13, ClosingClose
<1> QED BY <1>1, <1>2, <1>3, <1>4, <1>5, <1>6, <1>7, <1>8, <1>9, <1>10, <1>11, <1>12, <1>13 DEF ReaderStep

\* Neither Read nor the device touches why streams are closed, but the device may leave.
LEMMA OtherClose ==
    ASSUME TypeOK, CInv, PeerStep \/ (\E i \in IDs : Read(i)) \/ UNCHANGED vars PROVE CInv' /\ NoCutHeals
<1> USE CloseTypes
<1>1. CASE UNCHANGED vars BY <1>1, CloseFrame DEF vars, wireVars, streamVars, procVars, connVars
<1>2. ASSUME NEW i \in IDs, Read(i) PROVE CInv' /\ NoCutHeals
  <2>1. UNCHANGED readFrame BY <1>2 DEF Read, readBuf, readCheck, readChunk, readWake, readEnd
  <2> QED BY <2>1, CloseFrame DEF readFrame, wireVars, procVars, connVars
<1>3. CASE PeerStep
  <2>1. CASE PeerLeaves
    BY <2>1, CutAll DEF PeerLeaves, hostFrame, streamVars, procVars, connVars
  <2>2. CASE ~PeerLeaves
    <3>1. UNCHANGED <<transport, hostFrame>>
      BY <1>3, <2>2 DEF PeerStep, PeerReceives, PeerOpens, PeerWrites, PeerCloses
    <3> QED BY <3>1, CloseFrame DEF hostFrame, streamVars, procVars, connVars
  <2> QED BY <2>1, <2>2
<1> QED BY <1>1, <1>2, <1>3

\* The close invariant is inductive, and no step undoes a cut.
LEMMA NextClose == ASSUME IInv, LInv, CInv, [Next]_vars PROVE CInv' /\ NoCutHeals
<1>a. TypeOK BY DEF IInv
<1>1. CASE ReaderStep BY <1>1, ReaderClose
<1>2. ASSUME NEW t \in Threads, ThreadStep(t) \/ ThreadCall(t) PROVE CInv' /\ NoCutHeals
  BY <1>2, ThreadStepClose, ThreadCallClose
<1>3. CASE PeerStep \/ (\E i \in IDs : Read(i)) \/ UNCHANGED vars BY <1>a, <1>3, OtherClose
<1> QED BY <1>1, <1>2, <1>3 DEF Next

\* In every reachable state, each stream was closed for the reason its error gives.
THEOREM CloseInvariant == Spec => [](IInv /\ LInv /\ CInv)
<1>1. Init => IInv /\ LInv /\ CInv BY InitInv, InitLink, InitClose
<1>2. IInv /\ LInv /\ CInv /\ [Next]_vars => (IInv /\ LInv /\ CInv)' BY NextInv, NextLink, NextClose
<1> QED BY <1>1, <1>2, PTL DEF Spec

\* A panic of the reader leaves it at its send on the closed dataCh (stream.go:188).
PanicAtSend == panicked => pc[Reader] = "receive" /\ closed[id[Reader]]

\* The send on a closed channel (stream.go:188) that the run conn_panic finds happens only to a
\* program that calls Stream.Close on that stream, or Connection.Close, while data arrives for it:
\* a device that closes its streams or goes away never leads to it.
PanicScope == panicked => OwnClose(id[Reader])

\* For any number of streams, goroutines and packets, only the program's own Close lets the reader
\* send on a closed channel.
THEOREM PanicNeedsOwnClose == Spec => []PanicScope
<1>1. Init => PanicAtSend BY DEF Init, PanicAtSend
<1>2. PanicAtSend /\ [Next]_vars => PanicAtSend'
  <2> SUFFICES ASSUME PanicAtSend, [Next]_vars, panicked' PROVE pc'[Reader] = "receive" /\ closed'[id'[Reader]]
    BY DEF PanicAtSend
  <2>1. CASE UNCHANGED vars BY <2>1 DEF vars, procVars, streamVars, PanicAtSend, connVars
  <2>2. CASE Next
    <3>0. ~panicked BY <2>2 DEF Next
    <3>1. CASE receive BY <3>0, <3>1 DEF receive
    <3>2. ASSUME NEW p \in Procs, Closing(p) PROVE UNCHANGED panicked
      BY <3>2 DEF Closing, closeStream, closeAllStreams, Detach, closeWithError, fireOpen, closeReturn, noData, noWrite
    <3>3. CASE ReaderStep /\ ~receive
      BY <3>0, <3>2, <3>3 DEF ReaderStep, readMessage, readFailed, streamByLocalID, establish, established, acknowledge,
         peerClose, handlePeerOpen, refuse, newAcceptedStream, acceptOkay, noData, noWrite, Procs
    <3>4. ASSUME NEW t \in Threads, ThreadStep(t) PROVE UNCHANGED panicked
      BY <3>2, <3>4 DEF ThreadStep, newStream, writeOpen, removeStream, openReturns, writeClse, writeData,
         handleOpenStart, closeTransport, noData, noWrite, Procs
    <3>5. ASSUME NEW t \in Threads, ThreadCall(t) PROVE UNCHANGED panicked
      BY <3>5 DEF ThreadCall, OpenContext, openCanceled, StreamClose, Close, Write, HandleOpen, RemoveOpenHandler,
         ConnectionClose, noData, noWrite
    <3>6. ASSUME NEW i \in IDs, Read(i) PROVE UNCHANGED panicked
      BY <3>6 DEF Read, readBuf, readCheck, readChunk, readWake, readEnd, readFrame
    <3>7. CASE PeerStep
      BY <3>0, <3>7 DEF PeerStep, PeerReceives, PeerOpens, PeerLeaves, PeerWrites, PeerCloses, hostFrame
    <3> QED BY <2>2, <3>0, <3>1, <3>3, <3>4, <3>5, <3>6, <3>7 DEF Next
  <2> QED BY <2>1, <2>2
<1>3. PanicAtSend /\ CInv => PanicScope BY DEF PanicAtSend, PanicScope, CInv, FoundClosed, OnFound
<1> QED BY <1>1, <1>2, <1>3, CloseInvariant, PTL DEF Spec

-----------------------------------------------------------------------------
(* Every stream is a StreamPipe.                                           *)

\* The program has got, and dataCh holds, no byte that the device has not written.
BInv ==
    \A q \in IDs : peerHost[q] # 0 =>
      /\ Received(peerHost[q]) <= peerSent[q]
      /\ \A k \in 1 .. Len(dataCh[peerHost[q]]) : End(dataCh[peerHost[q]][k]) <= peerSent[q]

\* A stream of the device is joined to one stream of the host.
LEMMA OneSide ==
    ASSUME TypeOK, LInv, NEW q \in IDs, NEW i \in IDs, peerHost[q] = i
    PROVE  /\ Sent(i) = peerSent[q] /\ (Shut(i) <=> peerState[q] = "closed")
           /\ \A r \in IDs : peerHost[r] = i => r = q
<1> USE LinkTypes
<1>1. \A r \in IDs : peerHost[r] = i => r = q BY DEF LInv, PeerSide
<1>2. (CHOOSE r \in IDs : peerHost[r] = i) = q BY <1>1
<1>3. Sent(i) = peerSent[q] BY <1>2 DEF Sent
<1> QED BY <1>1, <1>3 DEF Shut

\* One that the device does not know of has sent nothing and is not closed.
LEMMA NoSide == ASSUME NEW i, Unknown(i) PROVE Sent(i) = 0 /\ ~Shut(i)
  BY DEF Unknown, Sent, Shut

\* The device's sides before and after a step that adds sides to none but streams it did not know of.
LEMMA SidesKept ==
    ASSUME TypeOK, LInv, LInv', TypeOK', NEW i \in IDs,
           \A q \in IDs : peerHost[q] = i => peerHost'[q] = i,
           \A q \in IDs : peerHost'[q] = i /\ peerHost[q] # i => peerSent'[q] = 0 /\ peerState'[q] # "closed"
    PROVE  \/ Unknown(i) /\ Sent(i) = 0 /\ ~Shut(i) /\ Sent(i)' = 0 /\ ~Shut(i)'
           \/ \E q \in IDs : /\ peerHost[q] = i /\ peerHost'[q] = i
                             /\ Sent(i) = peerSent[q] /\ Sent(i)' = peerSent'[q]
                             /\ (Shut(i) <=> peerState[q] = "closed") /\ (Shut(i)' <=> peerState'[q] = "closed")
<1> USE LinkTypes
<1>p. ASSUME NEW q \in IDs, peerHost'[q] = i
      PROVE  Sent(i)' = peerSent'[q] /\ (Shut(i)' <=> peerState'[q] = "closed")
  <2>1. \A r \in IDs : peerHost'[r] = i => r = q BY <1>p DEF LInv, PeerSide
  <2>2. (CHOOSE r \in IDs : peerHost'[r] = i) = q BY <1>p, <2>1
  <2>3. Sent(i)' = peerSent'[q] BY <1>p, <2>2 DEF Sent
  <2> QED BY <1>p, <2>1, <2>3 DEF Shut
<1>1. CASE Unknown(i)
  <2>1. Sent(i) = 0 /\ ~Shut(i) BY <1>1, NoSide
  <2>2. CASE \E q \in IDs : peerHost'[q] = i
    <3>1. PICK q \in IDs : peerHost'[q] = i BY <2>2
    <3>2. peerHost[q] # i BY <1>1 DEF Unknown
    <3> QED BY <1>1, <1>p, <2>1, <3>1, <3>2
  <2>3. CASE ~\E q \in IDs : peerHost'[q] = i
    <3>1. Sent(i)' = 0 /\ ~Shut(i)' BY <2>3 DEF Sent, Shut
    <3> QED BY <1>1, <2>1, <3>1
  <2> QED BY <2>2, <2>3
<1>2. CASE ~Unknown(i)
  <2>1. PICK q \in IDs : peerHost[q] = i BY <1>2 DEF Unknown
  <2>2. peerHost'[q] = i BY <2>1
  <2> QED BY <1>p, <2>1, <2>2, OneSide
<1> QED BY <1>1, <1>2

\* What the program's calls and readLoop leave to Read and to the device.
LEMMA CallFrame ==
    ASSUME ReaderStep \/ \E t \in Threads : ThreadStep(t) \/ ThreadCall(t)
    PROVE  UNCHANGED <<delivered, reading, buf, peerVars>> /\ (receive \/ UNCHANGED dataCh)
<1>1. ASSUME NEW p \in Procs, Closing(p) PROVE UNCHANGED <<delivered, reading, buf, peerVars, dataCh>>
  BY <1>1 DEF Closing, closeStream, closeAllStreams, Detach, closeWithError, fireOpen, closeReturn, noData, noWrite,
     appVars, streamVars, connVars
<1>2. CASE receive BY <1>2 DEF receive, appVars
<1>3. CASE ReaderStep /\ ~receive
  <2>1. CASE readMessage \/ readFailed \/ streamByLocalID \/ establish \/ established \/ acknowledge
    BY <2>1 DEF readMessage, readFailed, streamByLocalID, establish, established, acknowledge, noData, noWrite, appVars, streamVars, connVars
  <2>2. CASE peerClose \/ handlePeerOpen \/ refuse \/ newAcceptedStream \/ acceptOkay
    BY <2>2 DEF peerClose, handlePeerOpen, refuse, newAcceptedStream, acceptOkay, noData, noWrite, appVars, streamVars, connVars
  <2> QED BY <1>1, <1>3, <2>1, <2>2 DEF ReaderStep, Procs
<1>4. ASSUME NEW t \in Threads, ThreadStep(t) PROVE UNCHANGED <<delivered, reading, buf, peerVars, dataCh>>
  BY <1>1, <1>4 DEF ThreadStep, newStream, writeOpen, removeStream, openReturns, writeClse, writeData,
     handleOpenStart, closeTransport, noData, noWrite, appVars, streamVars, Procs, connVars
<1>5. ASSUME NEW t \in Threads, ThreadCall(t) PROVE UNCHANGED <<delivered, reading, buf, peerVars, dataCh>>
  BY <1>5 DEF ThreadCall, OpenContext, openCanceled, StreamClose, Close, Write, HandleOpen, RemoveOpenHandler,
     ConnectionClose, noData, noWrite, appVars, streamVars, connVars
<1> QED BY <1>2, <1>3, <1>4, <1>5

\* What the device's steps do to its sides of the streams: it writes on one it has open, it is
\* told of one it did not know, or it closes one.
LEMMA DeviceSides ==
    ASSUME TypeOK, LInv, PeerStep
    PROVE  /\ UNCHANGED <<delivered, reading, buf, dataCh>>
           /\ \/ \E q \in IDs : PeerWrites(q)
              \/ /\ UNCHANGED peerSent
                 /\ \A q \in IDs : \/ peerHost'[q] = peerHost[q]
                                   \/ /\ peerHost[q] = 0 /\ peerHost'[q] \in IDs /\ Unknown(peerHost'[q])
                                      /\ peerState'[q] = "open"
                 /\ \A q \in IDs : peerState[q] = "closed" => peerState'[q] = "closed"
                 /\ \A q, r \in IDs :
                      peerState'[q] = "closed" /\ peerState[q] # "closed" /\ peerState'[r] = "closed" /\ peerState[r] # "closed" => q = r
<1> USE LinkTypes
<1>h. UNCHANGED <<delivered, reading, buf, dataCh>>
  BY DEF PeerStep, PeerReceives, PeerOpens, PeerLeaves, PeerWrites, PeerCloses, hostFrame, appVars, streamVars, connVars
<1>n. ASSUME UNCHANGED <<peerSent, peerHost>>, NEW c, NEW l, peerState' = [peerState EXCEPT ![c] = l],
             c \in IDs => peerState[c] # "closed" \/ l = "closed"
      PROVE  /\ UNCHANGED peerSent
             /\ \A q \in IDs : peerHost'[q] = peerHost[q]
             /\ \A q \in IDs : peerState[q] = "closed" => peerState'[q] = "closed"
             /\ \A q, r \in IDs :
                  peerState'[q] = "closed" /\ peerState[q] # "closed" /\ peerState'[r] = "closed" /\ peerState[r] # "closed" => q = r
  BY <1>n
<1>j. ASSUME UNCHANGED peerSent, NEW q \in IDs, NEW i \in IDs, Unknown(i), peerHost[q] = 0, peerState[q] # "closed",
             peerHost' = [peerHost EXCEPT ![q] = i], peerState' = [peerState EXCEPT ![q] = "open"]
      PROVE  /\ UNCHANGED peerSent
             /\ \A r \in IDs : \/ peerHost'[r] = peerHost[r]
                               \/ /\ peerHost[r] = 0 /\ peerHost'[r] \in IDs /\ Unknown(peerHost'[r])
                                  /\ peerState'[r] = "open"
             /\ \A r \in IDs : peerState[r] = "closed" => peerState'[r] = "closed"
             /\ \A r, s \in IDs :
                  peerState'[r] = "closed" /\ peerState[r] # "closed" /\ peerState'[s] = "closed" /\ peerState[s] # "closed" => r = s
  <2>1. peerHost'[q] = i /\ \A r \in IDs \ {q} : peerHost'[r] = peerHost[r] BY <1>j
  <2>2. peerState'[q] = "open" /\ \A r \in IDs \ {q} : peerState'[r] = peerState[r] BY <1>j
  <2> QED BY <1>j, <2>1, <2>2
<1>1. CASE \E q \in IDs : PeerWrites(q) BY <1>h, <1>1
<1>2. ASSUME NEW q \in IDs, PeerCloses(q) PROVE UNCHANGED <<peerSent, peerHost>> /\ peerState' = [peerState EXCEPT ![q] = "closed"]
  BY <1>2 DEF PeerCloses
<1>3. CASE PeerOpens
  <2>1. PICK n \in IDs : n = peerNext + 1 /\ n > peerNext BY <1>3 DEF PeerOpens
  <2>2. UNCHANGED <<peerSent, peerHost>> /\ peerState' = [peerState EXCEPT ![n] = "opening"]
    BY <1>3, <2>1 DEF PeerOpens
  <2>3. peerState[n] = "free" BY <2>1 DEF LInv, PeerSide
  <2> QED BY <1>h, <1>n, <2>2, <2>3
<1>4. CASE UNCHANGED <<peerSent, peerHost, peerState>> BY <1>h, <1>4
<1>5. CASE PeerLeaves BY <1>4, <1>5 DEF PeerLeaves, peerVars
<1>6. CASE PeerReceives
  <2>b. toPeer # <<>> /\ toPeer' = Tail(toPeer)
    BY <1>6 DEF PeerReceives, peerAccept, peerRefuse, peerOkay, peerWrte, peerClse, peerReply
  <2>h. PICK h \in Messages : h = Head(toPeer) BY <2>b, Taken
  <2>k. ToPeer(h) BY <2>b, <2>h, TakenPeer
  <2>1. CASE peerAccept
    <3>1. PICK n \in IDs : n = peerNext + 1 /\ n > peerNext BY <2>1 DEF peerAccept
    <3>2. /\ h.cmd = "OPEN" /\ peerState' = [peerState EXCEPT ![n] = "open"]
          /\ peerHost' = [peerHost EXCEPT ![n] = h.arg0] /\ UNCHANGED peerSent
      BY <2>1, <2>h, <3>1 DEF peerAccept
    <3>3. PICK i \in IDs : i = h.arg0 /\ Unknown(i) BY <2>k, <3>2 DEF ToPeer, Unjoined
    <3>4. peerHost[n] = 0 /\ peerState[n] = "free" BY <3>1 DEF LInv, PeerSide
    <3> QED BY <1>h, <1>j, <3>2, <3>3, <3>4
  <2>2. CASE peerRefuse \/ peerWrte BY <1>4, <2>2 DEF peerRefuse, peerWrte, peerVars
  <2>3. CASE peerOkay
    <3>1. h.cmd = "OKAY" /\ UNCHANGED peerSent BY <2>3, <2>h DEF peerOkay
    <3>2. PICK i \in IDs, q \in IDs : i = h.arg0 /\ q = h.arg1 /\ remoteID[i] = q BY <2>k, <3>1 DEF ToPeer
    <3>3. CASE peerState[q] # "opening"
      <4>1. UNCHANGED <<peerState, peerHost>> BY <2>3, <2>h, <3>2, <3>3 DEF peerOkay
      <4> QED BY <1>4, <3>1, <4>1
    <3>4. CASE peerState[q] = "opening"
      <4>1. peerState' = [peerState EXCEPT ![q] = "open"] /\ peerHost' = [peerHost EXCEPT ![q] = i]
        BY <2>3, <2>h, <3>2, <3>4 DEF peerOkay
      <4>2. peerHost[q] = 0 /\ q # 0 /\ i # 0 BY <3>2, <3>4 DEF LInv, PeerSide, HostSide
      <4>3. Unknown(i) BY <3>2, <4>2 DEF LInv, PeerSide, Unknown
      <4> QED BY <1>h, <1>j, <3>1, <3>4, <4>1, <4>2, <4>3
    <3> QED BY <3>3, <3>4
  <2>4. CASE peerClse
    <3>1. UNCHANGED <<peerSent, peerHost>> /\ peerState' = [peerState EXCEPT ![Head(toPeer).arg1] = "closed"]
      BY <2>4 DEF peerClse
    <3> QED BY <1>h, <1>n, <3>1
  <2> QED BY <1>6, <2>1, <2>2, <2>3, <2>4 DEF PeerReceives
<1> QED BY <1>1, <1>2, <1>3, <1>5, <1>6, <1>h, <1>n DEF PeerStep

\* What Read does to the count of bytes received and to the queue.
LEMMA ReadBound == ASSUME IInv, DInv, BInv, NEW i \in IDs, Read(i) PROVE BInv'
<1>a. TypeOK BY DEF IInv
<1> USE <1>a, LinkTypes, DataTypes
<1>p. UNCHANGED <<peerHost, peerSent>>
  BY DEF Read, readBuf, readCheck, readChunk, readWake, readEnd, readFrame, peerVars
<1>1. ASSUME UNCHANGED dataCh, \A j \in IDs : Received(j)' = Received(j) PROVE BInv'
  <2> SUFFICES ASSUME NEW q \in IDs, peerHost'[q] # 0
               PROVE  /\ Received(peerHost[q])' <= peerSent'[q]
                      /\ \A k \in 1 .. Len(dataCh'[peerHost'[q]]) : End(dataCh'[peerHost'[q]][k]) <= peerSent'[q]
    BY DEF BInv
  <2>1. PICK j \in IDs : j = peerHost[q] /\ j # 0 BY <1>p
  <2>2. Received(j)' = Received(j) BY <1>1
  <2>3. Received(peerHost[q])' = Received(j)' BY <1>p, <2>1 DEF Received
  <2>4. Received(j) <= peerSent[q] /\ \A k \in 1 .. Len(dataCh[j]) : End(dataCh[j][k]) <= peerSent[q] BY <2>1 DEF BInv
  <2> QED BY <1>p, <1>1, <2>1, <2>2, <2>3, <2>4
<1>2. CASE readBuf(i)
  <2>n. PICK n \in 1 .. Len(buf[i]) : /\ delivered' = [delivered EXCEPT ![i] = @ \o SubSeq(buf[i], 1, n)]
                                      /\ buf' = [buf EXCEPT ![i] = SubSeq(@, n + 1, Len(@))]
    BY <1>2 DEF readBuf
  <2>d. PICK d \in Seq(Nat), b \in Seq(Nat) : d = delivered[i] /\ b = buf[i] OBVIOUS
  <2>1. delivered'[i] = d \o SubSeq(b, 1, n) /\ buf'[i] = SubSeq(b, n + 1, Len(b)) BY <2>n, <2>d
  <2>2. \A j \in IDs \ {i} : delivered'[j] = delivered[j] /\ buf'[j] = buf[j] BY <2>n
  <2>3. Len(d) \in Nat /\ Len(b) \in Nat /\ n \in 1 .. Len(b) BY <2>d
  <2>4. SubSeq(b, 1, n) \in Seq(Nat) /\ Len(SubSeq(b, 1, n)) = n BY <2>3, Prefix
  <2>5. Len(delivered'[i]) = Len(d) + n BY <2>1, <2>3, <2>4
  <2>6. Len(buf'[i]) = Len(b) - n BY <2>1, <2>3, Prefix
  <2>7. Received(i)' = Received(i) BY <2>d, <2>3, <2>5, <2>6 DEF Received
  <2>8. \A j \in IDs : Received(j)' = Received(j) BY <2>2, <2>7 DEF Received
  <2> QED BY <1>1, <1>2, <2>8 DEF readBuf
<1>3. CASE readCheck(i) \/ readWake(i) \/ readEnd(i)
  <2>1. UNCHANGED <<dataCh, buf, delivered>> BY <1>3 DEF readCheck, readWake, readEnd
  <2>2. \A j \in IDs : Received(j)' = Received(j) BY <2>1 DEF Received
  <2> QED BY <1>1, <2>1, <2>2
<1>4. CASE readChunk(i)
  <2>b. /\ dataCh[i] # <<>> /\ UNCHANGED delivered /\ buf[i] = <<>>
        /\ dataCh' = [dataCh EXCEPT ![i] = Tail(@)] /\ buf' = [buf EXCEPT ![i] = @ \o Head(dataCh[i])]
    BY <1>4 DEF readChunk, DInv, Reads
  <2>d. PICK s \in Seq(Seq(Nat)) : s = dataCh[i] /\ s # <<>> BY <2>b
  <2>h. PICK c \in Seq(Nat) : c = Head(s) /\ c = s[1] BY <2>d
  <2>f. /\ dataCh'[i] = Tail(s) /\ buf'[i] = <<>> \o c
        /\ \A j \in IDs \ {i} : dataCh'[j] = dataCh[j] /\ buf'[j] = buf[j]
    BY <2>b, <2>d, <2>h
  <2>1. Len(s) \in Nat /\ 1 \in 1 .. Len(s) /\ Len(Tail(s)) = Len(s) - 1 BY <2>d
  <2>2. \A k \in 1 .. Len(Tail(s)) : k + 1 \in 1 .. Len(s) /\ Tail(s)[k] = s[k + 1] BY <2>d, <2>1
  <2>3. Chunk(c) /\ Start(c) = Received(i)
    <3>1. \A k \in 1 .. Len(s) : Chunk(s[k]) /\ Start(s[k]) = IF k = 1 THEN Received(i) ELSE End(s[k - 1])
      BY <2>d DEF DInv, Queued
    <3> QED BY <2>h, <2>1, <3>1
  <2>4. Len(c) \in Nat /\ End(c) = Start(c) + Len(c) BY <2>3, ChunkEnds
  <2>5. Len(delivered[i]) \in Nat /\ Len(buf[i]) = 0 /\ buf'[i] = c BY <2>b, <2>f
  <2>6. Received(i) = Len(delivered[i]) BY <2>5 DEF Received
  <2>7. Received(i)' = Len(delivered[i]) + Len(c) BY <2>b, <2>5 DEF Received
  <2>8. Received(i)' = End(c) BY <2>3, <2>4, <2>5, <2>6, <2>7
  <2>9. ASSUME NEW q \in IDs, peerHost'[q] # 0
        PROVE  /\ Received(peerHost[q])' <= peerSent'[q]
               /\ \A k \in 1 .. Len(dataCh'[peerHost'[q]]) : End(dataCh'[peerHost'[q]][k]) <= peerSent'[q]
    <3>1. PICK j \in IDs : j = peerHost[q] /\ j # 0 BY <1>p, <2>9
    <3>2. Received(j) <= peerSent[q] /\ \A k \in 1 .. Len(dataCh[j]) : End(dataCh[j][k]) <= peerSent[q] BY <3>1 DEF BInv
    <3>3. Received(peerHost[q])' = Received(j)' BY <1>p, <3>1 DEF Received
    <3>4. CASE j = i
      <4>1. End(c) <= peerSent[q] BY <2>d, <2>h, <2>1, <3>2, <3>4
      <4>2. \A k \in 1 .. Len(Tail(s)) : End(Tail(s)[k]) <= peerSent[q] BY <2>d, <2>2, <3>2, <3>4
      <4> QED BY <1>p, <2>8, <2>f, <3>1, <3>3, <3>4, <4>1, <4>2
    <3>5. CASE j # i
      <4>1. dataCh'[j] = dataCh[j] /\ Received(j)' = Received(j) BY <2>b, <2>f, <3>5 DEF Received
      <4> QED BY <1>p, <3>1, <3>2, <3>3, <4>1
    <3> QED BY <3>4, <3>5
  <2> QED BY <2>9 DEF BInv
<1> QED BY <1>2, <1>3, <1>4 DEF Read

\* The payload readLoop queues is one the device has written.
LEMMA ReceiveBound == ASSUME IInv, LInv, DInv, BInv, receive PROVE BInv'
<1>a. TypeOK BY DEF IInv
<1> USE <1>a, LinkTypes, DataTypes
<1>p. UNCHANGED <<delivered, buf, peerHost, peerSent>> /\ pc[Reader] = "receive" BY DEF receive, appVars, peerVars
<1>r. \A j : Received(j)' = Received(j) BY <1>p DEF Received
<1>1. CASE UNCHANGED dataCh
  BY <1>p, <1>r, <1>1 DEF BInv, Received
<1>2. CASE dataCh' = [dataCh EXCEPT ![id[Reader]] = Append(@, rmsg.data)]
  <2>i. PICK i \in IDs : i = id[Reader] /\ rmsg.arg1 = i /\ rmsg.cmd = "WRTE"
    BY <1>p DEF OnStream, LInv, ReaderAt, OnFound
  <2>c. PICK c \in Seq(Nat) : c = rmsg.data BY MessageFields
  <2>s. PICK s \in Seq(Seq(Nat)) : s = dataCh[i] OBVIOUS
  <2>1. InHand(i) /\ Live(i) BY <1>p, <2>i DEF InHand, Live, OnFound
  <2>2. dataCh'[i] = Append(s, c) /\ \A j \in IDs \ {i} : dataCh'[j] = dataCh[j] BY <1>2, <2>i, <2>c, <2>s
  <2>3. /\ Len(s) \in Nat /\ Len(Append(s, c)) = Len(s) + 1 /\ Append(s, c)[Len(s) + 1] = c
        /\ \A k \in 1 .. Len(s) : Append(s, c)[k] = s[k]
    OBVIOUS
  <2>4. \A k \in 1 .. Len(s) + 1 : k \in 1 .. Len(s) \/ k = Len(s) + 1
    <3>1. PICK n \in Nat : n = Len(s) BY <2>3
    <3>2. \A k \in 1 .. n + 1 : k \in 1 .. n \/ k = n + 1 OBVIOUS
    <3> QED BY <3>1, <3>2
  <2>5. ASSUME NEW q \in IDs, peerHost[q] = i PROVE End(c) <= peerSent[q]
    BY <2>1, <2>5, <2>c DEF DInv, Complete, InOrder, REnd
  <2>6. ASSUME NEW q \in IDs, peerHost'[q] # 0
        PROVE  /\ Received(peerHost[q])' <= peerSent'[q]
               /\ \A k \in 1 .. Len(dataCh'[peerHost'[q]]) : End(dataCh'[peerHost'[q]][k]) <= peerSent'[q]
    <3>1. PICK j \in IDs : j = peerHost[q] /\ j # 0 BY <1>p, <2>6
    <3>2. Received(j) <= peerSent[q] /\ \A k \in 1 .. Len(dataCh[j]) : End(dataCh[j][k]) <= peerSent[q] BY <3>1 DEF BInv
    <3>3. Received(peerHost[q])' = Received(j) BY <1>p, <3>1 DEF Received
    <3>4. CASE j = i
      <4>1. End(c) <= peerSent[q] BY <2>5, <3>1, <3>4
      <4>2. ASSUME NEW k \in 1 .. Len(Append(s, c)) PROVE End(Append(s, c)[k]) <= peerSent[q]
        BY <2>3, <2>4, <2>s, <3>2, <3>4, <4>1
      <4> QED BY <1>p, <2>2, <3>1, <3>2, <3>3, <3>4, <4>2
    <3>5. CASE j # i BY <1>p, <2>2, <3>1, <3>2, <3>3, <3>5
    <3> QED BY <3>4, <3>5
  <2> QED BY <2>6 DEF BInv
<1> QED BY <1>1, <1>2 DEF receive

\* A stream the device gets to know of has received nothing; one it writes on, no more than before.
LEMMA DeviceBound == ASSUME IInv, LInv, DInv, BInv, PeerStep PROVE BInv'
<1>a. TypeOK BY DEF IInv
<1> USE <1>a, LinkTypes, DataTypes
<1>u. UNCHANGED <<delivered, buf, dataCh>> BY DeviceSides
<1>r. \A j : Received(j)' = Received(j) BY <1>u DEF Received
<1>1. ASSUME NEW q \in IDs, peerHost'[q] # 0
      PROVE  \/ peerHost'[q] = peerHost[q] /\ peerSent'[q] \in Nat /\ peerSent[q] <= peerSent'[q]
             \/ peerHost'[q] \in IDs /\ Unknown(peerHost'[q]) /\ peerSent'[q] \in Nat
  <2>1. ASSUME NEW r \in IDs, PeerWrites(r)
        PROVE  peerHost'[q] = peerHost[q] /\ peerSent'[q] \in Nat /\ peerSent[q] <= peerSent'[q]
    <3>1. PICK n \in 1 .. MaxChunk : peerSent' = [peerSent EXCEPT ![r] = @ + n] BY <2>1 DEF PeerWrites
    <3>2. n \in Nat /\ peerSent[q] \in Nat /\ peerSent[r] \in Nat BY ConnectionAssumption
    <3>3. UNCHANGED peerHost BY <2>1 DEF PeerWrites
    <3>4. CASE q = r BY <3>1, <3>2, <3>3, <3>4
    <3>5. CASE q # r BY <3>1, <3>2, <3>3, <3>5
    <3> QED BY <3>4, <3>5
  <2>2. peerSent[q] \in Nat /\ peerSent[q] <= peerSent[q] OBVIOUS
  <2> QED BY <1>1, <2>1, <2>2, DeviceSides
<1>2. ASSUME NEW q \in IDs, peerHost'[q] # 0
      PROVE  /\ Received(peerHost[q])' <= peerSent'[q]
             /\ \A k \in 1 .. Len(dataCh'[peerHost'[q]]) : End(dataCh'[peerHost'[q]][k]) <= peerSent'[q]
  <2>1. CASE peerHost'[q] = peerHost[q] /\ peerSent'[q] \in Nat /\ peerSent[q] <= peerSent'[q]
    <3>1. PICK j \in IDs : j = peerHost[q] /\ j # 0 BY <1>2, <2>1
    <3>2. Received(j) <= peerSent[q] /\ \A k \in 1 .. Len(dataCh[j]) : End(dataCh[j][k]) <= peerSent[q] BY <3>1 DEF BInv
    <3>3. Received(peerHost[q])' = Received(j) BY <1>u, <2>1, <3>1 DEF Received
    <3>4. Received(j) \in Nat /\ peerSent[q] \in Nat BY EndsNat DEF DInv
    <3>5. Received(j) <= peerSent'[q] BY <2>1, <3>2, <3>4
    <3>6. ASSUME NEW k \in 1 .. Len(dataCh[j]) PROVE End(dataCh[j][k]) <= peerSent'[q]
      <4>1. Chunk(dataCh[j][k]) /\ dataCh[j][k] \in Seq(Nat) BY DEF DInv, Queued
      <4>2. End(dataCh[j][k]) \in Nat BY <4>1, ChunkEnds
      <4>3. End(dataCh[j][k]) <= peerSent[q] BY <3>2
      <4>4. PICK a \in Nat, b \in Nat, c \in Nat : a = End(dataCh[j][k]) /\ b = peerSent[q] /\ c = peerSent'[q]
        BY <2>1, <3>4, <4>2
      <4>5. a <= b /\ b <= c BY <2>1, <4>3, <4>4
      <4>6. a <= c BY <4>5
      <4> QED BY <4>4, <4>6
    <3> QED BY <1>u, <2>1, <3>1, <3>3, <3>5, <3>6
  <2>2. CASE peerHost'[q] \in IDs /\ Unknown(peerHost'[q]) /\ peerSent'[q] \in Nat
    <3>1. PICK j \in IDs : j = peerHost'[q] /\ Unknown(j) BY <2>2
    <3>2. dataCh[j] = <<>> /\ buf[j] = <<>> /\ delivered[j] = <<>> BY <3>1 DEF DInv, Queued
    <3>3. Received(j) = 0 BY <3>2 DEF Received
    <3>4. Received(peerHost[q])' = Received(j) BY <1>u, <3>1 DEF Received
    <3>5. Len(dataCh'[peerHost'[q]]) = 0 BY <1>u, <3>1, <3>2
    <3>6. PICK a \in Nat : a = peerSent'[q] BY <2>2
    <3>7. Received(peerHost[q])' <= peerSent'[q] BY <3>3, <3>4, <3>6
    <3>8. 1 .. Len(dataCh'[peerHost'[q]]) = {} BY <3>5
    <3> QED BY <3>7, <3>8
  <2> QED BY <1>1, <1>2, <2>1, <2>2
<1> QED BY <1>2 DEF BInv

\* No byte reaches the program that the device has not written.
LEMMA NextBound == ASSUME IInv, LInv, DInv, BInv, [Next]_vars PROVE BInv'
<1>1. CASE UNCHANGED <<delivered, buf, dataCh, peerHost, peerSent>> BY <1>1 DEF BInv, Received
<1>2. CASE ReaderStep \/ \E t \in Threads : ThreadStep(t) \/ ThreadCall(t)
  <2>1. UNCHANGED <<delivered, buf, peerHost, peerSent>> /\ (receive \/ UNCHANGED dataCh) BY <1>2, CallFrame DEF peerVars
  <2> QED BY <1>1, <2>1, ReceiveBound
<1>3. ASSUME NEW i \in IDs, Read(i) PROVE BInv' BY <1>3, ReadBound
<1>4. CASE PeerStep BY <1>4, DeviceBound
<1>5. CASE UNCHANGED vars BY <1>1, <1>5 DEF vars, appVars, streamVars, peerVars, connVars
<1> QED BY <1>2, <1>3, <1>4, <1>5 DEF Next

\* The steps of a StreamPipe, by what they do to each stream.  First, those that cut streams
\* or do nothing.
LEMMA PipeCut ==
    ASSUME NoCutHeals, UNCHANGED delivered,
           \A i \in IDs : Sent(i)' = Sent(i) /\ (Shut(i)' <=> Shut(i)) /\ Ended(i)' = Ended(i)
    PROVE  Pipe!Next
<1>1. [i \in IDs |-> Sent(i)]' = [i \in IDs |-> Sent(i)] OBVIOUS
<1>2. [i \in IDs |-> Shut(i)]' = [i \in IDs |-> Shut(i)] BY DEF Shut
<1>3. [i \in IDs |-> Ended(i)]' = [i \in IDs |-> Ended(i)] OBVIOUS
<1>4. PICK set \in SUBSET IDs : set = {i \in IDs : Cut(i)'} OBVIOUS
<1>5. {i \in IDs : Cut(i)}' = {i \in IDs : Cut(i)} \cup set BY <1>4 DEF NoCutHeals
<1>6. Pipe!Cut(set) BY <1>1, <1>2, <1>3, <1>5 DEF Pipe!Cut
<1> QED BY <1>6 DEF Pipe!Next

\* The device writes.
LEMMA PipeWrite ==
    ASSUME NEW s \in IDs, NEW n \in 1 .. MaxChunk, ~Shut(s), Sent(s)' = Sent(s) + n,
           \A i \in IDs \ {s} : Sent(i)' = Sent(i), UNCHANGED delivered,
           \A i \in IDs : (Shut(i)' <=> Shut(i)) /\ Ended(i)' = Ended(i) /\ (Cut(i)' <=> Cut(i))
    PROVE  Pipe!Next
<1>1. [i \in IDs |-> Sent(i)]' = [[i \in IDs |-> Sent(i)] EXCEPT ![s] = @ + n] OBVIOUS
<1>2. [i \in IDs |-> Shut(i)]' = [i \in IDs |-> Shut(i)] BY DEF Shut
<1>3. [i \in IDs |-> Ended(i)]' = [i \in IDs |-> Ended(i)] OBVIOUS
<1>4. {i \in IDs : Cut(i)}' = {i \in IDs : Cut(i)} OBVIOUS
<1>5. ~[i \in IDs |-> Shut(i)][s] BY DEF Shut
<1>6. Pipe!Write(s) BY <1>1, <1>2, <1>3, <1>4, <1>5 DEF Pipe!Write
<1> QED BY <1>6 DEF Pipe!Next

\* The device closes its side.
LEMMA PipeShut ==
    ASSUME NEW s \in IDs, Shut(s)', \A i \in IDs \ {s} : Shut(i)' <=> Shut(i), UNCHANGED delivered,
           \A i \in IDs : Sent(i)' = Sent(i) /\ Ended(i)' = Ended(i) /\ (Cut(i)' <=> Cut(i))
    PROVE  Pipe!Next
<1>1. [i \in IDs |-> Sent(i)]' = [i \in IDs |-> Sent(i)] OBVIOUS
<1>2. [i \in IDs |-> Shut(i)]' = [[i \in IDs |-> Shut(i)] EXCEPT ![s] = TRUE] BY DEF Shut
<1>3. [i \in IDs |-> Ended(i)]' = [i \in IDs |-> Ended(i)] OBVIOUS
<1>4. {i \in IDs : Cut(i)}' = {i \in IDs : Cut(i)} OBVIOUS
<1>6. Pipe!Shut(s) BY <1>1, <1>2, <1>3, <1>4 DEF Pipe!Shut
<1> QED BY <1>6 DEF Pipe!Next

\* Read leaves the device's side and the cuts alone.
LEMMA ReadSides ==
    ASSUME NEW i \in IDs, Read(i)
    PROVE  /\ [j \in IDs |-> Sent(j)]' = [j \in IDs |-> Sent(j)]
           /\ [j \in IDs |-> Shut(j)]' = [j \in IDs |-> Shut(j)]
           /\ {j \in IDs : Cut(j)}' = {j \in IDs : Cut(j)}
<1>1. UNCHANGED <<peerHost, peerSent, peerState, transport, readerErr, cause, pc, err>>
  BY DEF Read, readBuf, readCheck, readChunk, readWake, readEnd, readFrame, peerVars, connVars, wireVars, procVars
<1>2. \A j \in IDs : Sent(j)' = Sent(j) BY <1>1 DEF Sent
<1>3. \A j \in IDs : Shut(j)' = Shut(j) BY <1>1 DEF Shut
<1>4. \A j \in IDs : Cut(j)' <=> Cut(j) BY <1>1 DEF Cut, OwnClose, ConnectionClosing, Lost
<1> QED BY <1>2, <1>3, <1>4

\* Read returns bytes: the next ones the device has written.
LEMMA PipeDeliver ==
    ASSUME IInv, LInv, DInv, BInv, NEW i \in IDs, i \in held, readBuf(i) PROVE Pipe!Next
<1>a. TypeOK BY DEF IInv
<1> USE <1>a, LinkTypes, DataTypes
<1>r. Read(i) BY DEF Read
<1>n. PICK n \in 1 .. Len(buf[i]) : delivered' = [delivered EXCEPT ![i] = @ \o SubSeq(buf[i], 1, n)]
  BY DEF readBuf
<1>d. PICK d \in Seq(Nat), b \in Seq(Nat) : d = delivered[i] /\ b = buf[i] OBVIOUS
<1>1. Len(d) \in Nat /\ Len(b) \in Nat /\ n \in 1 .. Len(b) BY <1>d
<1>2. \A k \in 1 .. Len(b) : b[k] = Len(d) + k BY <1>d DEF DInv, Queued
<1>3. SubSeq(b, 1, n) = [k \in 1 .. n |-> Len(d) + k]
  <2>1. SubSeq(b, 1, n) = [k \in 1 .. n |-> b[k]] /\ \A k \in 1 .. n : k \in 1 .. Len(b) BY <1>1, Prefix
  <2> QED BY <1>2, <2>1
<1>4. ~Unknown(i) BY DEF DInv, Queued, readBuf
<1>5. PICK q \in IDs : peerHost[q] = i BY <1>4 DEF Unknown
<1>6. Sent(i) = peerSent[q] BY <1>5, OneSide
<1>7. Received(i) <= peerSent[q] BY <1>5, ConnectionAssumption DEF BInv
<1>8. n \in 1 .. (Sent(i) - Len(d))
  <2>1. PICK a \in Nat, c \in Nat, e \in Nat : a = Len(d) /\ c = Len(b) /\ e = peerSent[q] BY <1>1
  <2>2. a + c <= e BY <1>7, <1>d, <2>1 DEF Received
  <2>3. n \in 1 .. c BY <1>1, <2>1
  <2>4. n \in 1 .. (e - a) BY <2>2, <2>3
  <2> QED BY <1>6, <2>1, <2>4
<1>9. Ended(i) = "no" /\ [j \in IDs |-> Ended(j)]' = [j \in IDs |-> Ended(j)]
  BY DEF readBuf, Ended
<1>10. delivered' = [delivered EXCEPT ![i] = @ \o [k \in 1 .. n |-> Len(delivered[i]) + k]] BY <1>n, <1>d, <1>3
<1>11. /\ [j \in IDs |-> Sent(j)][i] = Sent(i) /\ [j \in IDs |-> Ended(j)][i] = "no"
       /\ n \in 1 .. (Sent(i) - Len(delivered[i]))
  BY <1>8, <1>9, <1>d
<1>12. Pipe!Deliver(i) BY <1>r, <1>9, <1>10, <1>11, ReadSides DEF Pipe!Deliver
<1> QED BY <1>12 DEF Pipe!Next

\* Read returns io.EOF when it has returned all that a closed device wrote, an error when the
\* stream was cut.
LEMMA PipeEnd ==
    ASSUME IInv, LInv, DInv, CInv, NEW i \in IDs, i \in held, readEnd(i) PROVE Pipe!Next
<1>a. TypeOK BY DEF IInv
<1> USE <1>a, LinkTypes, DataTypes
<1>r. Read(i) BY DEF Read
<1>1. /\ reading[i] = "drain" /\ dataCh[i] = <<>> /\ UNCHANGED delivered
      /\ reading' = [reading EXCEPT ![i] = IF err[i] = "nil" THEN "eof" ELSE "error"]
  BY DEF readEnd
<1>2. closed[i] /\ buf[i] = <<>> BY <1>1 DEF DInv, Reads
<1>3. [j \in IDs |-> Ended(j)][i] = "no" BY <1>1 DEF Ended
<1>4. CASE err[i] = "nil"
  <2>1. Finished(i) BY <1>2, <1>4 DEF DInv, CleanEnds
  <2>2. PICK q \in IDs : q = remoteID[i] /\ peerHost[q] = i /\ peerState[q] = "closed" /\ QEnd(i) = peerSent[q]
    BY <2>1 DEF Finished
  <2>3. Sent(i) = peerSent[q] /\ Shut(i) BY <2>2, OneSide
  <2>4. QEnd(i) = Len(delivered[i])
    <3>1. Len(buf[i]) = 0 /\ Len(delivered[i]) \in Nat BY <1>2
    <3> QED BY <1>1, <3>1 DEF QEnd, Received
  <2>5. [j \in IDs |-> Shut(j)][i] /\ Len(delivered[i]) = [j \in IDs |-> Sent(j)][i] BY <2>2, <2>3, <2>4
  <2>6. [j \in IDs |-> Ended(j)]' = [[j \in IDs |-> Ended(j)] EXCEPT ![i] = "eof"]
    <3>1. Ended(i)' = "eof" /\ \A j \in IDs \ {i} : Ended(j)' = Ended(j) BY <1>1, <1>4 DEF Ended
    <3> QED BY <3>1
  <2>7. Pipe!Eof(i) BY <1>r, <1>1, <1>3, <2>5, <2>6, ReadSides DEF Pipe!Eof
  <2> QED BY <2>7 DEF Pipe!Next
<1>5. CASE err[i] # "nil"
  <2>1. openCh[i] = "nil" BY DEF IInv, HeldOwned
  <2>2. Cut(i)
    <3>1. CASE err[i] = "ErrClosedPipe" BY <3>1 DEF Cut, OwnClose, Lost
    <3>2. CASE err[i] \in Abrupt BY <1>2, <2>1, <3>2 DEF CInv, AbruptCut
    <3> QED BY <1>5, <3>1, <3>2 DEF Abrupt, Errors
  <2>3. [j \in IDs |-> Ended(j)]' = [[j \in IDs |-> Ended(j)] EXCEPT ![i] = "error"]
    <3>1. Ended(i)' = "error" /\ \A j \in IDs \ {i} : Ended(j)' = Ended(j) BY <1>1, <1>5 DEF Ended
    <3> QED BY <3>1
  <2>4. Pipe!Error(i) BY <1>r, <1>1, <1>3, <2>2, <2>3, ReadSides DEF Pipe!Error
  <2> QED BY <2>4 DEF Pipe!Next
<1> QED BY <1>4, <1>5

\* A step of the device is a step of one of its pipes: it writes on one, closes one, or what it
\* does shows on none.
LEMMA DevicePipe == ASSUME IInv, LInv, DInv, NoCutHeals, TypeOK', LInv', PeerStep PROVE Pipe!Next
<1>a. TypeOK BY DEF IInv
<1> USE <1>a, LinkTypes, DataTypes
<1>z. 0 \notin IDs BY ConnectionAssumption
<1>u. UNCHANGED <<delivered, reading>> BY DeviceSides
<1>e. \A i \in IDs : Ended(i)' = Ended(i) BY <1>u DEF Ended
<1>c. UNCHANGED transport => \A i \in IDs : Cut(i)' <=> Cut(i)
  <2>1. UNCHANGED <<cause, pc, err, readerErr>>
    BY DEF PeerStep, PeerReceives, PeerOpens, PeerLeaves, PeerWrites, PeerCloses, hostFrame, procVars, streamVars, connVars
  <2> QED BY <2>1 DEF Cut, OwnClose, ConnectionClosing, Lost
<1>1. ASSUME NEW r \in IDs, PeerWrites(r) PROVE Pipe!Next
  <2>1. PICK n \in 1 .. MaxChunk : peerSent' = [peerSent EXCEPT ![r] = @ + n] BY <1>1 DEF PeerWrites
  <2>2. UNCHANGED <<peerHost, peerState, transport>> /\ peerState[r] = "open" BY <1>1 DEF PeerWrites
  <2>3. PICK s \in IDs : peerHost[r] = s BY <2>2 DEF LInv, PeerSide
  <2>4. ASSUME NEW i \in IDs
        PROVE  /\ Shut(i)' <=> Shut(i)
               /\ i # s => Sent(i)' = Sent(i)
    <3>1. CASE Sent(i) = 0 /\ ~Shut(i) /\ Sent(i)' = 0 /\ ~Shut(i)' BY <3>1
    <3>2. ASSUME NEW q \in IDs, peerHost[q] = i, Sent(i) = peerSent[q], Sent(i)' = peerSent'[q],
                 Shut(i) <=> peerState[q] = "closed", Shut(i)' <=> peerState'[q] = "closed"
          PROVE  (Shut(i)' <=> Shut(i)) /\ (i # s => Sent(i)' = Sent(i))
      <4>1. i # s => q # r BY <2>3, <3>2
      <4>2. q # r => peerSent'[q] = peerSent[q] BY <2>1
      <4> QED BY <2>2, <3>2, <4>1, <4>2
    <3> QED BY <2>2, <3>1, <3>2, SidesKept
  <2>5. Sent(s)' = Sent(s) + n /\ ~Shut(s)
    <3>1. Sent(s) = peerSent[r] /\ ~Shut(s) BY <2>2, <2>3, OneSide
    <3>2. ~Unknown(s) BY <2>3 DEF Unknown
    <3>3. PICK q \in IDs : peerHost[q] = s /\ Sent(s)' = peerSent'[q] BY <2>2, <3>2, SidesKept
    <3>4. q = r BY <2>3, <3>3, OneSide
    <3>5. peerSent'[r] = peerSent[r] + n BY <2>1
    <3> QED BY <3>1, <3>3, <3>4, <3>5
  <2> QED BY <1>u, <1>e, <1>c, <2>2, <2>4, <2>5, PipeWrite
<1>2. CASE /\ UNCHANGED peerSent
           /\ \A q \in IDs : \/ peerHost'[q] = peerHost[q]
                             \/ /\ peerHost[q] = 0 /\ peerHost'[q] \in IDs /\ Unknown(peerHost'[q])
                                /\ peerState'[q] = "open"
           /\ \A q \in IDs : peerState[q] = "closed" => peerState'[q] = "closed"
           /\ \A q, r \in IDs :
                peerState'[q] = "closed" /\ peerState[q] # "closed" /\ peerState'[r] = "closed" /\ peerState[r] # "closed" => q = r
  <2>1. ASSUME NEW i \in IDs
        PROVE  /\ \A q \in IDs : peerHost[q] = i => peerHost'[q] = i
               /\ \A q \in IDs : peerHost'[q] = i /\ peerHost[q] # i => peerSent'[q] = 0 /\ peerState'[q] # "closed"
    BY <1>z, <1>2 DEF DInv, Chunks
  <2>2. ASSUME NEW i \in IDs
        PROVE  \/ Sent(i) = 0 /\ ~Shut(i) /\ Sent(i)' = 0 /\ ~Shut(i)'
               \/ \E q \in IDs : /\ peerHost[q] = i /\ Sent(i) = peerSent[q] /\ Sent(i)' = peerSent'[q]
                                 /\ (Shut(i) <=> peerState[q] = "closed") /\ (Shut(i)' <=> peerState'[q] = "closed")
    <3>1. \A q \in IDs : peerHost[q] = i => peerHost'[q] = i BY <2>1
    <3>2. \A q \in IDs : peerHost'[q] = i /\ peerHost[q] # i => peerSent'[q] = 0 /\ peerState'[q] # "closed" BY <2>1
    <3>3. CASE Unknown(i) /\ Sent(i) = 0 /\ ~Shut(i) /\ Sent(i)' = 0 /\ ~Shut(i)' BY <3>3
    <3>4. CASE \E q \in IDs : /\ peerHost[q] = i /\ peerHost'[q] = i
                              /\ Sent(i) = peerSent[q] /\ Sent(i)' = peerSent'[q]
                              /\ (Shut(i) <=> peerState[q] = "closed") /\ (Shut(i)' <=> peerState'[q] = "closed")
      BY <3>4
    <3> QED BY <3>1, <3>2, <3>3, <3>4, SidesKept
  <2>3. ASSUME NEW i \in IDs PROVE Sent(i)' = Sent(i)
    <3>1. UNCHANGED peerSent BY <1>2
    <3>2. CASE Sent(i) = 0 /\ Sent(i)' = 0 BY <3>2
    <3>3. CASE \E q \in IDs : Sent(i) = peerSent[q] /\ Sent(i)' = peerSent'[q] BY <3>1, <3>3
    <3> QED BY <2>2, <3>2, <3>3
  <2>4. ASSUME NEW s \in IDs, Shut(s)', ~Shut(s) PROVE Pipe!Next
    <3>1. PICK q \in IDs : peerHost[q] = s /\ peerState'[q] = "closed" /\ peerState[q] # "closed" BY <2>2, <2>4
    <3>2. ASSUME NEW i \in IDs \ {s} PROVE Shut(i)' <=> Shut(i)
      <4>1. ASSUME NEW r \in IDs, peerHost[r] = i PROVE peerState'[r] = "closed" <=> peerState[r] = "closed"
        <5>1. r # q BY <3>1, <3>2, <4>1
        <5> QED BY <1>2, <3>1, <5>1
      <4> QED BY <2>2, <4>1
    <3>3. UNCHANGED transport
      BY <3>1 DEF PeerStep, PeerReceives, PeerOpens, PeerLeaves, PeerWrites, PeerCloses, peerVars
    <3> QED BY <1>u, <1>e, <1>c, <2>3, <2>4, <3>2, <3>3, PipeShut
  <2>5. \A i \in IDs : Shut(i) => Shut(i)' BY <1>2, <2>2
  <2>6. CASE \A i \in IDs : Shut(i)' => Shut(i) BY <1>u, <1>e, <2>3, <2>5, <2>6, PipeCut
  <2> QED BY <2>4, <2>6
<1> QED BY <1>1, <1>2, DeviceSides

\* Every step of a Connection is a step of the pipes its streams are.
LEMMA StepPipe ==
    ASSUME IInv, LInv, DInv, CInv, BInv, [Next]_vars
    PROVE  Pipe!Next
<1>a. TypeOK BY DEF IInv
<1>b. TypeOK' /\ LInv' /\ NoCutHeals BY <1>a, NextType, NextLink, NextClose
<1>1. ASSUME UNCHANGED <<delivered, peerHost, peerState, peerSent>>, \A i \in IDs : Ended(i)' = Ended(i) PROVE Pipe!Next
  <2>1. \A i \in IDs : Sent(i)' = Sent(i) BY <1>1 DEF Sent
  <2>2. \A i \in IDs : Shut(i)' <=> Shut(i) BY <1>1 DEF Shut
  <2> QED BY <1>1, <1>b, <2>1, <2>2, PipeCut
<1>2. CASE ReaderStep \/ \E t \in Threads : ThreadStep(t) \/ ThreadCall(t)
  BY <1>1, <1>2, CallFrame DEF peerVars, Ended
<1>3. ASSUME NEW i \in IDs, Read(i) PROVE Pipe!Next
  <2>1. CASE readCheck(i) \/ readChunk(i) \/ readWake(i)
    <3>1. UNCHANGED <<delivered, peerHost, peerState, peerSent>>
      BY <2>1 DEF readCheck, readChunk, readWake, readFrame, peerVars
    <3>2. \A j \in IDs : Ended(j)' = Ended(j)
      BY <1>a, <2>1, DataTypes DEF readCheck, readChunk, readWake, Ended
    <3> QED BY <1>1, <3>1, <3>2
  <2> QED BY <1>3, <2>1, PipeDeliver, PipeEnd DEF Read
<1>4. CASE PeerStep BY <1>b, <1>4, DevicePipe
<1>5. CASE UNCHANGED vars BY <1>1, <1>5 DEF vars, appVars, streamVars, peerVars, Ended, connVars
<1> QED BY <1>2, <1>3, <1>4, <1>5 DEF Next

\* Every stream of a Connection is a StreamPipe, for any number of streams and goroutines and
\* however WRTE, CLSE, the closes of either side and the loss of the transport fall around
\* dataCh and buf: the goroutine that reads it (Stream.Read) gets bytes the device has written,
\* each once and in order; io.EOF when the device closed its side and every byte it wrote was
\* read; an error only if the program's own close or the transport cut the stream; and nothing
\* after either.
THEOREM StreamsArePipes == Spec => ImplementsPipe
<1>1. Init => Pipe!Init
  <2> SUFFICES ASSUME Init PROVE Pipe!Init OBVIOUS
  <2>1. \A i \in IDs : Unknown(i) BY ConnectionAssumption DEF Init, Unknown
  <2>2. \A i \in IDs : Sent(i) = 0 /\ ~Shut(i) BY <2>1, NoSide
  <2>3. \A i \in IDs : ~Cut(i) 
    <3>1. \A t \in Threads : cause[t] = "nil" /\ pc[t] = "idle" BY ConnectionAssumption DEF Init, Procs
    <3>2. ~ConnectionClosing BY <3>1 DEF ConnectionClosing
    <3>3. transport = "up" /\ ~Lost /\ \A i \in IDs : err[i] = "nil" BY DEF Init, Lost
    <3> QED BY <3>2, <3>3 DEF Cut, OwnClose
  <2>4. \A i \in IDs : Ended(i) = "no" BY DEF Init, Ended
  <2>5. [i \in IDs |-> Shut(i)] = [i \in IDs |-> FALSE]
    <3>1. \A i \in IDs : Shut(i) = FALSE BY <2>2 DEF Shut
    <3> QED BY <3>1
  <2>6. delivered = [i \in IDs |-> <<>>] BY DEF Init
  <2> QED BY <2>2, <2>3, <2>4, <2>5, <2>6 DEF Pipe!Init
<1>2. Init => BInv BY ConnectionAssumption DEF Init, BInv
<1>3. IInv /\ LInv /\ DInv /\ BInv /\ [Next]_vars => BInv' BY NextBound
<1>4. IInv /\ LInv /\ DInv /\ CInv /\ BInv /\ [Next]_vars => Pipe!Next BY StepPipe
<1> QED BY <1>1, <1>2, <1>3, <1>4, DataInvariant, CloseInvariant, PTL DEF Spec, ImplementsPipe, Pipe!Spec
=============================================================================

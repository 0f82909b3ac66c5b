---------------------- MODULE ForegroundForwardProofs ----------------------
(***************************************************************************)
(* Proofs about ClientSession and ForegroundForward, for any number of     *)
(* goroutines that use the client, connections of host programs, chunks and*)
(* credentials.                                                            *)
(*                                                                         *)
(* What is on its way to an operation tells what the device has done       *)
(* (Reading), and while an operation writes the local destination, nobody  *)
(* else does unless he may overwrite it (Owns).  Of a forward's connections,*)
(* what Close has to close is what addActive let it see (Registered).      *)
(***************************************************************************)
EXTENDS ForegroundForward, WellFoundedInduction, TLAPS

-----------------------------------------------------------------------------
(* The client.                                                             *)

\* The transport is opened once, before anything else.
Connecting ==
    /\ phase = "dial" => transport = "none" /\ watcher = "none"
    /\ phase = "failed" => transport \notin {"open", "stalled"}
    /\ phase # "connected" => \A o \in Callers : pc[o] = "idle"

\* Where an operation of each kind can be, and with which service.
Place(o) ==
    \/ kind[o] = "none" /\ service[o] = "none" /\ pc[o] = "idle"
    \/ /\ kind[o] = "pull"
       /\ \/ service[o] = "sync" /\ pc[o] \in {"stat", "open", "sendOpen", "await", "recv", "done"}
          \/ service[o] = "RECV" /\ pc[o] \in {"header", "nextHeader", "createOut", "createDone", "copyN", "done"}
    \/ /\ kind[o] \in {"push", "install"}
       /\ \/ service[o] = "sync" /\ pc[o] \in {"source", "open", "sendOpen", "await", "send", "done"}
          \/ service[o] = "SEND" /\ pc[o] \in {"data", "writeDone", "done"}
          \/ service[o] = "DONE" /\ pc[o] \in {"response", "done"}
    \/ kind[o] = "install" /\ service[o] = "pm" /\ pc[o] \in {"open", "sendOpen", "await", "copy"}
    \/ kind[o] = "install" /\ service[o] = "rm" /\ pc[o] \in {"open", "sendOpen", "await", "copy", "done"}
    \/ kind[o] = "shell" /\ service[o] = "shell" /\ pc[o] \in {"open", "sendOpen", "await", "copy", "done"}
    \/ kind[o] = "screencap" /\ service[o] = "shell" /\ pc[o] \in {"open", "sendOpen", "await", "copy", "createPng", "writePng", "done"}
    \/ kind[o] = "reboot" /\ service[o] = "reboot" /\ pc[o] \in {"open", "sendOpen", "await", "closeService", "done"}

Quiet == {"idle", "stat", "source", "open", "sendOpen", "createPng", "writePng", "done"}

\* An operation is at a place of its kind, has a stream where it uses one, and a
\* result when it is done.
Placed(o) ==
    /\ Place(o)
    /\ pc[o] # "done" => result[o] = "none"
    /\ overwrite[o] => kind[o] = "pull"
    /\ pc[o] \in Quiet => stream[o] \in {"none", "refused", "closed"}
    /\ pc[o] = "await" => stream[o] # "none"
    /\ pc[o] \notin Quiet \cup {"await"} => stream[o] \in {"open", "eof", "closed"}

\* What a pull has still to read, at a header: n whole DATA packets, and maybe one
\* more header.
AtHeader(s, n) ==
    /\ n >= 0 /\ Len(s) \in {2 * n, 2 * n + 1}
    /\ \A j \in 1 .. n : s[2 * j - 1] = "DATA" /\ s[2 * j] = "body"

\* The same after the header of the first.
AtBody(s, n) ==
    /\ n >= 1 /\ Len(s) \in {2 * n - 1, 2 * n}
    /\ \A j \in 1 .. n : s[2 * j - 1] = "body" /\ (j < n => s[2 * j] = "DATA")

\* What has arrived for an operation and was not read tells what the device has done.
Reading(o) ==
    /\ service[o] = "shell" /\ pc[o] \in {"sendOpen", "await", "copy"} => sent[o] = got[o] + Len(inbox[o])
    /\ pc[o] \in {"createPng", "writePng"} => got[o] = sent[o]
    /\ service[o] = "rm" /\ pc[o] \in {"sendOpen", "await", "copy"} => inbox[o] = <<>>
    /\ pc[o] \in {"sendOpen", "await", "recv", "send"} /\ service[o] = "sync" =>
         inbox[o] = <<>> /\ sent[o] = 0 /\ got[o] = 0 /\ ~final[o]
    /\ pc[o] \in {"header", "nextHeader"} =>
         /\ AtHeader(inbox[o], sent[o] - got[o])
         /\ stream[o] = "open" /\ ~final[o] => Len(inbox[o]) = 2 * (sent[o] - got[o])
    /\ pc[o] \in {"createOut", "copyN"} =>
         \/ inbox[o] = <<>> /\ (stream[o] # "open" \/ final[o]) /\ sent[o] = got[o]
         \/ /\ AtBody(inbox[o], sent[o] - got[o])
            /\ stream[o] = "open" /\ ~final[o] => Len(inbox[o]) = 2 * (sent[o] - got[o]) - 1
    /\ pc[o] = "createDone" => sent[o] = got[o] /\ (final[o] \/ stream[o] # "open")
    /\ pc[o] \in {"header", "createOut", "createDone"} => got[o] = 0
    /\ pc[o] = "writeDone" \/ service[o] = "DONE" => sent[o] = Size

\* What the device has answered is true.
Answered(o) ==
    /\ \A i \in 1 .. Len(inbox[o]) :
         /\ inbox[o][i] = "OKAY" /\ service[o] \in {"SEND", "DONE"} => final[o] /\ remote[o] = "complete"
         /\ inbox[o][i] = "Success" => o \in installed
    /\ pmOutput[o] = "Success" => o \in installed

\* A clean-up whose stream has ended has removed the file, or was cut off.
CleansUp(o) ==
    /\ service[o] = "rm" /\ pc[o] \in {"await", "copy"} =>
         /\ stream[o] = "eof" => remote[o] # "complete"
         /\ stream[o] = "closed" => late[o] \/ transport # "open"
    /\ service[o] = "rm" /\ result[o] # "none" /\ remote[o] = "complete" =>
         transport # "open" \/ late[o] \/ stream[o] = "refused"

\* What an operation writes is its own while no pull that may overwrite it is about.
Owns(o) ==
    ~Clobbered(o) =>
      /\ pc[o] \in {"writePng", "nextHeader", "copyN"} => file.owner = o
      /\ pc[o] \in {"nextHeader", "copyN"} => file.chunks = 1 .. got[o]
      /\ result[o] = "ok" /\ kind[o] \in {"pull", "screencap"} => file = [owner |-> o, chunks |-> 1 .. sent[o]]

\* An operation that has succeeded has done what it is for.
Succeeded(o) ==
    result[o] = "ok" =>
      /\ kind[o] = "push" => remote[o] = "complete"
      /\ kind[o] = "shell" => got[o] = sent[o]
      /\ kind[o] = "install" => o \in installed

OpInv(o) == Placed(o) /\ Reading(o) /\ Answered(o) /\ CleansUp(o) /\ Owns(o) /\ Succeeded(o)

\* One screenshot at a time is being written, and it is there, unless a pull has
\* overwritten it.
Screenshots ==
    \A o \in Callers : pc[o] = "writePng" =>
      /\ file.owner = o \/ (file.owner \in Callers /\ overwrite[file.owner])
      /\ \A p \in Callers : pc[p] = "writePng" => p = o

ClientInv == TypeOK /\ Connecting /\ Screenshots /\ \A o \in Callers : OpInv(o)

-----------------------------------------------------------------------------
(* The forward.                                                            *)

\* Before it is started there is nothing of a forward.
Unstarted ==
    /\ command = "operation" => main = "connect"
    /\ main = "connect" => /\ listener = "none" /\ acceptor = "none" /\ watch = "none" /\ ~closed
                           /\ reader = "none" /\ writer = Nobody /\ due = Nobody /\ ~cut /\ ~misframed
                           /\ \A b \in Conns : at[b] = "none"
    /\ main \notin {"connect", "exited"} => phase = "connected"
    /\ main = "exited" => phase \in {"connected", "failed"}

\* What a connection has, by how far it is.
Served(b) ==
    /\ at[b] \in {"none", "accepted", "open", "openPayload"} => adb[b] = "none"
    /\ at[b] = "await" => adb[b] # "none"
    /\ at[b] \in {"addConn", "addStream", "closeLate", "copy", "bridge"} => adb[b] \in {"open", "closed"}
    /\ at[b] = "none" => conn[b] = "none"
    /\ at[b] = "ended" => conn[b] = "closed" /\ adb[b] \in {"none", "refused", "closed"}
    /\ at[b] = "closeLate" => closed
    /\ at[b] \notin {"bridge", "ended"} => once[b] = Nobody /\ \A w \in Ways : copying[b][w] = "none"
    /\ at[b] = "ended" => \A w \in Ways : copying[b][w] \in {"none", "ended"}
    /\ once[b] # Nobody => conn[b] = "closed"
    /\ once[b] = "done" => adb[b] = "closed"
    /\ \A w \in Ways : copying[b][w] = "ended" => once[b] = "done"
    /\ acceptor \in {"none", "done"} => at[b] \in {"none", "ended"}

\* What Close has to close is what addActive let it see.
Registered(b) ==
    /\ at[b] \in {"addStream", "closeLate", "copy", "bridge"} =>
         IF closed THEN conn[b] = "closed" \/ <<"conn", b>> \in todo ELSE <<"conn", b>> \in active
    /\ at[b] \in {"copy", "bridge"} =>
         IF closed THEN adb[b] = "closed" \/ <<"stream", b>> \in todo ELSE <<"stream", b>> \in active
    /\ \A k \in {"conn", "stream"} : <<k, b>> \in active \cup todo =>
         at[b] \in {"addStream", "closeLate", "copy", "bridge", "ended"}

\* One Close runs, and todo is its own.
OneClose ==
    /\ Closing => closed
    /\ ~(watch \in {"listener", "active"} /\ main \in {"listener", "active"})
    /\ ~(closed /\ Closing) => todo = {}

\* While all payloads get through, the device waits for that of writeMu's holder.
Frames ==
    /\ Framed
    /\ ~cut /\ transport = "open" => due = writer

ForwardInv ==
    /\ ClientInv /\ ForwardTypeOK /\ Unstarted /\ OneClose /\ Frames
    /\ \A b \in Conns : Served(b) /\ Registered(b)

-----------------------------------------------------------------------------
(* Steps of one operation.                                                 *)

\* No operation but o's is concerned.
Only(o) ==
    \A p \in Callers \ {o} :
      /\ pc'[p] = pc[p] /\ kind'[p] = kind[p] /\ service'[p] = service[p] /\ overwrite'[p] = overwrite[p]
      /\ late'[p] = late[p] /\ stream'[p] = stream[p] /\ inbox'[p] = inbox[p] /\ sent'[p] = sent[p]
      /\ final'[p] = final[p] /\ got'[p] = got[p] /\ pmOutput'[p] = pmOutput[p] /\ result'[p] = result[p]
      /\ remote'[p] = remote[p] /\ (p \in installed => p \in installed')

\* What operation o may do to the destination.
Writes(o) ==
    /\ \/ file' = file /\ (pc'[o] = "writePng" => pc[o] = "writePng")
       \/ file.owner = "absent" /\ file'.owner = o
       \/ overwrite[o] /\ file'.owner = o /\ pc'[o] # "writePng"
       \/ pc[o] = "writePng" /\ pc'[o] # "writePng"
       \/ pc[o] = "copyN" /\ file'.owner = file.owner /\ pc'[o] # "writePng"

LEMMA ClientProperties == ClientInv => SuccessMeansDone /\ LeavesNothingBehind
<1> SUFFICES ASSUME ClientInv PROVE SuccessMeansDone /\ LeavesNothingBehind OBVIOUS
<1>1. ASSUME NEW o \in Callers PROVE Placed(o) /\ CleansUp(o) /\ Owns(o) /\ Succeeded(o) BY DEF ClientInv, OpInv
<1>2. SuccessMeansDone BY <1>1 DEF Owns, Succeeded, SuccessMeansDone
<1>3. ASSUME NEW o \in Callers, service[o] = "pm", result[o] # "none" PROVE FALSE BY <1>1, <1>3 DEF Placed, Place
<1>4. LeavesNothingBehind BY <1>1, <1>3 DEF ClientInv, Connecting, CleansUp, LeavesNothingBehind, Gone
<1> QED BY <1>2, <1>4

\* Two operations of which one is not clobbered.
LEMMA NeitherClobbered ==
    ASSUME NEW o \in Callers, NEW p \in Callers \ {o}, ~Clobbered(p)
    PROVE  ~Clobbered(o) /\ ~overwrite[o] /\ ~overwrite[p]
  BY DEF Clobbered

\* The others keep what they own.
LEMMA OthersOwn ==
    ASSUME ClientInv, NEW o \in Callers, Only(o), Writes(o), overwrite[o] => overwrite'[o], NEW p \in Callers \ {o}
    PROVE  Owns(p)'
<1> SUFFICES ASSUME ~Clobbered(p)' PROVE Owns(p)' BY DEF Owns
<1>1. ~Clobbered(p) BY DEF Only, Clobbered
<1>2. ~Clobbered(o) /\ ~overwrite[o] BY <1>1, NeitherClobbered
<1>3. Owns(p) /\ Owns(o) BY DEF ClientInv, OpInv
<1>4. p # "absent" BY ClientAssumption
<1>5. CASE file.owner = p
  <2>1. file' = file BY <1>2, <1>3, <1>4, <1>5 DEF Writes, Owns
  <2> QED BY <1>1, <1>3, <2>1 DEF Only, Owns
<1>6. CASE file.owner # p
  <2>1. pc[p] \notin {"writePng", "nextHeader", "copyN"} BY <1>1, <1>3, <1>6 DEF Owns
  <2>2. ~(result[p] = "ok" /\ kind[p] \in {"pull", "screencap"}) BY <1>1, <1>3, <1>6 DEF Owns
  <2> QED BY <2>1, <2>2 DEF Only, Owns
<1> QED BY <1>5, <1>6

LEMMA ScreenshotsKept ==
    ASSUME ClientInv, NEW o \in Callers, Only(o), Writes(o), overwrite[o] => overwrite'[o]
    PROVE  Screenshots'
<1>0. Screenshots /\ "absent" \notin Callers BY ClientAssumption DEF ClientInv
<1>1. \A p \in Callers : overwrite[p] => overwrite'[p] BY DEF Only
<1>2. ASSUME NEW p \in Callers, pc'[p] = "writePng"
      PROVE  file'.owner = p \/ (file'.owner \in Callers /\ overwrite'[file'.owner])
  <2>1. CASE p = o BY <1>0, <1>1, <1>2, <2>1 DEF Writes, Screenshots
  <2>2. CASE p # o
    <3>1. pc[p] = "writePng" BY <1>2, <2>2 DEF Only
    <3> QED BY <1>0, <1>1, <2>2, <3>1 DEF Writes, Screenshots
  <2> QED BY <2>1, <2>2
<1>3. ASSUME NEW p \in Callers, NEW q \in Callers, pc'[p] = "writePng", pc'[q] = "writePng" PROVE p = q
  <2>1. ASSUME NEW r \in Callers \ {o}, pc'[r] = "writePng", pc'[o] = "writePng" PROVE FALSE
    <3>1. pc[r] = "writePng" BY <2>1 DEF Only
    <3> QED BY <1>0, <2>1, <3>1 DEF Writes, Screenshots
  <2>2. CASE p # o /\ q # o
    <3>1. pc[p] = "writePng" /\ pc[q] = "writePng" BY <1>3, <2>2 DEF Only
    <3> QED BY <1>0, <3>1 DEF Screenshots
  <2> QED BY <1>3, <2>1, <2>2
<1> QED BY <1>2, <1>3 DEF Screenshots

\* So it is enough to look at operation o.
LEMMA StepInv ==
    ASSUME ClientInv, NEW o \in Callers, Only(o), TypeOK', UNCHANGED <<phase, transport>>, phase = "connected",
           Writes(o), overwrite[o] => overwrite'[o],
           Placed(o)', Reading(o)', Answered(o)', CleansUp(o)', Owns(o)', Succeeded(o)'
    PROVE  ClientInv'
<1>1. ASSUME NEW p \in Callers \ {o} PROVE OpInv(p)'
  <2>0. OpInv(p) BY DEF ClientInv
  <2>1. Placed(p)' BY <2>0 DEF OpInv, Placed, Place, Only
  <2>2. Reading(p)'
    <3>1. /\ pc'[p] = pc[p] /\ service'[p] = service[p] /\ stream'[p] = stream[p] /\ inbox'[p] = inbox[p]
          /\ sent'[p] = sent[p] /\ final'[p] = final[p] /\ got'[p] = got[p]
      BY DEF Only
    <3>2. /\ AtHeader(inbox[p], sent[p] - got[p])' = AtHeader(inbox[p], sent[p] - got[p])
          /\ AtBody(inbox[p], sent[p] - got[p])' = AtBody(inbox[p], sent[p] - got[p])
      BY <3>1 DEF AtHeader, AtBody
    <3> QED BY <2>0, <3>1, <3>2 DEF OpInv, Reading
  <2>3. Answered(p)' BY <2>0 DEF OpInv, Answered, Only
  <2>4. CleansUp(p)' BY <2>0 DEF OpInv, CleansUp, Only
  <2>5. Succeeded(p)' BY <2>0 DEF OpInv, Succeeded, Only
  <2> QED BY <2>1, <2>2, <2>3, <2>4, <2>5, OthersOwn DEF OpInv
<1>2. OpInv(o)' BY DEF OpInv
<1>3. Connecting' BY DEF ClientInv, Connecting
<1> QED BY <1>1, <1>2, <1>3, ScreenshotsKept DEF ClientInv

-----------------------------------------------------------------------------
(* Connecting.                                                             *)

LEMMA CredentialCount == Len(Credentials) \in Nat /\ DOMAIN Credentials = 1 .. Len(Credentials)
  BY ClientAssumption

LEMMA ClientInitInv == Init => ClientInv
<1> SUFFICES ASSUME Init PROVE ClientInv OBVIOUS
<1>1. TypeOK
  <2>1. ConnectType
    <3>1. credentialIndex \in 0 .. Len(Credentials) BY CredentialCount DEF Init
    <3>2. silent \in BOOLEAN /\ connectCtx \in BOOLEAN /\ publicKeyOffered \in BOOLEAN BY DEF Init
    <3> QED BY <3>1, <3>2 DEF Init, ConnectType
  <2>2. OpType
    <3>1. \A S : <<>> \in Seq(S) OBVIOUS
    <3>2. 0 \in 0 .. Size BY ClientAssumption
    <3> QED BY <3>1, <3>2 DEF Init, OpType, Labels
  <2>3. WorldType BY DEF Init, WorldType
  <2> QED BY <2>1, <2>2, <2>3 DEF TypeOK
<1>2. Connecting BY DEF Init, Connecting
<1>3. Screenshots BY DEF Init, Screenshots
<1>4. ASSUME NEW o \in Callers PROVE OpInv(o)
  <2>1. /\ pc[o] = "idle" /\ kind[o] = "none" /\ service[o] = "none" /\ result[o] = "none" /\ overwrite[o] = FALSE
        /\ stream[o] = "none" /\ inbox[o] = <<>> /\ pmOutput[o] = "none"
    BY DEF Init
  <2> QED BY <2>1 DEF OpInv, Placed, Place, Quiet, Reading, Answered, CleansUp, Owns, Succeeded
<1> QED BY <1>1, <1>2, <1>3, <1>4 DEF ClientInv

\* The operations do not see how the client connects, but when the transport breaks.
LEMMA ConnectInv ==
    ASSUME ClientInv, ConnectType', Connecting', UNCHANGED <<opVars, worldVars>>,
           phase = "dial" \/ (transport # "open" => transport' # "open")
    PROVE  ClientInv'
<1>0. UNCHANGED <<kind, overwrite, service, stream, inbox, sent, final, pc, late, got, pmOutput, result, ctx, file, remote, installed>>
  BY DEF opVars, callVars, streamVars, worldVars
<1>1. TypeOK' BY <1>0 DEF ClientInv, TypeOK, OpType, WorldType
<1>2. Screenshots' BY <1>0 DEF ClientInv, Screenshots
<1>3. ASSUME NEW o \in Callers PROVE OpInv(o)'
  <2>0. OpInv(o) BY DEF ClientInv
  <2>1. Placed(o)' BY <1>0, <2>0 DEF OpInv, Placed, Place
  <2>2. Reading(o)' BY <1>0, <2>0 DEF OpInv, Reading, AtHeader, AtBody
  <2>3. Answered(o)' /\ Owns(o)' /\ Succeeded(o)'
    BY <1>0, <2>0 DEF OpInv, Answered, Owns, Clobbered, Succeeded
  <2>4. phase = "dial" => service[o] # "rm" BY <2>0 DEF ClientInv, Connecting, OpInv, Placed, Place
  <2>5. CleansUp(o)' BY <1>0, <2>0, <2>4 DEF OpInv, CleansUp
  <2> QED BY <2>1, <2>2, <2>3, <2>5 DEF OpInv
<1> QED BY <1>1, <1>2, <1>3 DEF ClientInv

\* Connection.Close ends every stream.
LEMMA CloseInv ==
    ASSUME ClientInv, ConnectionClose, phase # "dial", watcher' \in {"none", "select", "stop", "ended"},
           UNCHANGED <<handshakeVars, connectCtx, callVars, service, inbox, sent, final, pc, ctx, late, got, pmOutput,
                       result, worldVars>>
    PROVE  ClientInv'
<1>0. /\ UNCHANGED <<kind, overwrite, service, inbox, sent, final, pc, late, got, pmOutput, result, ctx, file, remote, installed>>
      /\ UNCHANGED <<phase, silent, answer, credentialIndex, publicKeyOffered, connectCtx>> /\ transport' = "closed"
  BY DEF ConnectionClose, callVars, worldVars, handshakeVars
<1>s. /\ stream \in [Callers -> {"none", "opening", "refused", "open", "eof", "closed"}]
  BY DEF ClientInv, TypeOK, OpType
<1>t. /\ stream' \in [Callers -> {"none", "opening", "refused", "open", "eof", "closed"}]
      /\ \A o \in Callers : /\ stream'[o] # "open"
                            /\ stream'[o] = stream[o] \/ (stream[o] = "opening" /\ stream'[o] = "refused")
                                                      \/ (stream[o] = "open" /\ stream'[o] = "closed")
  BY <1>s DEF ConnectionClose
<1>1. TypeOK' BY <1>0, <1>t DEF ClientInv, TypeOK, ConnectType, OpType, WorldType
<1>2. Screenshots' BY <1>0 DEF ClientInv, Screenshots
<1>3. ASSUME NEW o \in Callers PROVE OpInv(o)'
  <2>0. OpInv(o) BY DEF ClientInv
  <2>1. Placed(o)' BY <1>0, <1>t, <2>0 DEF OpInv, Placed, Place
  <2>2. Reading(o)' BY <1>0, <1>t, <2>0 DEF OpInv, Reading, AtHeader, AtBody
  <2>3. Answered(o)' /\ Owns(o)' /\ Succeeded(o)'
    BY <1>0, <2>0 DEF OpInv, Answered, Owns, Clobbered, Succeeded
  <2>5. CleansUp(o)' BY <1>0, <1>t, <2>0 DEF OpInv, CleansUp
  <2> QED BY <2>1, <2>2, <2>3, <2>5 DEF OpInv
<1>4. Connecting' BY <1>0 DEF ClientInv, Connecting
<1> QED BY <1>1, <1>2, <1>3, <1>4 DEF ClientInv

\* A set of numbers has a first.
LEMMA FirstIn == ASSUME NEW S, S \subseteq Nat, S # {} PROVE First(S) \in S
<1> DEFINE R == OpToRel(<, Nat)
<1>1. IsWellFoundedOn(R, Nat) BY NatLessThanWellFounded
<1>2. \A i, j \in Nat : <<j, i>> \notin R => i <= j BY DEF OpToRel
<1> HIDE DEF R
<1>3. \E i \in S : \A j \in S : ~(<<j, i>> \in R) BY <1>1, WFMin
<1>4. \E i \in S : \A j \in S : i <= j BY <1>2, <1>3
<1> QED BY <1>4 DEF First

\* The steps of a connect, of its watcher and of the environment.
LEMMA ConnectSteps ==
    ASSUME ClientInv, \/ ConnectStep \/ cancelWatch \/ connectCanceled \/ clientClose
                      \/ deviceGreets \/ deviceStalls \/ deviceLost
    PROVE  ClientInv'
<1>t. ConnectType BY DEF ClientInv, TypeOK
<1>c. Connecting BY DEF ClientInv
<1>1. CASE dial
  <2>1. /\ UNCHANGED <<silent, answer, credentialIndex, publicKeyOffered, connectCtx, watcher, opVars, worldVars>>
        /\ phase = "dial" /\ ((phase' = "failed" /\ transport' = transport) \/ (phase' = "dialed" /\ transport' = "open"))
    BY <1>1 DEF dial
  <2>2. UNCHANGED pc BY <2>1 DEF opVars
  <2>3. ConnectType' BY <1>t, <2>1 DEF ConnectType
  <2>4. Connecting' BY <1>c, <2>1, <2>2 DEF Connecting
  <2> QED BY <2>1, <2>3, <2>4, ConnectInv
<1>2. ASSUME handshakeFails, UNCHANGED <<opVars, worldVars>>, phase \notin {"connected", "failed"} PROVE ClientInv'
  <2>1. /\ phase' = "failed" /\ transport' = "closed" /\ credentialIndex' = 0 /\ publicKeyOffered' = FALSE /\ answer' = "none"
        /\ UNCHANGED <<silent, connectCtx>> /\ watcher' \in {watcher, "stop"}
    BY <1>2 DEF handshakeFails, HandshakeEnds
  <2>2. UNCHANGED pc BY <1>2 DEF opVars
  <2>3. 0 \in 0 .. Len(Credentials) /\ FALSE \in BOOLEAN BY CredentialCount
  <2>4. ConnectType' BY <1>t, <2>1, <2>3 DEF ConnectType
  <2>5. Connecting' BY <1>c, <1>2, <2>1, <2>2 DEF Connecting
  <2> QED BY <1>2, <2>1, <2>4, <2>5, ConnectInv
<1>3. ASSUME UNCHANGED <<silent, answer, credentialIndex, publicKeyOffered, connectCtx, transport, opVars, worldVars>>,
             phase' \in {"cnxn", "await"}, phase \in {"dialed", "cnxn"}, watcher' \in {watcher, "select"}
      PROVE  ClientInv'
  <2>2. UNCHANGED pc BY <1>3 DEF opVars
  <2>4. ConnectType' BY <1>t, <1>3 DEF ConnectType
  <2>5. Connecting' BY <1>c, <1>3, <2>2 DEF Connecting
  <2> QED BY <1>3, <2>4, <2>5, ConnectInv
<1>4. CASE handshake \/ writeCnxn BY <1>2, <1>3, <1>4 DEF handshake, writeCnxn
<1>5. CASE readCnxn
  <2>1. /\ phase = "await" /\ phase' = "connected" /\ credentialIndex' = 0 /\ publicKeyOffered' = FALSE /\ answer' = "none"
        /\ UNCHANGED <<silent, connectCtx, transport, opVars, worldVars>> /\ watcher' \in {watcher, "stop"}
    BY <1>5 DEF readCnxn, HandshakeEnds
  <2>2. UNCHANGED pc BY <2>1 DEF opVars
  <2>3. 0 \in 0 .. Len(Credentials) /\ FALSE \in BOOLEAN BY CredentialCount
  <2>4. ConnectType' BY <1>t, <2>1, <2>3 DEF ConnectType
  <2>5. Connecting' BY <1>c, <2>1, <2>2 DEF Connecting
  <2> QED BY <2>1, <2>4, <2>5, ConnectInv
<1>6. CASE readFails \/ authFails BY <1>2, <1>6 DEF readFails, authFails
<1>7. CASE authReply
  <2>1. /\ phase = "await" /\ answer' = "none" /\ nextAuthReply
        /\ UNCHANGED <<phase, silent, connectCtx, watcher, transport, opVars, worldVars>>
    BY <1>7 DEF authReply
  <2>2. UNCHANGED pc BY <2>1 DEF opVars
  <2>3. Signers # {} => First(Signers) \in 0 .. Len(Credentials)
    <3>1. Signers \subseteq 1 .. Len(Credentials) BY CredentialCount DEF Signers
    <3>2. Signers \subseteq Nat BY <3>1
    <3>3. Signers # {} => First(Signers) \in Signers BY <3>2, FirstIn
    <3>4. 1 .. Len(Credentials) \subseteq 0 .. Len(Credentials) BY CredentialCount
    <3> QED BY <3>1, <3>3, <3>4
  <2>4. credentialIndex' \in 0 .. Len(Credentials) BY <2>1, <2>3, CredentialCount DEF nextAuthReply
  <2>5. publicKeyOffered' \in BOOLEAN
    <3>1. publicKeyOffered \in BOOLEAN BY <1>t DEF ConnectType
    <3>2. publicKeyOffered' = publicKeyOffered \/ publicKeyOffered' = TRUE BY <2>1 DEF nextAuthReply
    <3> QED BY <3>1, <3>2
  <2>6. ConnectType' BY <1>t, <2>1, <2>4, <2>5 DEF ConnectType
  <2>7. Connecting' BY <1>c, <2>1, <2>2 DEF Connecting
  <2> QED BY <2>1, <2>6, <2>7, ConnectInv
<1>8. CASE cancelWatch
  <2>0. /\ UNCHANGED <<handshakeVars, connectCtx, callVars, service, inbox, sent, final, pc, ctx, late, got, pmOutput,
                       result, worldVars>>
        /\ watcher' = "ended" /\ watcher \in {"select", "stop"}
    BY <1>8 DEF cancelWatch
  <2>1. CASE ConnectionClose
    <3>1. phase # "dial" BY <1>c, <2>0 DEF Connecting
    <3> QED BY <2>0, <2>1, <3>1, CloseInv
  <2>2. CASE UNCHANGED <<transport, stream>>
    <3>1. UNCHANGED <<opVars, worldVars>> BY <2>0, <2>2 DEF opVars, streamVars
    <3>2. UNCHANGED <<phase, silent, answer, credentialIndex, publicKeyOffered, connectCtx, pc>>
      BY <2>0 DEF handshakeVars
    <3>3. ConnectType' BY <1>t, <2>0, <2>2, <3>2 DEF ConnectType
    <3>4. Connecting' BY <1>c, <2>0, <2>2, <3>2 DEF Connecting
    <3> QED BY <2>2, <3>1, <3>3, <3>4, ConnectInv
  <2> QED BY <1>8, <2>1, <2>2 DEF cancelWatch
<1>9. CASE clientClose
  <2>1. /\ UNCHANGED <<handshakeVars, connectCtx, callVars, service, inbox, sent, final, pc, ctx, late, got, pmOutput,
                       result, worldVars>>
        /\ ConnectionClose /\ phase = "connected" /\ UNCHANGED watcher
    BY <1>9 DEF clientClose
  <2>2. watcher' \in {"none", "select", "stop", "ended"} BY <1>t, <2>1 DEF ConnectType
  <2> QED BY <2>1, <2>2, CloseInv
<1>10. CASE connectCanceled \/ deviceGreets \/ deviceStalls \/ deviceLost
  <2>1. /\ UNCHANGED <<phase, silent, credentialIndex, publicKeyOffered, watcher, opVars, worldVars>>
        /\ answer' \in {answer, "CNXN", "TOKEN", "unexpected"}
        /\ \/ transport' = transport
           \/ transport = "open" /\ transport' = "stalled"
           \/ transport \notin {"none", "closed", "lost"} /\ transport' = "lost"
    BY <1>t, <1>10 DEF ConnectType, connectCanceled, deviceGreets, deviceStalls, deviceLost, handshakeVars, Gone
  <2>2. connectCtx' \in BOOLEAN BY <1>t, <1>10 DEF ConnectType, connectCanceled, deviceGreets, deviceStalls, deviceLost
  <2>3. UNCHANGED pc BY <2>1 DEF opVars
  <2>4. ConnectType' BY <1>t, <2>1, <2>2 DEF ConnectType
  <2>5. Connecting' BY <1>c, <2>1, <2>3 DEF Connecting
  <2> QED BY <2>1, <2>4, <2>5, ConnectInv
<1> QED BY <1>1, <1>4, <1>5, <1>6, <1>7, <1>8, <1>9, <1>10 DEF ConnectStep

-----------------------------------------------------------------------------
(* The end of a call.                                                      *)

\* The variables of the operations that a step of o may change, and their types.
LEMMA OpTypes ==
    ASSUME ClientInv
    PROVE  /\ kind \in [Callers -> Kinds \cup {"none"}] /\ pc \in [Callers -> Labels] /\ overwrite \in [Callers -> BOOLEAN]
           /\ service \in [Callers -> {"none", "sync", "RECV", "SEND", "DONE", "shell", "pm", "rm", "reboot"}]
           /\ ctx \in [Callers -> BOOLEAN] /\ late \in [Callers -> BOOLEAN] /\ final \in [Callers -> BOOLEAN]
           /\ stream \in [Callers -> {"none", "opening", "refused", "open", "eof", "closed"}]
           /\ inbox \in [Callers -> Seq(Items)]
           /\ sent \in [Callers -> 0 .. Size] /\ got \in [Callers -> 0 .. Size]
           /\ pmOutput \in [Callers -> Items \cup {"none"}] /\ result \in [Callers -> {"none", "ok", "error"}]
           /\ file \in [owner : Callers \cup {Other, "absent"}, chunks : SUBSET (1 .. Size)]
           /\ remote \in [Callers -> {"absent", "partial", "complete"}] /\ installed \subseteq Callers
  BY DEF ClientInv, TypeOK, OpType, WorldType

\* An operation that has begun has a connection.
LEMMA Begun == ASSUME ClientInv, NEW o \in Callers, pc[o] # "idle" PROVE phase = "connected"
  BY DEF ClientInv, Connecting

\* Reading takes nothing but the first item.
LEMMA Taken ==
    ASSUME ClientInv, NEW o \in Callers, CanRead(o), Take(o)
    PROVE  /\ inbox' \in [Callers -> Seq(Items)] /\ \A p \in Callers \ {o} : inbox'[p] = inbox[p]
           /\ inbox'[o] = Tail(inbox[o]) /\ Head(inbox[o]) \in Items /\ Len(inbox[o]) >= 1 /\ Head(inbox[o]) = inbox[o][1]
           /\ Len(inbox'[o]) = Len(inbox[o]) - 1 /\ \A i \in 1 .. Len(inbox'[o]) : inbox'[o][i] = inbox[o][i + 1]
<1>1. inbox \in [Callers -> Seq(Items)] /\ inbox[o] \in Seq(Items) /\ inbox[o] # <<>> BY OpTypes DEF CanRead
<1>2. inbox' = [inbox EXCEPT ![o] = Tail(@)] BY DEF Take
<1>3. PICK s \in Seq(Items) : s = inbox[o] BY <1>1
<1>4. /\ Tail(s) \in Seq(Items) /\ Head(s) \in Items /\ Len(s) >= 1 /\ Head(s) = s[1] /\ Len(Tail(s)) = Len(s) - 1
      /\ \A i \in 1 .. Len(Tail(s)) : Tail(s)[i] = s[i + 1]
  BY <1>1, <1>3
<1>5. inbox'[o] = Tail(s) /\ (\A p \in Callers \ {o} : inbox'[p] = inbox[p]) /\ inbox' \in [Callers -> Seq(Items)]
  BY <1>1, <1>2, <1>3, <1>4
<1> QED BY <1>3, <1>4, <1>5

\* Where an operation has a stream, or is about to have one.
Calling == {"open", "sendOpen", "await", "copy", "recv", "header", "nextHeader", "createOut", "createDone", "copyN", "send", "data",
            "writeDone", "response"}

\* How a call ends for the operation, and that it does not matter to the others.
LEMMA ReturnsTo ==
    ASSUME ClientInv, NEW o \in Callers, NEW r \in {"ok", "error"}, Returns(o, r), pc[o] \in Calling
    PROVE  /\ stream' \in [Callers -> {"none", "opening", "refused", "open", "eof", "closed"}]
           /\ stream'[o] = IF stream[o] = "refused" THEN "refused" ELSE "closed"
           /\ \/ /\ kind[o] = "install" /\ pc'[o] = "open" /\ result'[o] = result[o] /\ service'[o] \in {"pm", "rm"}
                 /\ pmOutput'[o] \in {pmOutput[o], "none"}
              \/ /\ kind[o] = "screencap" /\ r = "ok" /\ pc'[o] = "createPng" /\ result'[o] = result[o]
                 /\ service'[o] = service[o] /\ pmOutput'[o] = pmOutput[o]
              \/ /\ pc'[o] = "done" /\ service'[o] = service[o] /\ pmOutput'[o] = pmOutput[o]
                 /\ kind[o] = "install" => service[o] # "pm" /\ (service[o] = "rm" /\ result'[o] = "ok" => pmOutput[o] = "Success")
                                           /\ (service[o] # "rm" => result'[o] = "error")
                 /\ kind[o] # "install" => result'[o] = r /\ ~(kind[o] = "screencap" /\ r = "ok")
           /\ \A p \in Callers \ {o} : /\ pc'[p] = pc[p] /\ service'[p] = service[p] /\ stream'[p] = stream[p]
                                       /\ pmOutput'[p] = pmOutput[p] /\ result'[p] = result[p]
           /\ pc' \in [Callers -> Labels] /\ result' \in [Callers -> {"none", "ok", "error"}]
           /\ service' \in [Callers -> {"none", "sync", "RECV", "SEND", "DONE", "shell", "pm", "rm", "reboot"}]
           /\ pmOutput' \in [Callers -> Items \cup {"none"}]
<1>t. /\ pc \in [Callers -> Labels] /\ result \in [Callers -> {"none", "ok", "error"}]
      /\ service \in [Callers -> {"none", "sync", "RECV", "SEND", "DONE", "shell", "pm", "rm", "reboot"}]
      /\ pmOutput \in [Callers -> Items \cup {"none"}]
      /\ stream \in [Callers -> {"none", "opening", "refused", "open", "eof", "closed"}]
  BY OpTypes
<1>s. stream' = [stream EXCEPT ![o] = IF stream[o] = "refused" THEN "refused" ELSE "closed"] BY <1>t DEF Returns, CloseStream
<1>1. /\ stream' \in [Callers -> {"none", "opening", "refused", "open", "eof", "closed"}]
      /\ stream'[o] = IF stream[o] = "refused" THEN "refused" ELSE "closed"
      /\ \A p \in Callers \ {o} : stream'[p] = stream[p]
  BY <1>s, <1>t
<1>2. CASE kind[o] = "install" /\ installNext(o, r) # "return"
  <2>1. installNext(o, r) \in {"pm", "rm"} BY <1>2 DEF installNext
  <2>2. /\ pc' = [pc EXCEPT ![o] = "open"] /\ result' = result /\ service' = [service EXCEPT ![o] = installNext(o, r)]
        /\ pmOutput' = pmOutput \/ pmOutput' = [pmOutput EXCEPT ![o] = "none"]
    BY <1>2 DEF Returns, Goto
  <2>3. pc' \in [Callers -> Labels] BY <1>t, <2>2 DEF Labels
  <2> QED BY <1>1, <1>2, <1>t, <2>1, <2>2, <2>3
<1>3. CASE kind[o] = "screencap" /\ r = "ok"
  <2>1. pc' = [pc EXCEPT ![o] = "createPng"] /\ UNCHANGED <<result, service, pmOutput>> BY <1>3 DEF Returns, Goto
  <2>2. pc' \in [Callers -> Labels] BY <1>t, <2>1 DEF Labels
  <2> QED BY <1>1, <1>3, <1>t, <2>1, <2>2
<1>4. CASE ~(kind[o] = "install" /\ installNext(o, r) # "return") /\ ~(kind[o] = "screencap" /\ r = "ok")
  <2>1. /\ pc' = [pc EXCEPT ![o] = "done"] /\ UNCHANGED <<service, pmOutput>>
        /\ result' = [result EXCEPT ![o] = IF kind[o] = "install" THEN Verdict(o) ELSE r]
    BY <1>4 DEF Returns, Finish
  <2>2. Verdict(o) \in {"ok", "error"} /\ (Verdict(o) = "ok" => service[o] = "rm" /\ pmOutput[o] = "Success") BY DEF Verdict
  <2>3. kind[o] = "install" => service[o] # "pm" BY <1>4 DEF installNext
  <2>4. pc' \in [Callers -> Labels] BY <1>t, <2>1 DEF Labels
  <2>5. pc'[o] = "done" /\ result'[o] = IF kind[o] = "install" THEN Verdict(o) ELSE r BY <1>t, <2>1
  <2>6. result' \in [Callers -> {"none", "ok", "error"}] BY <1>t, <2>1, <2>2
  <2>7. kind[o] = "install" => /\ service[o] = "rm" /\ result'[o] = "ok" => pmOutput[o] = "Success"
                               /\ service[o] # "rm" => result'[o] = "error"
    BY <2>2, <2>5
  <2>8. \A p \in Callers \ {o} : pc'[p] = pc[p] /\ result'[p] = result[p] BY <1>t, <2>1
  <2> QED BY <1>1, <1>4, <1>t, <2>1, <2>3, <2>4, <2>5, <2>6, <2>7, <2>8
<1> QED BY <1>2, <1>3, <1>4

\* A call that returns keeps the invariant when what it reports is so.
LEMMA ReturnsInv ==
    ASSUME ClientInv, NEW o \in Callers, NEW r \in {"ok", "error"}, Returns(o, r), pc[o] \in Calling,
           UNCHANGED <<connectVars, callVars, ctx, late, final, sent, got, remote, installed>>,
           inbox' = inbox \/ (CanRead(o) /\ Take(o)),
           file' \in [owner : Callers \cup {Other, "absent"}, chunks : SUBSET (1 .. Size)],
           file' = file \/ (file'.owner = o /\ (file.owner = "absent" \/ overwrite[o])),
           r = "ok" => /\ kind[o] = "pull" /\ ~Clobbered(o) => file' = [owner |-> o, chunks |-> 1 .. sent[o]]
                       /\ kind[o] = "push" => remote[o] = "complete"
                       /\ kind[o] \in {"shell", "screencap"} => got[o] = sent[o],
           service[o] = "rm" /\ remote[o] = "complete" => transport # "open" \/ late[o] \/ stream[o] = "refused"
    PROVE  ClientInv'
<1>0. UNCHANGED <<phase, transport, kind, overwrite, ctx, late, final, sent, got, remote, installed>>
  BY DEF connectVars, handshakeVars, callVars
<1>i. /\ inbox' \in [Callers -> Seq(Items)] /\ \A p \in Callers \ {o} : inbox'[p] = inbox[p]
      /\ \A i \in 1 .. Len(inbox'[o]) : \E j \in 1 .. Len(inbox[o]) : inbox'[o][i] = inbox[o][j]
  <2>1. CASE inbox' = inbox BY <2>1, OpTypes
  <2>2. CASE CanRead(o) /\ Take(o)
    <3>1. Len(inbox[o]) \in Nat /\ Len(inbox'[o]) \in Nat BY <2>2, OpTypes, Taken
    <3>2. Len(inbox'[o]) = Len(inbox[o]) - 1 /\ \A i \in 1 .. Len(inbox'[o]) : inbox'[o][i] = inbox[o][i + 1]
      BY <2>2, Taken
    <3>3. \A i \in 1 .. Len(inbox'[o]) : i + 1 \in 1 .. Len(inbox[o]) BY <3>1, <3>2
    <3> QED BY <2>2, <3>2, <3>3, Taken
  <2> QED BY <2>1, <2>2
<1>p. OpInv(o) /\ phase = "connected" BY Begun DEF ClientInv, Calling
<1>q. pc[o] \notin {"done", "writePng", "idle"} /\ (pc[o] # "await" => result[o] = "none") /\ result[o] = "none"
  BY <1>p DEF Calling, OpInv, Placed
<1>1. TypeOK'
  <2>1. ConnectType' BY DEF ClientInv, TypeOK, ConnectType, connectVars, handshakeVars
  <2>2. OpType' BY <1>0, <1>i, OpTypes, ReturnsTo DEF OpType
  <2>3. WorldType' BY <1>0, OpTypes DEF WorldType
  <2> QED BY <2>1, <2>2, <2>3 DEF TypeOK
<1>2. Only(o) BY <1>0, <1>i, ReturnsTo DEF Only
<1>3. pc'[o] \in {"open", "createPng", "done"} /\ stream'[o] \in {"closed", "refused"} BY ReturnsTo
<1>4. Writes(o) BY <1>3 DEF Writes
<1>5. Placed(o)'
  <2>1. Place(o)' BY <1>0, <1>p, <1>q, ReturnsTo DEF OpInv, Placed, Place, Calling
  <2> QED BY <1>0, <1>3, <1>p, <1>q, <2>1, ReturnsTo DEF OpInv, Placed, Quiet
<1>6. Reading(o)' BY <1>0, <1>3, <1>p, ReturnsTo DEF OpInv, Reading
<1>7. Answered(o)'
  <2>1. service'[o] \in {"SEND", "DONE"} => service[o] = service'[o] BY ReturnsTo
  <2>2. pmOutput'[o] \in {pmOutput[o], "none"} BY ReturnsTo
  <2> QED BY <1>0, <1>i, <1>p, <2>1, <2>2 DEF OpInv, Answered
<1>8. CleansUp(o)' BY <1>0, <1>3, <1>q, ReturnsTo DEF CleansUp
<1>9. Owns(o)' BY <1>0, <1>3, <1>q, ReturnsTo DEF Owns, Clobbered
<1>10. Succeeded(o)' BY <1>0, <1>p, <1>q, ReturnsTo DEF OpInv, Answered, Succeeded
<1> QED BY <1>0, <1>1, <1>2, <1>4, <1>5, <1>6, <1>7, <1>8, <1>9, <1>10, <1>p, StepInv

-----------------------------------------------------------------------------
(* The beginning of an operation, its stream and its context.              *)

LEMMA StepTypes == ASSUME ClientInv, UNCHANGED connectVars, OpType', WorldType' PROVE TypeOK' /\ UNCHANGED <<phase, transport>>
  BY DEF ClientInv, TypeOK, ConnectType, connectVars, handshakeVars

\* An operation goes on, or fails before it has a stream.
LEMMA MoveInv ==
    ASSUME ClientInv, NEW o \in Callers, NEW label \in Labels \ {"idle", "writePng"}, pc[o] \notin {"idle", "done"},
           pc' = [pc EXCEPT ![o] = label],
           UNCHANGED <<connectVars, callVars, streamVars, ctx, late, got, pmOutput, worldVars>>,
           result' = result \/ (label = "done" /\ result' = [result EXCEPT ![o] = "error"]),
           label = "done" => result' # result /\ service[o] # "rm",
           label # "done" => CleansUp(o)', Placed(o)', Reading(o)', Owns(o)'
    PROVE  ClientInv'
<1>0. UNCHANGED <<phase, transport, kind, overwrite, service, stream, inbox, sent, final, ctx, late, got, pmOutput, file, remote, installed>>
  BY DEF connectVars, handshakeVars, callVars, streamVars, worldVars
<1>t. pc' \in [Callers -> Labels] /\ result' \in [Callers -> {"none", "ok", "error"}] BY OpTypes
<1>1. OpType' /\ WorldType' BY <1>0, <1>t, OpTypes DEF OpType, WorldType
<1>2. /\ \A p \in Callers \ {o} : pc'[p] = pc[p] /\ result'[p] = result[p]
      /\ pc'[o] = label /\ result'[o] \in {result[o], "error"}
  BY OpTypes
<1>3. Only(o) BY <1>0, <1>2 DEF Only
<1>4. Writes(o) BY <1>0, <1>2 DEF Writes
<1>5. OpInv(o) /\ phase = "connected" BY Begun DEF ClientInv
<1>6. Answered(o)' BY <1>0, <1>5 DEF OpInv, Answered
<1>7. CleansUp(o)' BY <1>0, <1>2 DEF CleansUp
<1>8. Succeeded(o)' BY <1>0, <1>2, <1>5 DEF OpInv, Succeeded
<1> QED BY <1>0, <1>1, <1>3, <1>4, <1>5, <1>6, <1>7, <1>8, StepTypes, StepInv

LEMMA SourceInv == ASSUME ClientInv, NEW o \in Callers, stat(o) \/ source(o) PROVE ClientInv'
<1>0. /\ UNCHANGED <<connectVars, callVars, streamVars, ctx, late, got, pmOutput, worldVars>> /\ pc[o] \in {"stat", "source"}
      /\ \/ pc' = [pc EXCEPT ![o] = "open"] /\ result' = result
         \/ pc' = [pc EXCEPT ![o] = "done"] /\ result' = [result EXCEPT ![o] = "error"]
  BY DEF stat, source, sameRead, sameCall, streamVars, Goto, Finish
<1>u. UNCHANGED <<kind, overwrite, service, stream, inbox, sent, final, file, got>>
  BY <1>0 DEF callVars, streamVars, worldVars
<1>1. Placed(o) /\ Reading(o) /\ result[o] = "none" BY <1>0 DEF ClientInv, OpInv, Placed
<1>2. service[o] = "sync" /\ kind[o] \in {"pull", "push", "install"} BY <1>0, <1>1 DEF Placed, Place
<1>3. CASE pc' = [pc EXCEPT ![o] = "open"] /\ result' = result
  <2>1. pc'[o] = "open" /\ result'[o] = "none" BY <1>1, <1>3, OpTypes
  <2>2. Placed(o)' BY <1>0, <1>1, <1>2, <1>u, <2>1 DEF Placed, Place, Quiet
  <2>3. Reading(o)' /\ Owns(o)' /\ CleansUp(o)' BY <1>1, <1>2, <1>u, <2>1 DEF Reading, Owns, CleansUp
  <2>4. "open" \in Labels \ {"idle", "writePng"} BY DEF Labels
  <2> QED BY <1>0, <1>3, <2>2, <2>3, <2>4, MoveInv
<1>4. CASE pc' = [pc EXCEPT ![o] = "done"] /\ result' = [result EXCEPT ![o] = "error"]
  <2>1. pc'[o] = "done" /\ result'[o] = "error" BY <1>4, OpTypes
  <2>2. Placed(o)' BY <1>0, <1>1, <1>2, <1>u, <2>1 DEF Placed, Place, Quiet
  <2>3. Reading(o)' /\ Owns(o)' BY <1>1, <1>2, <1>u, <2>1 DEF Reading, Owns
  <2>4. "done" \in Labels \ {"idle", "writePng"} /\ result' # result /\ service[o] # "rm" BY <1>1, <1>2, <2>1 DEF Labels
  <2> QED BY <1>0, <1>4, <2>2, <2>3, <2>4, MoveInv
<1> QED BY <1>0, <1>3, <1>4

LEMMA StartInv == ASSUME ClientInv, NEW o \in Callers, start(o) PROVE ClientInv'
<1>1. PICK k \in Kinds, w \in BOOLEAN, s \in {"sync", "reboot", "shell"}, l \in {"stat", "source", "open"} :
        /\ w => k = "pull"
        /\ kind' = [kind EXCEPT ![o] = k] /\ overwrite' = [overwrite EXCEPT ![o] = w]
        /\ service' = [service EXCEPT ![o] = s] /\ pc' = [pc EXCEPT ![o] = l] /\ result' = result
        /\ s = CASE k \in {"pull", "push", "install"} -> "sync" [] k = "reboot" -> "reboot" [] OTHER -> "shell"
        /\ l = CASE k = "pull" /\ ~w -> "stat" [] k \in {"push", "install"} -> "source" [] OTHER -> "open"
  BY DEF start, Goto
<1>0. /\ phase = "connected" /\ pc[o] = "idle"
      /\ UNCHANGED <<connectVars, ctx, late, final, stream, inbox, sent, got, pmOutput, file, remote, installed>>
  BY DEF start, worldVars
<1>2. /\ k \in AllKinds
      /\ s \in {"sync", "reboot", "shell"} /\ (s = "sync" <=> k \in {"pull", "push", "install"}) /\ (s = "reboot" <=> k = "reboot")
      /\ l \in {"stat", "source", "open"} /\ (l = "stat" => k = "pull") /\ (l = "source" <=> k \in {"push", "install"})
  BY <1>1, ClientAssumption DEF AllKinds
<1>3. OpInv(o) BY DEF ClientInv
<1>4. ~overwrite[o] /\ result[o] = "none" BY <1>0, <1>3 DEF OpInv, Placed, Place
<1>5. OpType'
  <2>1. pc' \in [Callers -> Labels] BY <1>1, <1>2, OpTypes DEF Labels
  <2>2. service' \in [Callers -> {"none", "sync", "RECV", "SEND", "DONE", "shell", "pm", "rm", "reboot"}]
    BY <1>1, <1>2, OpTypes
  <2>3. kind' \in [Callers -> Kinds \cup {"none"}] /\ overwrite' \in [Callers -> BOOLEAN] BY <1>1, OpTypes
  <2> QED BY <1>0, <1>1, <2>1, <2>2, <2>3, OpTypes DEF OpType
<1>6. WorldType' BY <1>0, OpTypes DEF WorldType
<1>7. /\ pc'[o] = l /\ kind'[o] = k /\ service'[o] = s /\ overwrite'[o] = w /\ result'[o] = "none"
      /\ \A p \in Callers \ {o} : pc'[p] = pc[p] /\ kind'[p] = kind[p] /\ service'[p] = service[p] /\ overwrite'[p] = overwrite[p]
  BY <1>1, <1>4, OpTypes
<1>8. Only(o) BY <1>0, <1>1, <1>7 DEF Only
<1>9. Writes(o) BY <1>0, <1>2, <1>7 DEF Writes
<1>10. Placed(o)'
  <2>1. Place(o)' BY <1>2, <1>7 DEF Place, AllKinds
  <2>2. stream'[o] \in {"none", "refused", "closed"} BY <1>0, <1>3 DEF OpInv, Placed, Quiet
  <2> QED BY <1>1, <1>2, <1>7, <2>1, <2>2 DEF Placed, Quiet
<1>11. Reading(o)' /\ CleansUp(o)' /\ Owns(o)' /\ Succeeded(o)'
  BY <1>2, <1>7 DEF Reading, CleansUp, Owns, Succeeded
<1>12. Answered(o)' BY <1>0, <1>2, <1>3, <1>7 DEF OpInv, Answered
<1> QED BY <1>0, <1>4, <1>5, <1>6, <1>8, <1>9, <1>10, <1>11, <1>12, StepTypes, StepInv

\* A new stream has nothing of the last one.
LEMMA OpenInv == ASSUME ClientInv, NEW o \in Callers, OpenService(o) PROVE ClientInv'
<1>0. /\ pc[o] = "open"
      /\ UNCHANGED <<connectVars, kind, overwrite, ctx, late, service, pmOutput, result, file, remote, installed>>
      /\ pc' = [pc EXCEPT ![o] = "sendOpen"] /\ stream' = [stream EXCEPT ![o] = "none"]
      /\ inbox' = [inbox EXCEPT ![o] = <<>>] /\ sent' = [sent EXCEPT ![o] = 0] /\ got' = [got EXCEPT ![o] = 0]
      /\ final' = [final EXCEPT ![o] = FALSE]
  BY DEF OpenService, Goto, callVars, worldVars
<1>1. OpInv(o) /\ phase = "connected" BY <1>0, Begun DEF ClientInv
<1>2. OpType'
  <2>1. pc' \in [Callers -> Labels] BY <1>0, OpTypes DEF Labels
  <2>2. stream' \in [Callers -> {"none", "opening", "refused", "open", "eof", "closed"}] BY <1>0, OpTypes
  <2>3. inbox' \in [Callers -> Seq(Items)] BY <1>0, OpTypes
  <2>4. sent' \in [Callers -> 0 .. Size] /\ got' \in [Callers -> 0 .. Size] BY <1>0, OpTypes, ClientAssumption
  <2>5. final' \in [Callers -> BOOLEAN] BY <1>0, OpTypes
  <2> QED BY <1>0, <2>1, <2>2, <2>3, <2>4, <2>5, OpTypes DEF OpType
<1>3. WorldType' BY <1>0, OpTypes DEF WorldType
<1>4. pc'[o] = "sendOpen" /\ stream'[o] = "none" /\ inbox'[o] = <<>> /\ sent'[o] = 0 /\ got'[o] = 0 /\ final'[o] = FALSE
  BY <1>0, OpTypes
<1>5. Only(o) BY <1>0, OpTypes DEF Only
<1>6. Writes(o) BY <1>0, <1>4 DEF Writes
<1>7. Placed(o)' BY <1>0, <1>1, <1>4 DEF OpInv, Placed, Place, Quiet
<1>8. Reading(o)' /\ Answered(o)' BY <1>0, <1>1, <1>4 DEF OpInv, Reading, Answered, Placed, Place
<1>9. CleansUp(o)' /\ Owns(o)' /\ Succeeded(o)'
  BY <1>0, <1>1, <1>4 DEF OpInv, Placed, CleansUp, Owns, Succeeded
<1> QED BY <1>0, <1>1, <1>2, <1>3, <1>5, <1>6, <1>7, <1>8, <1>9, StepTypes, StepInv

\* The OPEN is on its way.
LEMMA SendOpenInv == ASSUME ClientInv, NEW o \in Callers, sendOpen(o) PROVE ClientInv'
<1>0. /\ pc[o] = "sendOpen" /\ pc' = [pc EXCEPT ![o] = "await"] /\ stream' = [stream EXCEPT ![o] = "opening"]
      /\ UNCHANGED <<connectVars, kind, overwrite, ctx, late, final, service, sent, pmOutput, result, inbox, got,
                     file, remote, installed>>
  BY DEF sendOpen, Goto, sameRead, sameCall, callVars, worldVars
<1>1. OpInv(o) /\ phase = "connected" BY <1>0, Begun DEF ClientInv
<1>2. OpType'
  <2>1. pc' \in [Callers -> Labels] BY <1>0, OpTypes DEF Labels
  <2>2. stream' \in [Callers -> {"none", "opening", "refused", "open", "eof", "closed"}] BY <1>0, OpTypes
  <2> QED BY <1>0, <2>1, <2>2, OpTypes DEF OpType
<1>3. WorldType' BY <1>0, OpTypes DEF WorldType
<1>4. pc'[o] = "await" /\ stream'[o] = "opening" BY <1>0, OpTypes
<1>5. Only(o) BY <1>0, OpTypes DEF Only
<1>6. Writes(o) BY <1>0, <1>4 DEF Writes
<1>7. Placed(o)' BY <1>0, <1>1, <1>4 DEF OpInv, Placed, Place, Quiet
<1>8. Reading(o)' /\ Answered(o)' BY <1>0, <1>1, <1>4 DEF OpInv, Reading, Answered, Placed, Place
<1>9. CleansUp(o)' /\ Owns(o)' /\ Succeeded(o)'
  BY <1>0, <1>1, <1>4 DEF OpInv, Placed, CleansUp, Owns, Clobbered, Succeeded
<1> QED BY <1>0, <1>1, <1>2, <1>3, <1>5, <1>6, <1>7, <1>8, <1>9, StepTypes, StepInv

LEMMA OpenedInv == ASSUME ClientInv, NEW o \in Callers, opened(o) PROVE ClientInv'
<1>1. PICK l : /\ pc' = [pc EXCEPT ![o] = l] /\ result' = result
               /\ l = CASE service[o] = "reboot" -> "closeService"
                        [] service[o] = "sync" /\ kind[o] = "pull" -> "recv"
                        [] service[o] = "sync" /\ kind[o] # "pull" -> "send"
                        [] OTHER -> "copy"
  BY DEF opened, Goto
<1>0. /\ pc[o] = "await" /\ stream[o] \in {"open", "eof", "closed"}
      /\ UNCHANGED <<connectVars, callVars, streamVars, ctx, late, got, pmOutput, worldVars>>
  BY DEF opened, sameRead, sameCall, streamVars
<1>u. UNCHANGED <<kind, overwrite, service, stream, inbox, sent, final, file, got, late, transport, remote>>
  BY <1>0 DEF callVars, streamVars, worldVars, connectVars
<1>2. OpInv(o) /\ result[o] = "none" BY <1>0 DEF ClientInv, OpInv, Placed
<1>3. /\ l \in {"closeService", "recv", "send", "copy"} /\ (l = "closeService" <=> service[o] = "reboot")
      /\ (l = "recv" <=> service[o] = "sync" /\ kind[o] = "pull") /\ (l = "send" <=> service[o] = "sync" /\ kind[o] # "pull")
  BY <1>1
<1>4. pc'[o] = l /\ l \in Labels \ {"idle", "writePng"} BY <1>1, <1>3, OpTypes DEF Labels
<1>5. Placed(o)' BY <1>0, <1>1, <1>2, <1>3, <1>4, <1>u DEF OpInv, Placed, Place, Quiet
<1>6. Reading(o)' BY <1>0, <1>2, <1>3, <1>4, <1>u DEF OpInv, Reading, Placed, Place
<1>7. CleansUp(o)' /\ Owns(o)' BY <1>0, <1>1, <1>2, <1>3, <1>4, <1>u DEF OpInv, CleansUp, Owns, Clobbered
<1> QED BY <1>0, <1>1, <1>3, <1>4, <1>5, <1>6, <1>7, MoveInv

LEMMA OpenFailsInv == ASSUME ClientInv, NEW o \in Callers, openFails(o) PROVE ClientInv'
<1>1. /\ pc[o] \in {"open", "sendOpen", "await"} /\ (Done(o) \/ transport # "open" \/ stream[o] = "refused")
      /\ Returns(o, "error") /\ UNCHANGED <<connectVars, callVars, ctx, late, final, sent, got, remote, installed, inbox, file>>
  BY DEF openFails, sameCall, worldVars, Gone
<1>2. service[o] = "rm" => transport # "open" \/ late[o] \/ stream[o] = "refused" BY <1>1 DEF Done
<1>3. pc[o] \in Calling /\ file' \in [owner : Callers \cup {Other, "absent"}, chunks : SUBSET (1 .. Size)]
  BY <1>1, OpTypes DEF Calling
<1> QED BY <1>1, <1>2, <1>3, ReturnsInv

\* A context ends.
LEMMA CanceledInv == ASSUME ClientInv, NEW o \in Callers, canceled(o) \/ cleanupTimeout(o) PROVE ClientInv'
<1>0. /\ UNCHANGED <<connectVars, callVars, streamVars, pc, got, pmOutput, result, worldVars>>
      /\ ctx' = ctx \/ ctx' = [ctx EXCEPT ![o] = TRUE]
      /\ late' = late \/ late' = [late EXCEPT ![o] = TRUE]
      /\ pc[o] # "idle" \/ service[o] = "rm"
  BY DEF canceled, cleanupTimeout
<1>u. UNCHANGED <<kind, overwrite, service, stream, inbox, sent, final, pc, got, pmOutput, result, file, remote, installed, transport>>
  BY <1>0 DEF callVars, streamVars, worldVars, connectVars
<1>1. OpInv(o) BY DEF ClientInv
<1>2. phase = "connected" BY <1>0, <1>1, Begun DEF OpInv, Placed, Place
<1>3. ctx' \in [Callers -> BOOLEAN] /\ late' \in [Callers -> BOOLEAN] BY <1>0, OpTypes
<1>4. OpType' /\ WorldType' BY <1>u, <1>3, OpTypes DEF OpType, WorldType
<1>5. (late[o] => late'[o]) /\ \A p \in Callers \ {o} : late'[p] = late[p] BY <1>0, OpTypes
<1>6. Only(o) /\ Writes(o) BY <1>u, <1>5 DEF Only, Writes
<1>7. Placed(o)' BY <1>1, <1>u DEF OpInv, Placed, Place
<1>8. Reading(o)' BY <1>1, <1>u DEF OpInv, Reading, AtHeader, AtBody
<1>9. Answered(o)' /\ CleansUp(o)' /\ Owns(o)' /\ Succeeded(o)'
  BY <1>1, <1>u, <1>5 DEF OpInv, Answered, CleansUp, Owns, Clobbered, Succeeded
<1> QED BY <1>0, <1>2, <1>4, <1>6, <1>7, <1>8, <1>9, <1>u, StepTypes, StepInv

LEMMA CancelClosesInv == ASSUME ClientInv, NEW o \in Callers, cancelCloses(o) PROVE ClientInv'
<1>0. /\ UNCHANGED <<connectVars, callVars, service, inbox, sent, final, pc, ctx, late, got, pmOutput, result, worldVars>>
      /\ Done(o) /\ stream[o] \in {"open", "eof"} /\ pc[o] \notin {"await", "closeService"}
      /\ stream' = [stream EXCEPT ![o] = "closed"]
  BY OpTypes DEF cancelCloses, closeOnCancel, CloseStream
<1>u. UNCHANGED <<kind, overwrite, service, inbox, sent, final, pc, late, got, pmOutput, result, file, remote, installed, transport>>
  BY <1>0 DEF callVars, worldVars, connectVars
<1>1. OpInv(o) BY DEF ClientInv
<1>2. phase = "connected" BY <1>0, <1>1, Begun DEF OpInv, Placed, Place, Quiet
<1>3. /\ stream' \in [Callers -> {"none", "opening", "refused", "open", "eof", "closed"}]
      /\ stream'[o] = "closed" /\ \A p \in Callers \ {o} : stream'[p] = stream[p]
  BY <1>0, OpTypes
<1>4. OpType' /\ WorldType' BY <1>0, <1>u, <1>3, OpTypes DEF OpType, WorldType
<1>6. Only(o) /\ Writes(o) BY <1>u, <1>3 DEF Only, Writes
<1>7. Placed(o)' BY <1>0, <1>1, <1>3, <1>u DEF OpInv, Placed, Place, Quiet
<1>8. Reading(o)' BY <1>1, <1>3, <1>u DEF OpInv, Reading, AtHeader, AtBody
<1>9. Answered(o)' /\ Owns(o)' /\ Succeeded(o)'
  BY <1>1, <1>u DEF OpInv, Answered, Owns, Clobbered, Succeeded
<1>10. CleansUp(o)' BY <1>0, <1>1, <1>3, <1>u DEF OpInv, Placed, Quiet, CleansUp, Done
<1> QED BY <1>0, <1>2, <1>4, <1>6, <1>7, <1>8, <1>9, <1>10, <1>u, StepTypes, StepInv

-----------------------------------------------------------------------------
(* Commands, screenshots and reboots.                                      *)

LEMMA CopyInv == ASSUME ClientInv, NEW o \in Callers, copy(o) PROVE ClientInv'
<1>0. /\ pc[o] = "copy" /\ CanRead(o) /\ Take(o)
      /\ UNCHANGED <<connectVars, kind, overwrite, ctx, late, final, service, sent, stream, pc, result, file, remote, installed>>
      /\ \/ service[o] = "pm" /\ pmOutput' = [pmOutput EXCEPT ![o] = Head(inbox[o])] /\ got' = got
         \/ service[o] # "pm" /\ got' = [got EXCEPT ![o] = got[o] + 1] /\ pmOutput' = pmOutput
  BY OpTypes DEF copy, sameCall, callVars, worldVars
<1>1. OpInv(o) /\ phase = "connected" BY <1>0, Begun DEF ClientInv
<1>2. /\ inbox' \in [Callers -> Seq(Items)] /\ \A p \in Callers \ {o} : inbox'[p] = inbox[p]
      /\ Head(inbox[o]) \in Items /\ Head(inbox[o]) = inbox[o][1]
      /\ Len(inbox'[o]) = Len(inbox[o]) - 1 /\ \A i \in 1 .. Len(inbox'[o]) : inbox'[o][i] = inbox[o][i + 1]
  BY <1>0, Taken
<1>n. Len(inbox[o]) \in Nat \ {0} BY <1>0, OpTypes, Taken
<1>3. service[o] = "pm" \/ (service[o] = "shell" /\ sent[o] = got[o] + Len(inbox[o]))
  <2>1. service[o] \in {"pm", "rm", "shell"} BY <1>0, <1>1 DEF OpInv, Placed, Place
  <2>2. service[o] = "rm" => inbox[o] = <<>> BY <1>0, <1>1 DEF OpInv, Reading
  <2> QED BY <1>0, <1>1, <2>1, <2>2 DEF OpInv, Reading, CanRead
<1>4. got' \in [Callers -> 0 .. Size] /\ pmOutput' \in [Callers -> Items \cup {"none"}]
  <2>1. sent[o] \in 0 .. Size /\ got[o] \in 0 .. Size /\ Size \in Nat BY OpTypes, ClientAssumption
  <2>2. service[o] # "pm" => got[o] + 1 \in 0 .. Size BY <1>3, <1>n, <2>1
  <2>3. got' \in [Callers -> 0 .. Size]
    <3>1. got \in [Callers -> 0 .. Size] BY OpTypes
    <3>2. CASE service[o] # "pm"
      <4>1. PICK n \in 0 .. Size : n = got[o] + 1 BY <2>2, <3>2
      <4>2. got' = [got EXCEPT ![o] = n] BY <1>0, <3>2, <4>1
      <4> QED BY <3>1, <4>2
    <3> QED BY <1>0, <3>1, <3>2
  <2>4. pmOutput' \in [Callers -> Items \cup {"none"}]
    <3>1. pmOutput \in [Callers -> Items \cup {"none"}] BY OpTypes
    <3>2. PICK x \in Items : x = Head(inbox[o]) BY <1>2
    <3>3. pmOutput' = pmOutput \/ pmOutput' = [pmOutput EXCEPT ![o] = x] BY <1>0, <3>2
    <3> QED BY <3>1, <3>3
  <2> QED BY <2>3, <2>4
<1>5. OpType' /\ WorldType' BY <1>0, <1>2, <1>4, OpTypes DEF OpType, WorldType
<1>6. \A p \in Callers \ {o} : got'[p] = got[p] /\ pmOutput'[p] = pmOutput[p] BY <1>0, OpTypes
<1>7. Only(o) /\ Writes(o) BY <1>0, <1>2, <1>6 DEF Only, Writes
<1>8. Placed(o)' BY <1>0, <1>1 DEF OpInv, Placed, Place
<1>9. Reading(o)'
  <2>1. service[o] = "shell" => got'[o] = got[o] + 1 BY <1>0, OpTypes
  <2>2. sent[o] \in Nat /\ got[o] \in Nat BY OpTypes
  <2>3. service[o] = "shell" => sent'[o] = got'[o] + Len(inbox'[o]) BY <1>0, <1>2, <1>3, <1>n, <2>1, <2>2
  <2> QED BY <1>0, <1>3, <2>3 DEF Reading
<1>10. Answered(o)'
  <2>1. \A i \in 1 .. Len(inbox'[o]) : i + 1 \in 1 .. Len(inbox[o]) BY <1>2, <1>n
  <2>2. pmOutput'[o] \in {pmOutput[o], inbox[o][1]} /\ 1 \in 1 .. Len(inbox[o]) BY <1>0, <1>2, <1>n, OpTypes
  <2> QED BY <1>0, <1>1, <1>2, <1>3, <2>1, <2>2 DEF OpInv, Answered
<1>11. CleansUp(o)' /\ Owns(o)' /\ Succeeded(o)'
  BY <1>0, <1>1, <1>3 DEF OpInv, Placed, CleansUp, Owns, Succeeded
<1> QED BY <1>0, <1>1, <1>5, <1>7, <1>8, <1>9, <1>10, <1>11, StepTypes, StepInv

LEMMA CopyEndsInv == ASSUME ClientInv, NEW o \in Callers, copyEnds(o) PROVE ClientInv'
<1>0. /\ pc[o] = "copy" /\ pc[o] \in Calling
      /\ UNCHANGED <<connectVars, callVars, ctx, late, final, sent, got, remote, installed, inbox, file>>
  BY DEF copyEnds, sameCall, worldVars, Calling
<1>1. OpInv(o) BY DEF ClientInv
<1>2. file' \in [owner : Callers \cup {Other, "absent"}, chunks : SUBSET (1 .. Size)] BY <1>0, OpTypes
<1>3. CASE EOF(o) /\ Returns(o, IF Done(o) THEN "error" ELSE "ok")
  <2>1. PICK r \in {"ok", "error"} : Returns(o, r) BY <1>3
  <2>2. kind[o] \in {"shell", "screencap"} => got[o] = sent[o]
    <3>1. kind[o] \in {"shell", "screencap"} => sent[o] = got[o] + Len(inbox[o])
      BY <1>0, <1>1 DEF OpInv, Placed, Place, Reading
    <3>2. Len(inbox[o]) = 0 /\ sent[o] \in Nat /\ got[o] \in Nat BY <1>3, OpTypes DEF EOF
    <3> QED BY <3>1, <3>2
  <2>3. kind[o] \notin {"pull", "push"} BY <1>0, <1>1 DEF OpInv, Placed, Place
  <2>4. service[o] = "rm" => remote[o] # "complete" BY <1>0, <1>1, <1>3 DEF OpInv, CleansUp, EOF
  <2> QED BY <1>0, <1>2, <2>1, <2>2, <2>3, <2>4, ReturnsInv
<1>4. CASE (Broken(o) \/ (kind[o] = "shell" /\ CanRead(o))) /\ Returns(o, "error")
  <2>1. service[o] = "rm" => transport # "open" \/ late[o]
    BY <1>0, <1>1, <1>4 DEF OpInv, Placed, Place, CleansUp, Broken, Gone
  <2> QED BY <1>0, <1>2, <1>4, <2>1, ReturnsInv
<1> QED BY <1>3, <1>4 DEF copyEnds

LEMMA CreatePngInv == ASSUME ClientInv, NEW o \in Callers, createPng(o) PROVE ClientInv'
<1>0. /\ pc[o] = "createPng"
      /\ UNCHANGED <<connectVars, callVars, streamVars, ctx, late, got, pmOutput, remote, installed>>
  BY DEF createPng, sameRead, sameCall, streamVars
<1>u. UNCHANGED <<kind, overwrite, service, stream, inbox, sent, final, got, late, pmOutput, remote, installed, transport>>
  BY <1>0 DEF callVars, streamVars, connectVars
<1>1. OpInv(o) /\ phase = "connected" /\ result[o] = "none" BY <1>0, Begun DEF ClientInv, OpInv, Placed
<1>2. kind[o] = "screencap" /\ service[o] = "shell" BY <1>0, <1>1 DEF OpInv, Placed, Place
<1>3. CASE file.owner = "absent" /\ file' = [owner |-> o, chunks |-> {}] /\ Goto(o, "writePng")
  <2>1. pc' = [pc EXCEPT ![o] = "writePng"] /\ result' = result /\ file'.owner = o BY <1>3 DEF Goto
  <2>2. pc' \in [Callers -> Labels] /\ pc'[o] = "writePng" /\ \A p \in Callers \ {o} : pc'[p] = pc[p]
    BY <2>1, OpTypes DEF Labels
  <2>3. OpType' /\ WorldType'
    <3>1. file' \in [owner : Callers \cup {Other, "absent"}, chunks : SUBSET (1 .. Size)] BY <1>3
    <3> QED BY <1>0, <1>u, <2>1, <2>2, <3>1, OpTypes DEF OpType, WorldType
  <2>4. Only(o) /\ Writes(o) BY <1>3, <1>u, <2>1, <2>2 DEF Only, Writes
  <2>5. Placed(o)' BY <1>0, <1>1, <1>2, <1>u, <2>1, <2>2 DEF OpInv, Placed, Place, Quiet
  <2>6. Reading(o)' BY <1>0, <1>1, <1>2, <1>u, <2>2 DEF OpInv, Reading
  <2>7. Answered(o)' /\ CleansUp(o)' /\ Owns(o)' /\ Succeeded(o)'
    BY <1>1, <1>2, <1>u, <2>1, <2>2 DEF OpInv, Answered, CleansUp, Owns, Succeeded
  <2> QED BY <1>0, <1>1, <1>u, <2>3, <2>4, <2>5, <2>6, <2>7, StepTypes, StepInv
<1>4. CASE Finish(o, "error") /\ UNCHANGED file
  <2>1. pc' = [pc EXCEPT ![o] = "done"] /\ result' = [result EXCEPT ![o] = "error"] /\ UNCHANGED worldVars
    BY <1>0, <1>4 DEF Finish, worldVars
  <2>2. pc'[o] = "done" /\ result'[o] = "error" BY <2>1, OpTypes
  <2>3. Placed(o)' BY <1>0, <1>1, <1>2, <1>u, <2>2 DEF OpInv, Placed, Place, Quiet
  <2>4. Reading(o)' /\ Owns(o)' BY <1>1, <1>2, <1>u, <2>2 DEF Reading, Owns
  <2>5. "done" \in Labels \ {"idle", "writePng"} /\ result' # result /\ service[o] # "rm" BY <1>1, <1>2, <2>2 DEF Labels
  <2> QED BY <1>0, <2>1, <2>3, <2>4, <2>5, MoveInv
<1> QED BY <1>3, <1>4 DEF createPng

LEMMA WritePngInv == ASSUME ClientInv, NEW o \in Callers, writePng(o) PROVE ClientInv'
<1>0. /\ pc[o] = "writePng"
      /\ UNCHANGED <<connectVars, callVars, streamVars, ctx, late, got, pmOutput, remote, installed>>
      /\ pc' = [pc EXCEPT ![o] = "done"]
      /\ \/ result' = [result EXCEPT ![o] = "ok"] /\ file' = [file EXCEPT !.chunks = 1 .. got[o]]
         \/ result' = [result EXCEPT ![o] = "error"] /\ file' = [owner |-> "absent", chunks |-> {}]
  BY DEF writePng, sameRead, sameCall, streamVars, Finish
<1>u. UNCHANGED <<kind, overwrite, service, stream, inbox, sent, final, got, late, pmOutput, remote, installed, transport>>
  BY <1>0 DEF callVars, streamVars, connectVars
<1>1. OpInv(o) /\ phase = "connected" /\ result[o] = "none" BY <1>0, Begun DEF ClientInv, OpInv, Placed
<1>2. kind[o] = "screencap" /\ service[o] = "shell" /\ got[o] = sent[o] BY <1>0, <1>1 DEF OpInv, Placed, Place, Reading
<1>3. /\ pc' \in [Callers -> Labels] /\ result' \in [Callers -> {"none", "ok", "error"}]
      /\ pc'[o] = "done" /\ result'[o] \in {"ok", "error"}
      /\ \A p \in Callers \ {o} : pc'[p] = pc[p] /\ result'[p] = result[p]
  <2>1. pc' \in [Callers -> Labels] BY <1>0, OpTypes DEF Labels
  <2>2. PICK r \in {"ok", "error"} : result' = [result EXCEPT ![o] = r] BY <1>0
  <2>3. result' \in [Callers -> {"none", "ok", "error"}] BY <2>2, OpTypes
  <2> QED BY <1>0, <2>1, <2>2, <2>3, OpTypes
<1>4. file' \in [owner : Callers \cup {Other, "absent"}, chunks : SUBSET (1 .. Size)]
  <2>1. PICK S \in SUBSET (1 .. Size) : S = 1 .. got[o]
    <3>1. got[o] \in 0 .. Size /\ Size \in Nat BY OpTypes, ClientAssumption
    <3>2. 1 .. got[o] \subseteq 1 .. Size BY <3>1
    <3> QED BY <3>2
  <2>2. PICK f \in [owner : Callers \cup {Other, "absent"}, chunks : SUBSET (1 .. Size)] : f = file BY OpTypes
  <2>3. [f EXCEPT !.chunks = S] \in [owner : Callers \cup {Other, "absent"}, chunks : SUBSET (1 .. Size)] OBVIOUS
  <2>4. [owner |-> "absent", chunks |-> {}] \in [owner : Callers \cup {Other, "absent"}, chunks : SUBSET (1 .. Size)] OBVIOUS
  <2>5. file' = [f EXCEPT !.chunks = S] \/ file' = [owner |-> "absent", chunks |-> {}] BY <1>0, <2>1, <2>2
  <2> QED BY <2>3, <2>4, <2>5
<1>5. OpType' /\ WorldType' BY <1>0, <1>u, <1>3, <1>4, OpTypes DEF OpType, WorldType
<1>6. Only(o) /\ Writes(o) BY <1>0, <1>u, <1>3 DEF Only, Writes
<1>7. Placed(o)' BY <1>0, <1>1, <1>2, <1>u, <1>3 DEF OpInv, Placed, Place, Quiet
<1>8. Reading(o)' BY <1>2, <1>u, <1>3 DEF Reading
<1>9. Answered(o)' /\ CleansUp(o)' /\ Succeeded(o)' BY <1>1, <1>2, <1>u DEF OpInv, Answered, CleansUp, Succeeded
<1>10. Owns(o)'
  <2> SUFFICES ASSUME ~Clobbered(o)', result'[o] = "ok" PROVE file' = [owner |-> o, chunks |-> 1 .. sent'[o]]
    BY <1>3 DEF Owns
  <2>1. ~Clobbered(o) BY <1>u DEF Clobbered
  <2>2. file.owner = o BY <1>0, <1>1, <2>1 DEF OpInv, Owns
  <2>3. file' = [file EXCEPT !.chunks = 1 .. got[o]] BY <1>0, OpTypes
  <2> QED BY <1>2, <1>u, <2>2, <2>3, OpTypes
<1> QED BY <1>0, <1>1, <1>u, <1>5, <1>6, <1>7, <1>8, <1>9, <1>10, StepTypes, StepInv

LEMMA RebootInv == ASSUME ClientInv, NEW o \in Callers, closeService(o) PROVE ClientInv'
<1>0. /\ pc[o] = "closeService"
      /\ UNCHANGED <<connectVars, callVars, service, inbox, sent, final, ctx, late, got, pmOutput, file, remote, installed>>
      /\ pc' = [pc EXCEPT ![o] = "done"] /\ result' = [result EXCEPT ![o] = "ok"]
      /\ stream' = [stream EXCEPT ![o] = IF stream[o] = "refused" THEN "refused" ELSE "closed"]
  BY OpTypes DEF closeService, sameRead, sameCall, Finish, CloseStream, worldVars
<1>u. UNCHANGED <<kind, overwrite, transport>> BY <1>0 DEF callVars, connectVars
<1>1. OpInv(o) /\ phase = "connected" BY <1>0, Begun DEF ClientInv
<1>2. kind[o] = "reboot" /\ service[o] = "reboot" BY <1>0, <1>1 DEF OpInv, Placed, Place
<1>3. /\ pc'[o] = "done" /\ result'[o] = "ok" /\ stream'[o] \in {"refused", "closed"}
      /\ \A p \in Callers \ {o} : pc'[p] = pc[p] /\ result'[p] = result[p] /\ stream'[p] = stream[p]
  BY <1>0, OpTypes
<1>4. OpType' /\ WorldType'
  <2>1. pc' \in [Callers -> Labels] BY <1>0, OpTypes DEF Labels
  <2>2. result' \in [Callers -> {"none", "ok", "error"}] BY <1>0, OpTypes
  <2>3. stream' \in [Callers -> {"none", "opening", "refused", "open", "eof", "closed"}] BY <1>0, OpTypes
  <2> QED BY <1>0, <1>u, <2>1, <2>2, <2>3, OpTypes DEF OpType, WorldType
<1>5. Only(o) /\ Writes(o) BY <1>0, <1>u, <1>3 DEF Only, Writes
<1>6. Placed(o)' BY <1>0, <1>1, <1>2, <1>u, <1>3 DEF OpInv, Placed, Place, Quiet
<1>7. Reading(o)' /\ CleansUp(o)' /\ Owns(o)' /\ Succeeded(o)'
  BY <1>0, <1>2, <1>u, <1>3 DEF Reading, CleansUp, Owns, Succeeded
<1>8. Answered(o)' BY <1>0, <1>1 DEF OpInv, Answered
<1> QED BY <1>0, <1>1, <1>u, <1>4, <1>5, <1>6, <1>7, <1>8, StepTypes, StepInv

-----------------------------------------------------------------------------
(* Pulls.                                                                  *)

\* A step of a transfer that only writes a packet, or reads one, and goes on.
LEMMA TransferInv ==
    ASSUME ClientInv, NEW o \in Callers,
           NEW label \in {"header", "nextHeader", "createOut", "createDone", "copyN", "data", "writeDone", "response"},
           NEW packet \in {"RECV", "SEND", "DONE"},
           pc[o] \in Calling, service[o] \notin {"pm", "rm"}, stream[o] \in {"open", "eof", "closed"},
           pc' = [pc EXCEPT ![o] = label], service' = [service EXCEPT ![o] = packet],
           UNCHANGED <<connectVars, callVars, ctx, late, final, stream, pmOutput, result, installed>>,
           OpType', WorldType',
           \A p \in Callers \ {o} : inbox'[p] = inbox[p] /\ sent'[p] = sent[p] /\ got'[p] = got[p] /\ remote'[p] = remote[p],
           \/ file' = file
           \/ file'.owner = o /\ (file.owner = "absent" \/ overwrite[o])
           \/ pc[o] = "copyN" /\ file'.owner = file.owner,
           (Place(o) /\ Reading(o) /\ Answered(o))', Owns(o)'
    PROVE  ClientInv'
<1>0. UNCHANGED <<kind, overwrite, late, final, stream, pmOutput, result, installed, transport, phase>>
  BY DEF callVars, connectVars, handshakeVars
<1>1. OpInv(o) /\ phase = "connected" BY Begun DEF ClientInv, Calling
<1>2. /\ pc'[o] = label /\ service'[o] = packet /\ \A p \in Callers \ {o} : pc'[p] = pc[p] /\ service'[p] = service[p]
  BY OpTypes
<1>3. Only(o) BY <1>0, <1>2 DEF Only
<1>4. Writes(o) BY <1>2 DEF Writes
<1>5. result[o] = "none" BY <1>1 DEF OpInv, Placed, Calling
<1>6. Placed(o)' BY <1>0, <1>1, <1>2, <1>5 DEF OpInv, Placed, Quiet
<1>7. CleansUp(o)' /\ Succeeded(o)' BY <1>0, <1>2, <1>5 DEF CleansUp, Succeeded
<1> QED BY <1>0, <1>1, <1>3, <1>4, <1>6, <1>7, StepTypes, StepInv

\* The types of what such a step changes.
LEMMA TransferTypes ==
    ASSUME ClientInv, NEW o \in Callers, NEW label \in Labels, NEW packet \in {"RECV", "SEND", "DONE"},
           pc' = [pc EXCEPT ![o] = label], service' = [service EXCEPT ![o] = packet],
           UNCHANGED <<callVars, ctx, late, final, stream, pmOutput, result>>,
           inbox' \in [Callers -> Seq(Items)], sent' \in [Callers -> 0 .. Size], got' \in [Callers -> 0 .. Size]
    PROVE  OpType'
<1>1. pc' \in [Callers -> Labels] BY OpTypes
<1>2. service' \in [Callers -> {"none", "sync", "RECV", "SEND", "DONE", "shell", "pm", "rm", "reboot"}] BY OpTypes
<1> QED BY <1>1, <1>2, OpTypes DEF OpType, callVars

\* A packet cannot be written, or the stream ends where more was due.
LEMMA TransferFails ==
    ASSUME ClientInv, NEW o \in Callers, pc[o] \in Calling, service[o] # "rm", Returns(o, "error"),
           UNCHANGED <<connectVars, callVars, ctx, late, final, sent, got, remote, installed, file>>,
           inbox' = inbox \/ (CanRead(o) /\ Take(o))
    PROVE  ClientInv'
<1>1. file' \in [owner : Callers \cup {Other, "absent"}, chunks : SUBSET (1 .. Size)] BY OpTypes
<1> QED BY <1>1, ReturnsInv

LEMMA RecvInv == ASSUME ClientInv, NEW o \in Callers, recv(o) PROVE ClientInv'
<1>0. /\ pc[o] = "recv" /\ WriteSync(o, "RECV", "header")
      /\ UNCHANGED <<connectVars, callVars, ctx, late, final, inbox, sent, got, file, remote, installed>>
  BY DEF recv, sameCall, worldVars
<1>1. OpInv(o) /\ service[o] = "sync" /\ kind[o] = "pull" BY <1>0 DEF ClientInv, OpInv, Placed, Place
<1>2. pc[o] \in Calling /\ service[o] # "rm" BY <1>0, <1>1 DEF Calling
<1>3. CASE Returns(o, "error") BY <1>0, <1>2, <1>3, TransferFails
<1>4. CASE CanWrite(o) /\ service' = [service EXCEPT ![o] = "RECV"] /\ Goto(o, "header") /\ UNCHANGED <<stream, pmOutput>>
  <2>1. pc' = [pc EXCEPT ![o] = "header"] /\ result' = result BY <1>4 DEF Goto
  <2>2. OpType' /\ WorldType'
    <3>1. "header" \in Labels BY DEF Labels
    <3> QED BY <1>0, <1>4, <2>1, <3>1, OpTypes, TransferTypes DEF WorldType
  <2>3. pc'[o] = "header" /\ service'[o] = "RECV" /\ kind'[o] = "pull" BY <1>0, <1>1, <1>4, <2>1, OpTypes DEF callVars
  <2>4. inbox'[o] = <<>> /\ sent'[o] = 0 /\ got'[o] = 0 BY <1>0, <1>1 DEF OpInv, Reading
  <2>5. AtHeader(inbox[o], sent[o] - got[o])' /\ Len(inbox'[o]) = 0 BY <2>4 DEF AtHeader
  <2>6. Place(o)' /\ Answered(o)' BY <1>0, <1>1, <1>4, <2>3, <2>4 DEF Place, OpInv, Answered
  <2>7. Reading(o)' BY <2>3, <2>4, <2>5 DEF Reading
  <2>8. Owns(o)' BY <1>0, <1>1, <2>1, <2>3 DEF Owns, OpInv, Placed
  <2>9. stream[o] \in {"open", "eof", "closed"} BY <1>4 DEF CanWrite
  <2> QED BY <1>0, <1>1, <1>2, <1>4, <2>1, <2>2, <2>6, <2>7, <2>8, <2>9, TransferInv
<1> QED BY <1>0, <1>3, <1>4 DEF WriteSync, CanWrite, Gone

\* Reading a header, and reading what follows it.
LEMMA HeaderRead ==
    ASSUME NEW s \in Seq(Items), NEW n \in Nat \ {0}, AtHeader(s, n)
    PROVE  s[1] = "DATA" /\ AtBody(Tail(s), n)
<1>1. Len(s) \in Nat /\ Len(s) \in {2 * n, 2 * n + 1} /\ \A j \in 1 .. n : s[2 * j - 1] = "DATA" /\ s[2 * j] = "body"
  BY DEF AtHeader
<1>2. s[2 * 1 - 1] = "DATA" BY <1>1
<1>3. s # <<>> /\ Len(Tail(s)) = Len(s) - 1 /\ \A i \in 1 .. Len(s) - 1 : Tail(s)[i] = s[i + 1] BY <1>1
<1>4. ASSUME NEW j \in 1 .. n PROVE Tail(s)[2 * j - 1] = "body" /\ (j < n => Tail(s)[2 * j] = "DATA")
  <2>1. 2 * j - 1 \in 1 .. Len(s) - 1 /\ (2 * j - 1) + 1 = 2 * j BY <1>1
  <2>2. Tail(s)[2 * j - 1] = s[2 * j] BY <1>3, <2>1
  <2>3. CASE j < n
    <3>1. 2 * j \in 1 .. Len(s) - 1 /\ 2 * j + 1 = 2 * (j + 1) - 1 /\ j + 1 \in 1 .. n BY <1>1, <2>3
    <3>2. Tail(s)[2 * j] = s[2 * (j + 1) - 1] BY <1>3, <3>1
    <3> QED BY <1>1, <2>2, <3>1, <3>2
  <2> QED BY <1>1, <2>2, <2>3
<1>5. Len(Tail(s)) \in {2 * n - 1, 2 * n}
  <2>1. PICK m \in Nat : m = Len(s) BY <1>1
  <2>2. m - 1 \in {2 * n - 1, 2 * n} BY <1>1, <2>1
  <2> QED BY <1>3, <2>1, <2>2
<1> QED BY <1>2, <1>4, <1>5 DEF AtBody

LEMMA BodyRead ==
    ASSUME NEW s \in Seq(Items), NEW n \in Nat, AtBody(s, n)
    PROVE  AtHeader(Tail(s), n - 1) /\ Len(Tail(s)) = Len(s) - 1
<1>1. n >= 1 /\ Len(s) \in {2 * n - 1, 2 * n} /\ \A j \in 1 .. n : s[2 * j - 1] = "body" /\ (j < n => s[2 * j] = "DATA")
  BY DEF AtBody
<1>2. s # <<>> /\ Len(Tail(s)) = Len(s) - 1 /\ \A i \in 1 .. Len(s) - 1 : Tail(s)[i] = s[i + 1] BY <1>1
<1>3. ASSUME NEW j \in 1 .. n - 1 PROVE Tail(s)[2 * j - 1] = "DATA" /\ Tail(s)[2 * j] = "body"
  <2>1. 2 * j - 1 \in 1 .. Len(s) - 1 /\ (2 * j - 1) + 1 = 2 * j /\ j \in 1 .. n /\ j < n BY <1>1
  <2>2. Tail(s)[2 * j - 1] = s[2 * j] BY <1>2, <2>1
  <2>3. 2 * j \in 1 .. Len(s) - 1 /\ 2 * j + 1 = 2 * (j + 1) - 1 /\ j + 1 \in 1 .. n BY <1>1
  <2>4. Tail(s)[2 * j] = s[2 * (j + 1) - 1] BY <1>2, <2>3
  <2> QED BY <1>1, <2>1, <2>2, <2>3, <2>4
<1>4. Len(Tail(s)) \in {2 * (n - 1), 2 * (n - 1) + 1}
  <2>1. PICK m \in Nat : m = Len(s) OBVIOUS
  <2>2. m - 1 \in {2 * (n - 1), 2 * (n - 1) + 1} BY <1>1, <2>1
  <2> QED BY <1>2, <2>1, <2>2
<1>5. n - 1 >= 0 BY <1>1
<1> QED BY <1>2, <1>3, <1>4, <1>5 DEF AtHeader

\* At a header, and past it, the packets that have arrived are those that were sent
\* and not yet read.
LEMMA HeaderInv == ASSUME ClientInv, NEW o \in Callers, readSyncHeader(o) PROVE ClientInv'
<1>0. /\ pc[o] \in {"header", "nextHeader"} /\ CanRead(o) /\ Take(o)
      /\ UNCHANGED <<connectVars, callVars, ctx, late, final, sent, got, file, remote, installed>>
  BY DEF readSyncHeader, sameCall, worldVars
<1>1. OpInv(o) /\ service[o] = "RECV" /\ kind[o] = "pull" BY <1>0 DEF ClientInv, OpInv, Placed, Place
<1>2. pc[o] \in Calling /\ service[o] # "rm" BY <1>0, <1>1 DEF Calling
<1>3. PICK s \in Seq(Items), n \in Int : s = inbox[o] /\ n = sent[o] - got[o] BY OpTypes
<1>4. /\ AtHeader(s, n) /\ (stream[o] = "open" /\ ~final[o] => Len(s) = 2 * n) /\ n \in Nat
  BY <1>0, <1>1, <1>3 DEF OpInv, Reading, AtHeader
<1>5. inbox'[o] = Tail(s) /\ s[1] = Head(s) /\ Len(s) >= 1 /\ Len(inbox'[o]) = Len(s) - 1 BY <1>0, <1>3, Taken
<1>6. s[1] # "DATA" => n = 0 BY <1>4, HeaderRead
<1>7. n = 0 => Len(s) = 1 /\ inbox'[o] = <<>> /\ sent[o] = got[o] /\ (final[o] \/ stream[o] # "open")
  <2>1. n = 0 => Len(s) = 1 BY <1>4, <1>5 DEF AtHeader
  <2>2. inbox'[o] \in Seq(Items) BY <1>0, Taken
  <2>3. n = 0 => inbox'[o] = <<>> BY <1>5, <2>1, <2>2
  <2>4. n = 0 => sent[o] = got[o]
    <3>1. sent[o] \in Nat /\ got[o] \in Nat BY OpTypes
    <3> QED BY <1>3, <3>1
  <2> QED BY <1>4, <2>1, <2>3, <2>4
<1>8. ASSUME Returns(o, "error") PROVE ClientInv' BY <1>0, <1>2, <1>8, TransferFails
<1>9. ASSUME NEW l \in {"copyN", "createOut", "createDone"}, Goto(o, l), UNCHANGED <<service, stream, pmOutput>>,
             l = "copyN" => pc[o] = "nextHeader", l # "copyN" => pc[o] = "header",
             l = "createDone" => s[1] = "DONE"
      PROVE  ClientInv'
  <2>1. pc' = [pc EXCEPT ![o] = l] /\ result' = result /\ service' = [service EXCEPT ![o] = "RECV"]
    BY <1>1, <1>9, OpTypes DEF Goto
  <2>2. OpType' /\ WorldType'
    <3>1. l \in Labels BY DEF Labels
    <3>2. inbox' \in [Callers -> Seq(Items)] BY <1>0, Taken
    <3> QED BY <1>0, <1>9, <2>1, <3>1, <3>2, OpTypes, TransferTypes DEF WorldType
  <2>3. /\ pc'[o] = l /\ service'[o] = "RECV" /\ kind'[o] = "pull" /\ stream'[o] = stream[o] /\ final'[o] = final[o]
        /\ sent'[o] = sent[o] /\ got'[o] = got[o] /\ overwrite' = overwrite /\ file' = file /\ result' = result
    BY <1>0, <1>1, <1>9, <2>1, OpTypes DEF callVars
  <2>4. Place(o)' BY <2>3 DEF Place
  <2>5. Answered(o)'
    <3>1. \A i \in 1 .. Len(inbox'[o]) : inbox'[o][i] = inbox[o][i + 1] /\ i + 1 \in 1 .. Len(inbox[o])
      BY <1>0, <1>3, <1>5, Taken
    <3> QED BY <1>0, <1>1, <1>9, <2>3, <3>1 DEF OpInv, Answered
  <2>6. Reading(o)'
    <3>1. l # "copyN" => got[o] = 0 BY <1>0, <1>1, <1>9 DEF OpInv, Reading
    <3>2. CASE l = "createDone" BY <1>6, <1>7, <1>9, <2>3, <3>1, <3>2 DEF Reading
    <3>3. CASE l # "createDone" /\ n = 0 BY <1>7, <2>3, <3>1, <3>3 DEF Reading
    <3>4. CASE l # "createDone" /\ n # 0
      <4>1. AtBody(inbox[o], sent[o] - got[o])'
        <5>1. AtBody(Tail(s), n) BY <1>4, <3>4, HeaderRead
        <5> QED BY <1>3, <1>5, <2>3, <5>1 DEF AtBody
      <4>2. (stream[o] = "open" /\ ~final[o] => Len(inbox[o]) = 2 * (sent[o] - got[o]) - 1)'
        BY <1>3, <1>4, <1>5, <2>3
      <4> QED BY <2>3, <3>1, <3>4, <4>1, <4>2 DEF Reading
    <3> QED BY <3>2, <3>3, <3>4
  <2>7. Owns(o)' BY <1>0, <1>1, <1>9, <2>3 DEF OpInv, Owns, Clobbered
  <2>8. stream[o] \in {"open", "eof", "closed"} BY <1>0, <1>1 DEF OpInv, Placed, Quiet
  <2>9. \A p \in Callers \ {o} : inbox'[p] = inbox[p] BY <1>0, Taken
  <2> QED BY <1>0, <1>1, <1>2, <1>9, <2>1, <2>2, <2>4, <2>5, <2>6, <2>7, <2>8, <2>9, TransferInv
<1>10. ASSUME NEW r \in {"ok", "error"}, Returns(o, r), pc[o] = "nextHeader", s[1] = "DONE" PROVE ClientInv'
  <2>1. ~Clobbered(o) => file' = [owner |-> o, chunks |-> 1 .. sent[o]]
    <3>1. ~Clobbered(o) => file.owner = o /\ file.chunks = 1 .. got[o] BY <1>1, <1>10 DEF OpInv, Owns
    <3>2. got[o] = sent[o] BY <1>6, <1>7, <1>10
    <3> QED BY <1>0, <3>1, <3>2, OpTypes
  <2>2. file' \in [owner : Callers \cup {Other, "absent"}, chunks : SUBSET (1 .. Size)] BY <1>0, OpTypes
  <2> QED BY <1>0, <1>1, <1>2, <1>10, <2>1, <2>2, ReturnsInv
<1>11. CASE s[1] = "DATA"
  <2>1. Goto(o, IF pc[o] = "nextHeader" THEN "copyN" ELSE "createOut") /\ UNCHANGED <<service, stream, pmOutput>>
    BY <1>3, <1>5, <1>11 DEF readSyncHeader
  <2> QED BY <1>0, <1>9, <1>11, <2>1
<1>12. CASE s[1] = "DONE"
  <2>1. \/ pc[o] # "nextHeader" /\ Goto(o, "createDone") /\ UNCHANGED <<service, stream, pmOutput>>
        \/ pc[o] = "nextHeader" /\ \E r \in {"ok", "error"} : Returns(o, r)
    BY <1>3, <1>5, <1>12 DEF readSyncHeader
  <2> QED BY <1>0, <1>9, <1>10, <1>12, <2>1
<1>13. CASE s[1] \notin {"DATA", "DONE"}
  <2>1. Returns(o, "error") BY <1>3, <1>5, <1>13 DEF readSyncHeader
  <2> QED BY <1>8, <2>1
<1> QED BY <1>11, <1>12, <1>13

\* The destination is created, with O_EXCL unless it may be overwritten.
LEMMA CreateInv == ASSUME ClientInv, NEW o \in Callers, createOut(o) PROVE ClientInv'
<1>0. /\ pc[o] \in {"createOut", "createDone"}
      /\ UNCHANGED <<connectVars, callVars, ctx, late, final, inbox, sent, got, remote, installed>>
  BY DEF createOut, sameCall
<1>1. OpInv(o) /\ service[o] = "RECV" /\ kind[o] = "pull" BY <1>0 DEF ClientInv, OpInv, Placed, Place
<1>2. pc[o] \in Calling /\ service[o] # "rm" BY <1>0, <1>1 DEF Calling
<1>3. CASE Returns(o, "error") /\ UNCHANGED file BY <1>0, <1>2, <1>3, TransferFails
<1>4. ASSUME mayCreate(o), file' = [owner |-> o, chunks |-> {}] PROVE ClientInv'
  <2>1. /\ file' \in [owner : Callers \cup {Other, "absent"}, chunks : SUBSET (1 .. Size)]
        /\ file'.owner = o /\ file'.chunks = {} /\ (file.owner = "absent" \/ overwrite[o])
    BY <1>4 DEF mayCreate
  <2>2. got[o] = 0 BY <1>0, <1>1 DEF OpInv, Reading
  <2>3. ASSUME NEW r \in {"ok", "error"}, Returns(o, r), pc[o] = "createDone" PROVE ClientInv'
    <3>1. sent[o] = 0 BY <1>1, <2>2, <2>3 DEF OpInv, Reading
    <3>2. 1 .. 0 = {} OBVIOUS
    <3>3. file' = [owner |-> o, chunks |-> 1 .. sent[o]] BY <1>4, <3>1, <3>2
    <3> QED BY <1>0, <1>1, <1>2, <2>1, <2>3, <3>3, ReturnsInv
  <2>4. ASSUME Goto(o, "copyN"), UNCHANGED <<service, stream, pmOutput>>, pc[o] # "createDone" PROVE ClientInv'
    <3>1. pc' = [pc EXCEPT ![o] = "copyN"] /\ result' = result /\ service' = [service EXCEPT ![o] = "RECV"]
      BY <1>1, <2>4, OpTypes DEF Goto
    <3>2. OpType' /\ WorldType'
      <4>1. "copyN" \in Labels BY DEF Labels
      <4> QED BY <1>0, <2>1, <2>4, <3>1, <4>1, OpTypes, TransferTypes DEF WorldType
    <3>3. /\ pc'[o] = "copyN" /\ service'[o] = "RECV" /\ kind'[o] = "pull"
          /\ UNCHANGED <<stream, final, inbox, sent, got, result, remote, installed, pmOutput>>
      BY <1>0, <1>1, <2>4, <3>1, OpTypes DEF callVars
    <3>4. Place(o)' /\ Answered(o)' BY <1>1, <3>3 DEF Place, OpInv, Answered
    <3>5. Reading(o)' BY <1>0, <1>1, <2>4, <3>3 DEF OpInv, Reading, AtBody
    <3>6. Owns(o)'
      <4>1. result'[o] = "none" BY <1>0, <1>1, <3>3 DEF OpInv, Placed
      <4>2. file'.chunks = 1 .. got'[o] BY <2>1, <2>2, <3>3
      <4> QED BY <2>1, <4>1, <4>2 DEF Owns
    <3>7. stream[o] \in {"open", "eof", "closed"} BY <1>0, <1>1 DEF OpInv, Placed, Quiet
    <3> QED BY <1>0, <1>1, <1>2, <2>1, <2>4, <3>1, <3>2, <3>4, <3>5, <3>6, <3>7, TransferInv
  <2> QED BY <1>1, <1>4, <2>1, <2>3, <2>4, <1>3 DEF createOut
<1> QED BY <1>3, <1>4 DEF createOut

LEMMA CopyNInv == ASSUME ClientInv, NEW o \in Callers, copyN(o) PROVE ClientInv'
<1>0. /\ pc[o] = "copyN" /\ CanRead(o) /\ Take(o)
      /\ UNCHANGED <<connectVars, callVars, ctx, late, final, sent, remote, installed>>
  BY DEF copyN, sameCall
<1>1. OpInv(o) /\ service[o] = "RECV" /\ kind[o] = "pull" BY <1>0 DEF ClientInv, OpInv, Placed, Place
<1>2. pc[o] \in Calling /\ service[o] # "rm" BY <1>0, <1>1 DEF Calling
<1>3. CASE Returns(o, "error") /\ UNCHANGED <<got, file>> BY <1>0, <1>2, <1>3, TransferFails
<1>4. CASE /\ got' = [got EXCEPT ![o] = @ + 1] /\ file' = [file EXCEPT !.chunks = @ \cup {got[o] + 1}]
           /\ Goto(o, "nextHeader") /\ UNCHANGED <<service, stream, pmOutput>>
  <2>1. pc' = [pc EXCEPT ![o] = "nextHeader"] /\ result' = result /\ service' = [service EXCEPT ![o] = "RECV"]
    BY <1>1, <1>4, OpTypes DEF Goto
  <2>2. PICK s \in Seq(Items), n \in Int, g \in 0 .. Size : s = inbox[o] /\ n = sent[o] - got[o] /\ g = got[o] BY OpTypes
  <2>3. n >= 1 /\ AtBody(s, n) /\ (stream[o] = "open" /\ ~final[o] => Len(s) = 2 * n - 1)
    BY <1>0, <1>1, <2>2 DEF OpInv, Reading, AtBody, CanRead
  <2>4. inbox'[o] = Tail(s) /\ (\A p \in Callers \ {o} : inbox'[p] = inbox[p]) /\ inbox' \in [Callers -> Seq(Items)]
    BY <1>0, <2>2, Taken
  <2>5. g + 1 \in 1 .. Size
    <3>1. sent[o] \in 0 .. Size /\ Size \in Nat BY OpTypes, ClientAssumption
    <3> QED BY <2>2, <2>3, <3>1
  <2>6. /\ got' = [got EXCEPT ![o] = g + 1] /\ got' \in [Callers -> 0 .. Size] /\ got'[o] = g + 1
        /\ \A p \in Callers \ {o} : got'[p] = got[p]
    <3>1. got' = [got EXCEPT ![o] = g + 1] BY <1>4, <2>2
    <3>2. g + 1 \in 0 .. Size BY <2>5
    <3> QED BY <3>1, <3>2, OpTypes
  <2>7. /\ file' \in [owner : Callers \cup {Other, "absent"}, chunks : SUBSET (1 .. Size)]
        /\ file'.owner = file.owner /\ file'.chunks = file.chunks \cup {g + 1}
    <3>1. PICK f \in [owner : Callers \cup {Other, "absent"}, chunks : SUBSET (1 .. Size)] : f = file BY OpTypes
    <3>2. file' = [f EXCEPT !.chunks = f.chunks \cup {g + 1}] BY <1>4, <2>2, <3>1
    <3>3. f.chunks \cup {g + 1} \in SUBSET (1 .. Size) BY <2>5
    <3> QED BY <3>1, <3>2, <3>3
  <2>8. OpType' /\ WorldType'
    <3>1. "nextHeader" \in Labels BY DEF Labels
    <3>2. OpType' BY <1>0, <1>4, <2>1, <2>4, <2>6, <3>1, OpTypes, TransferTypes
    <3> QED BY <1>0, <2>7, <3>2, OpTypes DEF WorldType
  <2>9. /\ pc'[o] = "nextHeader" /\ service'[o] = "RECV" /\ kind'[o] = "pull"
        /\ UNCHANGED <<stream, final, sent, result, remote, installed, pmOutput, overwrite>>
    BY <1>0, <1>1, <1>4, <2>1, OpTypes DEF callVars
  <2>10. Place(o)' BY <2>9 DEF Place
  <2>11. Answered(o)'
    <3>1. \A i \in 1 .. Len(inbox'[o]) : inbox'[o][i] = inbox[o][i + 1] /\ i + 1 \in 1 .. Len(inbox[o])
      <4>1. Len(s) \in Nat /\ Len(inbox'[o]) = Len(s) - 1 BY <1>0, <2>2, Taken
      <4>2. \A i \in 1 .. Len(s) - 1 : i + 1 \in 1 .. Len(s) BY <4>1
      <4> QED BY <1>0, <2>2, <4>1, <4>2, Taken
    <3> QED BY <1>0, <1>1, <2>9, <3>1 DEF OpInv, Answered
  <2>12. Reading(o)'
    <3>1. AtHeader(Tail(s), n - 1) /\ Len(Tail(s)) = Len(s) - 1 BY <2>3, BodyRead
    <3>2. n - 1 = sent'[o] - got'[o]
      <4>1. sent[o] \in Int /\ got[o] \in Int BY OpTypes
      <4> QED BY <2>2, <2>6, <2>9, <4>1
    <3>3. AtHeader(inbox[o], sent[o] - got[o])' BY <2>4, <3>1, <3>2 DEF AtHeader
    <3>4. (stream[o] = "open" /\ ~final[o] => Len(inbox[o]) = 2 * (sent[o] - got[o]))'
      <4>1. PICK m \in Nat : m = Len(s) OBVIOUS
      <4>2. m = 2 * n - 1 => m - 1 = 2 * (n - 1) OBVIOUS
      <4> QED BY <2>3, <2>4, <2>9, <3>1, <3>2, <4>1, <4>2
    <3> QED BY <2>9, <3>3, <3>4 DEF Reading
  <2>13. Owns(o)'
    <3> SUFFICES ASSUME ~Clobbered(o)' PROVE file'.owner = o /\ file'.chunks = 1 .. got'[o]
      BY <1>0, <1>1, <2>9 DEF Owns, OpInv, Placed
    <3>1. ~Clobbered(o) BY <2>9 DEF Clobbered
    <3>2. file.owner = o /\ file.chunks = 1 .. g BY <1>0, <1>1, <2>2, <3>1 DEF OpInv, Owns
    <3>3. (1 .. g) \cup {g + 1} = 1 .. (g + 1) BY ClientAssumption
    <3> QED BY <2>6, <2>7, <3>2, <3>3
  <2>14. stream[o] \in {"open", "eof", "closed"} BY <1>0, <1>1 DEF OpInv, Placed, Quiet
  <2> QED BY <1>0, <1>1, <1>2, <1>4, <2>1, <2>4, <2>6, <2>7, <2>8, <2>10, <2>11, <2>12, <2>13, <2>14, TransferInv
<1> QED BY <1>3, <1>4 DEF copyN

LEMMA ReadFailsInv == ASSUME ClientInv, NEW o \in Callers, readSyncFails(o) PROVE ClientInv'
<1>0. /\ pc[o] \in {"header", "nextHeader", "copyN"} /\ Returns(o, "error")
      /\ UNCHANGED <<connectVars, callVars, ctx, late, final, sent, got, remote, installed, file, inbox>>
  BY DEF readSyncFails, pullEnds, sameCall, worldVars
<1>1. pc[o] \in Calling /\ service[o] # "rm" BY <1>0 DEF Calling, ClientInv, OpInv, Placed, Place
<1> QED BY <1>0, <1>1, TransferFails

-----------------------------------------------------------------------------
(* Pushes.                                                                 *)

LEMMA SendInv == ASSUME ClientInv, NEW o \in Callers, send(o) PROVE ClientInv'
<1>0. /\ pc[o] = "send" /\ WriteSync(o, "SEND", "data")
      /\ remote' = IF CanWrite(o) THEN [remote EXCEPT ![o] = "partial"] ELSE remote
      /\ UNCHANGED <<connectVars, callVars, ctx, late, final, inbox, sent, got, file, installed>>
  BY DEF send, sameCall
<1>1. OpInv(o) /\ service[o] = "sync" /\ kind[o] \in {"push", "install"} BY <1>0 DEF ClientInv, OpInv, Placed, Place
<1>2. pc[o] \in Calling /\ service[o] \notin {"pm", "rm"} BY <1>0, <1>1 DEF Calling
<1>3. CASE ~CanWrite(o) /\ Returns(o, "error") BY <1>0, <1>2, <1>3, TransferFails
<1>4. CASE CanWrite(o) /\ service' = [service EXCEPT ![o] = "SEND"] /\ Goto(o, "data") /\ UNCHANGED <<stream, pmOutput>>
  <2>1. pc' = [pc EXCEPT ![o] = "data"] /\ result' = result /\ remote' = [remote EXCEPT ![o] = "partial"]
    BY <1>0, <1>4 DEF Goto
  <2>2. OpType' /\ WorldType'
    <3>1. "data" \in Labels BY DEF Labels
    <3>2. remote' \in [Callers -> {"absent", "partial", "complete"}] BY <2>1, OpTypes
    <3> QED BY <1>0, <1>4, <2>1, <3>1, <3>2, OpTypes, TransferTypes DEF WorldType
  <2>3. pc'[o] = "data" /\ service'[o] = "SEND" /\ kind'[o] = kind[o] /\ overwrite' = overwrite
    BY <1>0, <1>1, <1>4, <2>1, OpTypes DEF callVars
  <2>4. inbox'[o] = <<>> BY <1>0, <1>1 DEF OpInv, Reading
  <2>5. Place(o)' /\ Reading(o)' /\ Answered(o)' BY <1>0, <1>1, <1>4, <2>3, <2>4 DEF Place, Reading, OpInv, Answered
  <2>6. Owns(o)' BY <1>0, <1>1, <2>1, <2>3 DEF Owns, OpInv, Placed
  <2>7. stream[o] \in {"open", "eof", "closed"} BY <1>4 DEF CanWrite
  <2>8. \A p \in Callers \ {o} : remote'[p] = remote[p] BY <2>1, OpTypes
  <2> QED BY <1>0, <1>1, <1>2, <1>4, <2>1, <2>2, <2>5, <2>6, <2>7, <2>8, TransferInv
<1> QED BY <1>0, <1>3, <1>4 DEF WriteSync, CanWrite, Gone

\* The push goes on to label, having written packet.
LEMMA PushInv ==
    ASSUME ClientInv, NEW o \in Callers, pc[o] \in {"data", "writeDone"},
           NEW label \in {"data", "writeDone", "response"}, NEW packet \in {"SEND", "DONE"},
           pc' = [pc EXCEPT ![o] = label], service' = [service EXCEPT ![o] = packet],
           packet = "DONE" <=> label = "response",
           UNCHANGED <<connectVars, callVars, ctx, late, final, stream, inbox, got, pmOutput, result, file, remote, installed>>,
           sent' \in [Callers -> 0 .. Size], \A p \in Callers \ {o} : sent'[p] = sent[p],
           label # "data" => sent'[o] = Size
    PROVE  ClientInv'
<1>1. OpInv(o) /\ service[o] = "SEND" /\ kind[o] \in {"push", "install"} BY DEF ClientInv, OpInv, Placed, Place
<1>2. pc[o] \in Calling /\ service[o] \notin {"pm", "rm"} BY <1>1 DEF Calling
<1>3. OpType' /\ WorldType'
  <2>1. label \in Labels BY DEF Labels
  <2> QED BY <2>1, OpTypes, TransferTypes DEF WorldType
<1>4. pc'[o] = label /\ service'[o] = packet /\ kind'[o] = kind[o] BY OpTypes DEF callVars
<1>5. Place(o)' BY <1>1, <1>4 DEF Place
<1>6. Reading(o)' BY <1>4 DEF Reading
<1>7. Answered(o)' BY <1>1, <1>4 DEF OpInv, Answered
<1>8. Owns(o)' BY <1>1, <1>4 DEF Owns, OpInv, Placed
<1>9. stream[o] \in {"open", "eof", "closed"} BY <1>1 DEF OpInv, Placed, Quiet
<1> QED BY <1>1, <1>2, <1>3, <1>5, <1>6, <1>7, <1>8, <1>9, TransferInv

LEMMA DataInv == ASSUME ClientInv, NEW o \in Callers, data(o) \/ writeDone(o) PROVE ClientInv'
<1>0. /\ pc[o] \in {"data", "writeDone"}
      /\ UNCHANGED <<connectVars, callVars, ctx, late, final, inbox, got, file, remote, installed>>
  BY DEF data, writeDone, sameCall, worldVars
<1>1. OpInv(o) /\ service[o] = "SEND" /\ pc[o] \in Calling BY <1>0 DEF ClientInv, OpInv, Placed, Place, Calling
<1>2. sent \in [Callers -> 0 .. Size] /\ service \in [Callers -> {"none", "sync", "RECV", "SEND", "DONE", "shell", "pm", "rm", "reboot"}]
  BY OpTypes
<1>3. ASSUME Returns(o, "error"), sent' = sent PROVE ClientInv' BY <1>0, <1>1, <1>3, TransferFails
<1>4. CASE data(o)
  <2>0. pc[o] = "data" BY <1>4 DEF data
  <2>1. CASE sent[o] < Size /\ WriteSync(o, "SEND", "data") /\ sent' = [sent EXCEPT ![o] = IF CanWrite(o) THEN @ + 1 ELSE @]
    <3>1. CASE ~CanWrite(o) /\ Returns(o, "error")
      <4>1. sent' = sent BY <1>2, <2>1, <3>1
      <4> QED BY <1>3, <3>1, <4>1
    <3>2. CASE CanWrite(o) /\ service' = [service EXCEPT ![o] = "SEND"] /\ Goto(o, "data") /\ UNCHANGED <<stream, pmOutput>>
      <4>1. PICK n \in 0 .. Size : n = sent[o] + 1
        <5>1. sent[o] \in 0 .. Size /\ Size \in Nat BY <1>2, ClientAssumption
        <5> QED BY <2>1, <5>1
      <4>2. sent' = [sent EXCEPT ![o] = n] BY <2>1, <3>2, <4>1
      <4>3. sent' \in [Callers -> 0 .. Size] /\ \A p \in Callers \ {o} : sent'[p] = sent[p] BY <1>2, <4>2
      <4> QED BY <1>0, <3>2, <4>3, PushInv DEF Goto
    <3> QED BY <2>1, <3>1, <3>2 DEF WriteSync, CanWrite, Gone
  <2>2. CASE sent[o] = Size /\ Goto(o, "writeDone") /\ UNCHANGED <<service, stream, pmOutput, sent>>
    <3>1. service' = [service EXCEPT ![o] = "SEND"] BY <1>1, <1>2, <2>2
    <3> QED BY <1>0, <1>2, <2>2, <3>1, PushInv DEF Goto
  <2>3. CASE Returns(o, "error") /\ UNCHANGED sent BY <1>3, <2>3
  <2> QED BY <1>4, <2>1, <2>2, <2>3 DEF data
<1>5. CASE writeDone(o)
  <2>1. pc[o] = "writeDone" /\ WriteSync(o, "DONE", "response") /\ sent' = sent BY <1>5 DEF writeDone
  <2>2. sent[o] = Size BY <1>1, <2>1 DEF OpInv, Reading
  <2>3. CASE CanWrite(o) /\ service' = [service EXCEPT ![o] = "DONE"] /\ Goto(o, "response") /\ UNCHANGED <<stream, pmOutput>>
    BY <1>0, <1>2, <2>1, <2>2, <2>3, PushInv DEF Goto
  <2> QED BY <1>3, <2>1, <2>3 DEF WriteSync, CanWrite, Gone
<1> QED BY <1>4, <1>5

LEMMA ResponseInv == ASSUME ClientInv, NEW o \in Callers, response(o) PROVE ClientInv'
<1>0. /\ pc[o] = "response"
      /\ UNCHANGED <<connectVars, callVars, ctx, late, final, sent, got, file, remote, installed>>
  BY DEF response, sameCall, worldVars
<1>1. /\ OpInv(o) /\ service[o] = "DONE" /\ kind[o] \in {"push", "install"} /\ pc[o] \in Calling
  BY <1>0 DEF ClientInv, OpInv, Placed, Place, Calling
<1>2. CASE (EOF(o) \/ Broken(o)) /\ UNCHANGED inbox /\ Returns(o, "error") BY <1>0, <1>1, <1>2, TransferFails
<1>3. CASE CanRead(o) /\ Take(o) /\ Returns(o, IF Head(inbox[o]) = "OKAY" THEN "ok" ELSE "error")
  <2>1. PICK r \in {"ok", "error"} : Returns(o, r) /\ (r = "ok" => Head(inbox[o]) = "OKAY") BY <1>3
  <2>2. Head(inbox[o]) = inbox[o][1] /\ 1 \in 1 .. Len(inbox[o])
    <3>1. Len(inbox[o]) \in Nat BY OpTypes
    <3> QED BY <1>3, <3>1, Taken
  <2>3. r = "ok" => remote[o] = "complete" BY <1>1, <2>1, <2>2 DEF OpInv, Answered
  <2>4. file' \in [owner : Callers \cup {Other, "absent"}, chunks : SUBSET (1 .. Size)] BY <1>0, OpTypes
  <2> QED BY <1>0, <1>1, <1>3, <2>1, <2>3, <2>4, ReturnsInv
<1> QED BY <1>2, <1>3 DEF response

-----------------------------------------------------------------------------
(* The device.                                                             *)

LEMMA DeviceWrote ==
    ASSUME ClientInv, NEW o \in Callers, NEW items \in Seq(Items), DeviceWrites(o, items)
    PROVE  /\ inbox' \in [Callers -> Seq(Items)] /\ \A p \in Callers \ {o} : inbox'[p] = inbox[p]
           /\ inbox'[o] = inbox[o] \o items /\ Len(inbox'[o]) = Len(inbox[o]) + Len(items)
           /\ \A i \in 1 .. Len(inbox'[o]) : \/ \E j \in 1 .. Len(inbox[o]) : inbox'[o][i] = inbox[o][j]
                                             \/ \E j \in 1 .. Len(items) : inbox'[o][i] = items[j]
<1>1. PICK s \in Seq(Items) : s = inbox[o] BY OpTypes
<1>0. s \o items \in Seq(Items) OBVIOUS
<1>2. PICK t \in Seq(Items) : t = s \o items BY <1>0
<1>3. inbox' = [inbox EXCEPT ![o] = t] BY <1>1, <1>2 DEF DeviceWrites
<1>4. inbox' \in [Callers -> Seq(Items)] /\ inbox'[o] = t /\ \A p \in Callers \ {o} : inbox'[p] = inbox[p] BY <1>3, OpTypes
<1>5. PICK m \in Nat, n \in Nat : m = Len(s) /\ n = Len(items) OBVIOUS
<1>6. Len(t) = m + n BY <1>2, <1>5
<1>7. \A i \in 1 .. m + n : t[i] = IF i <= m THEN s[i] ELSE items[i - m] BY <1>2, <1>5
<1>8. \A i \in 1 .. m + n : (i <= m => i \in 1 .. m) /\ (~(i <= m) => i - m \in 1 .. n) OBVIOUS
<1> QED BY <1>1, <1>2, <1>4, <1>5, <1>6, <1>7, <1>8

\* One more packet, at a header and in the middle of one.
LEMMA PacketSent ==
    ASSUME NEW s \in Seq(Items), NEW n \in Int, NEW t, t = s \o <<"DATA", "body">>
    PROVE  /\ AtHeader(s, n) /\ Len(s) = 2 * n => AtHeader(t, n + 1) /\ Len(t) = 2 * (n + 1)
           /\ AtBody(s, n) /\ Len(s) = 2 * n - 1 => AtBody(t, n + 1) /\ Len(t) = 2 * (n + 1) - 1
<1>1. PICK m \in Nat : m = Len(s) OBVIOUS
<1>2. /\ Len(t) = m + 2 /\ (\A i \in 1 .. m : t[i] = s[i]) /\ t[m + 1] = "DATA" /\ t[m + 2] = "body"
  BY <1>1
<1>3. ASSUME AtHeader(s, n), m = 2 * n PROVE AtHeader(t, n + 1) /\ Len(t) = 2 * (n + 1)
  <2>1. n >= 0 /\ \A j \in 1 .. n : s[2 * j - 1] = "DATA" /\ s[2 * j] = "body" BY <1>3 DEF AtHeader
  <2>2. ASSUME NEW j \in 1 .. n + 1 PROVE t[2 * j - 1] = "DATA" /\ t[2 * j] = "body"
    <3>1. CASE j \in 1 .. n
      <4>1. 2 * j - 1 \in 1 .. m /\ 2 * j \in 1 .. m BY <1>3, <2>1, <3>1
      <4> QED BY <1>2, <2>1, <3>1, <4>1
    <3>2. CASE j = n + 1
      <4>1. 2 * j - 1 = m + 1 /\ 2 * j = m + 2 BY <1>3, <3>2
      <4> QED BY <1>2, <4>1
    <3>3. j \in 1 .. n \/ j = n + 1 OBVIOUS
    <3> QED BY <3>1, <3>2, <3>3
  <2>3. n + 1 >= 0 /\ m + 2 = 2 * (n + 1) BY <1>3, <2>1
  <2> QED BY <1>2, <2>2, <2>3 DEF AtHeader
<1>4. ASSUME AtBody(s, n), m = 2 * n - 1 PROVE AtBody(t, n + 1) /\ Len(t) = 2 * (n + 1) - 1
  <2>1. n >= 1 /\ \A j \in 1 .. n : s[2 * j - 1] = "body" /\ (j < n => s[2 * j] = "DATA") BY <1>4 DEF AtBody
  <2>2. ASSUME NEW j \in 1 .. n + 1 PROVE t[2 * j - 1] = "body" /\ (j < n + 1 => t[2 * j] = "DATA")
    <3>1. CASE j \in 1 .. n /\ j < n
      <4>1. 2 * j - 1 \in 1 .. m /\ 2 * j \in 1 .. m BY <1>4, <2>1, <3>1
      <4> QED BY <1>2, <2>1, <3>1, <4>1
    <3>2. CASE j = n
      <4>1. 2 * j - 1 \in 1 .. m /\ 2 * j = m + 1 /\ j \in 1 .. n BY <1>4, <2>1, <3>2
      <4> QED BY <1>2, <2>1, <4>1
    <3>3. CASE j = n + 1
      <4>1. 2 * j - 1 = m + 2 /\ ~(j < n + 1) BY <1>4, <3>3
      <4> QED BY <1>2, <4>1
    <3>4. (j \in 1 .. n /\ j < n) \/ j = n \/ j = n + 1 OBVIOUS
    <3> QED BY <3>1, <3>2, <3>3, <3>4
  <2>3. n + 1 >= 1 /\ m + 2 = 2 * (n + 1) - 1 BY <1>4, <2>1
  <2> QED BY <1>2, <2>2, <2>3 DEF AtBody
<1> QED BY <1>1, <1>3, <1>4

\* Another item after which the device sends no packet.
LEMMA ItemSent ==
    ASSUME NEW s \in Seq(Items), NEW n \in Int, NEW x \in Items, NEW t, t = s \o <<x>>
    PROVE  /\ AtHeader(s, n) /\ Len(s) = 2 * n => AtHeader(t, n)
           /\ AtBody(s, n) /\ Len(s) = 2 * n - 1 => AtBody(t, n)
<1>1. PICK m \in Nat : m = Len(s) OBVIOUS
<1>2. Len(t) = m + 1 /\ (\A i \in 1 .. m : t[i] = s[i]) BY <1>1
<1>3. ASSUME AtHeader(s, n), m = 2 * n PROVE AtHeader(t, n)
  <2>1. n >= 0 /\ \A j \in 1 .. n : s[2 * j - 1] = "DATA" /\ s[2 * j] = "body" BY <1>3 DEF AtHeader
  <2>2. \A j \in 1 .. n : 2 * j - 1 \in 1 .. m /\ 2 * j \in 1 .. m BY <1>3, <2>1
  <2> QED BY <1>2, <1>3, <2>1, <2>2 DEF AtHeader
<1>4. ASSUME AtBody(s, n), m = 2 * n - 1 PROVE AtBody(t, n)
  <2>1. n >= 1 /\ \A j \in 1 .. n : s[2 * j - 1] = "body" /\ (j < n => s[2 * j] = "DATA") BY <1>4 DEF AtBody
  <2>2. \A j \in 1 .. n : 2 * j - 1 \in 1 .. m /\ (j < n => 2 * j \in 1 .. m) BY <1>4, <2>1
  <2>3. m + 1 = 2 * n BY <1>4
  <2> QED BY <1>2, <2>1, <2>2, <2>3 DEF AtBody
<1> QED BY <1>1, <1>3, <1>4

\* What a step of the device may do to the operation of its stream.
LEMMA DeviceInv ==
    ASSUME ClientInv, NEW o \in Callers, UNCHANGED sameHost, transport = "open", stream[o] \in {"opening", "open"},
           stream' \in [Callers -> {"none", "opening", "refused", "open", "eof", "closed"}],
           inbox' \in [Callers -> Seq(Items)], sent' \in [Callers -> 0 .. Size], final' \in [Callers -> BOOLEAN],
           remote' \in [Callers -> {"absent", "partial", "complete"}], installed' \subseteq Callers, installed \subseteq installed',
           \A p \in Callers \ {o} : /\ stream'[p] = stream[p] /\ inbox'[p] = inbox[p] /\ sent'[p] = sent[p]
                                    /\ final'[p] = final[p] /\ remote'[p] = remote[p],
           IF stream[o] = "opening" THEN stream'[o] \in {"open", "refused"} ELSE stream'[o] \in {"open", "eof"},
           service[o] = "rm" /\ stream'[o] = "eof" => remote'[o] # "complete",
           Reading(o)', Answered(o)'
    PROVE  ClientInv'
<1>0. UNCHANGED <<connectVars, kind, overwrite, service, pc, ctx, late, got, pmOutput, result, file>>
  BY DEF sameHost, callVars
<1>u. UNCHANGED transport BY <1>0 DEF connectVars
<1>1. OpInv(o) BY DEF ClientInv
<1>2. pc[o] \notin Quiet /\ result[o] = "none" /\ (stream[o] = "opening" => pc[o] = "await") BY <1>1 DEF OpInv, Placed, Quiet
<1>3. phase = "connected" BY <1>2, Begun DEF Quiet
<1>4. OpType' /\ WorldType' BY <1>0, OpTypes DEF OpType, WorldType
<1>5. Only(o) /\ Writes(o) BY <1>0 DEF Only, Writes
<1>6. Placed(o)'
  <2>1. Place(o)' BY <1>0, <1>1 DEF OpInv, Placed, Place
  <2> QED BY <1>0, <1>1, <1>2, <2>1 DEF OpInv, Placed
<1>7. CleansUp(o)' /\ Succeeded(o)' BY <1>0, <1>2 DEF CleansUp, Succeeded
<1>8. Owns(o)' BY <1>0, <1>1, <1>2 DEF OpInv, Owns, Clobbered
<1> QED BY <1>0, <1>3, <1>4, <1>5, <1>6, <1>7, <1>8, <1>u, StepTypes, StepInv

LEMMA AcceptsInv == ASSUME ClientInv, NEW o \in Callers, deviceAccepts(o) PROVE ClientInv'
<1>1. PICK s \in {"open", "refused"} : stream' = [stream EXCEPT ![o] = s] BY DEF deviceAccepts
<1>0. transport = "open" /\ stream[o] = "opening" /\ UNCHANGED <<sameHost, inbox, sent, final, remote, installed>>
  BY DEF deviceAccepts
<1>2. OpInv(o) /\ pc[o] = "await" BY <1>0 DEF ClientInv, OpInv, Placed, Quiet
<1>3. /\ stream' \in [Callers -> {"none", "opening", "refused", "open", "eof", "closed"}] /\ stream'[o] = s
      /\ \A p \in Callers \ {o} : stream'[p] = stream[p]
  BY <1>1, OpTypes
<1>4. UNCHANGED <<pc, service, got, pmOutput>> BY <1>0 DEF sameHost
<1>5. Reading(o)' BY <1>0, <1>2, <1>4 DEF OpInv, Reading
<1>6. Answered(o)' BY <1>0, <1>2, <1>4 DEF OpInv, Answered
<1> QED BY <1>0, <1>3, <1>5, <1>6, OpTypes, DeviceInv

\* The items a device writes, and where a pull can be that is sent them.
LEMMA SendsInv == ASSUME ClientInv, NEW o \in Callers, deviceSends(o) PROVE ClientInv'
<1>0. /\ transport = "open" /\ stream[o] = "open" /\ ~final[o] /\ sent[o] < Size /\ service[o] \in {"shell", "RECV"}
      /\ sent' = [sent EXCEPT ![o] = sent[o] + 1] /\ UNCHANGED <<sameHost, stream, final, remote, installed>>
  BY OpTypes DEF deviceSends, CanWrite
<1>1. PICK items \in {<<"out">>, <<"DATA", "body">>} :
        DeviceWrites(o, items) /\ items = IF service[o] = "shell" THEN <<"out">> ELSE <<"DATA", "body">>
  BY DEF deviceSends
<1>2. items \in Seq(Items)
  <2>1. "out" \in Items /\ "DATA" \in Items /\ "body" \in Items BY DEF Items
  <2>2. <<"out">> \in Seq(Items) /\ <<"DATA", "body">> \in Seq(Items) BY <2>1
  <2> QED BY <1>1, <2>2
<1>w. /\ inbox' \in [Callers -> Seq(Items)] /\ \A p \in Callers \ {o} : inbox'[p] = inbox[p]
      /\ \A i \in 1 .. Len(inbox'[o]) : \/ \E j \in 1 .. Len(inbox[o]) : inbox'[o][i] = inbox[o][j]
                                        \/ \E j \in 1 .. Len(items) : inbox'[o][i] = items[j]
  BY <1>1, <1>2, DeviceWrote
<1>3. OpInv(o) /\ pc[o] \notin Quiet BY <1>0 DEF ClientInv, OpInv, Placed
<1>4. PICK n \in 0 .. Size : n = sent[o] + 1
  <2>1. sent[o] \in 0 .. Size /\ Size \in Nat BY OpTypes, ClientAssumption
  <2> QED BY <1>0, <2>1
<1>5. sent' \in [Callers -> 0 .. Size] /\ sent'[o] = n /\ \A p \in Callers \ {o} : sent'[p] = sent[p]
  <2>1. sent' = [sent EXCEPT ![o] = n] BY <1>0, <1>4
  <2> QED BY <2>1, OpTypes
<1>6. UNCHANGED <<pc, service, got, pmOutput>> BY <1>0 DEF sameHost
<1>7. Answered(o)'
  <2>1. \A i \in 1 .. Len(items) : items[i] \notin {"OKAY", "Success"} BY <1>1
  <2> QED BY <1>0, <1>3, <1>6, <1>w, <2>1 DEF OpInv, Answered
<1>8. Reading(o)'
  <2>1. CASE service[o] = "shell"
    <3>1. pc[o] \in {"await", "copy"} BY <1>3, <2>1 DEF OpInv, Placed, Place, Quiet
    <3>2. PICK m \in Nat, g \in Nat, k \in Nat : m = Len(inbox[o]) /\ g = got[o] /\ k = sent[o] BY OpTypes
    <3>3. k = g + m BY <1>3, <2>1, <3>1, <3>2 DEF OpInv, Reading
    <3>4. Len(inbox'[o]) = m + 1 BY <1>1, <1>2, <2>1, <3>2, DeviceWrote
    <3>5. n = g + (m + 1) BY <1>4, <3>2, <3>3
    <3>6. sent'[o] = got'[o] + Len(inbox'[o]) BY <1>5, <1>6, <3>2, <3>4, <3>5
    <3> QED BY <1>6, <2>1, <3>1, <3>6 DEF Reading
  <2>2. CASE service[o] = "RECV"
    <3>1. PICK s \in Seq(Items), k \in Int : s = inbox[o] /\ k = sent[o] - got[o] BY OpTypes
    <3>2. sent'[o] - got'[o] = k + 1
      <4>1. sent[o] \in Int /\ got[o] \in Int BY OpTypes
      <4> QED BY <1>4, <1>5, <1>6, <3>1, <4>1
    <3>3. inbox'[o] = s \o <<"DATA", "body">> BY <1>1, <1>2, <2>2, <3>1, DeviceWrote
    <3>4. pc[o] \in {"header", "nextHeader", "createOut", "copyN"}
      BY <1>0, <1>3, <2>2 DEF OpInv, Placed, Place, Quiet, Reading
    <3>5. pc[o] \in {"header", "createOut"} => got'[o] = 0 BY <1>3, <1>6 DEF OpInv, Reading
    <3>6. CASE pc[o] \in {"header", "nextHeader"}
      <4>1. AtHeader(s, k) /\ Len(s) = 2 * k BY <1>0, <1>3, <3>1, <3>6 DEF OpInv, Reading
      <4>2. AtHeader(inbox'[o], k + 1) /\ Len(inbox'[o]) = 2 * (k + 1) BY <3>3, <4>1, PacketSent
      <4>3. AtHeader(inbox[o], sent[o] - got[o])' BY <3>2, <4>2 DEF AtHeader
      <4> QED BY <1>6, <2>2, <3>2, <3>5, <3>6, <4>2, <4>3 DEF Reading
    <3>7. CASE pc[o] \in {"createOut", "copyN"}
      <4>1. AtBody(s, k) /\ Len(s) = 2 * k - 1 BY <1>0, <1>3, <3>1, <3>7 DEF OpInv, Reading
      <4>2. AtBody(inbox'[o], k + 1) /\ Len(inbox'[o]) = 2 * (k + 1) - 1 BY <3>3, <4>1, PacketSent
      <4>3. AtBody(inbox[o], sent[o] - got[o])' BY <3>2, <4>2 DEF AtBody
      <4> QED BY <1>6, <2>2, <3>2, <3>5, <3>7, <4>2, <4>3 DEF Reading
    <3> QED BY <3>4, <3>6, <3>7
  <2> QED BY <1>0, <2>1, <2>2
<1>9. stream'[o] = "open" BY <1>0
<1>10. stream' \in [Callers -> {"none", "opening", "refused", "open", "eof", "closed"}] /\ final' \in [Callers -> BOOLEAN]
       /\ remote' \in [Callers -> {"absent", "partial", "complete"}] /\ installed' \subseteq Callers
  BY <1>0, OpTypes
<1> QED BY <1>0, <1>5, <1>7, <1>8, <1>9, <1>10, <1>w, DeviceInv

\* The last item of a pull comes after the packets that were sent.
LEMMA LastRead ==
    ASSUME ClientInv, NEW o \in Callers, stream[o] = "open", ~final[o], NEW x \in Items, DeviceWrites(o, <<x>>),
           service[o] \in {"RECV", "DONE", "SEND", "pm"}, UNCHANGED <<sent, got, pc, service>>,
           final'[o] \/ stream'[o] # "open"
    PROVE  Reading(o)'
<1>1. OpInv(o) /\ pc[o] \notin Quiet BY DEF ClientInv, OpInv, Placed
<1>2. CASE service[o] = "RECV"
  <2>1. pc[o] \in {"header", "nextHeader", "createOut", "copyN"} BY <1>1, <1>2 DEF OpInv, Placed, Place, Quiet, Reading
  <2>2. PICK s \in Seq(Items), k \in Int : s = inbox[o] /\ k = sent[o] - got[o] BY OpTypes
  <2>3. inbox'[o] = s \o <<x>> /\ sent'[o] - got'[o] = k
    <3>1. <<x>> \in Seq(Items) OBVIOUS
    <3> QED BY <2>2, <3>1, DeviceWrote
  <2>4. pc[o] \in {"header", "createOut"} => got'[o] = 0 BY <1>1 DEF OpInv, Reading
  <2>5. CASE pc[o] \in {"header", "nextHeader"}
    <3>1. AtHeader(s, k) /\ Len(s) = 2 * k BY <1>1, <2>2, <2>5 DEF OpInv, Reading
    <3>2. AtHeader(inbox'[o], k) BY <2>3, <3>1, ItemSent
    <3>3. AtHeader(inbox[o], sent[o] - got[o])' BY <2>3, <3>2 DEF AtHeader
    <3> QED BY <1>2, <2>4, <2>5, <3>3 DEF Reading
  <2>6. CASE pc[o] \in {"createOut", "copyN"}
    <3>1. AtBody(s, k) /\ Len(s) = 2 * k - 1 BY <1>1, <2>2, <2>6 DEF OpInv, Reading
    <3>2. AtBody(inbox'[o], k) BY <2>3, <3>1, ItemSent
    <3>3. AtBody(inbox[o], sent[o] - got[o])' BY <2>3, <3>2 DEF AtBody
    <3> QED BY <1>2, <2>4, <2>6, <3>3 DEF Reading
  <2> QED BY <2>1, <2>5, <2>6
<1>3. CASE service[o] # "RECV"
  <2>1. pc[o] \in {"data", "writeDone", "response", "await", "copy"} BY <1>1, <1>3 DEF OpInv, Placed, Place, Quiet
  <2> QED BY <1>1, <1>3, <2>1 DEF OpInv, Reading
<1> QED BY <1>2, <1>3

LEMMA AnswersInv == ASSUME ClientInv, NEW o \in Callers, deviceAnswers(o) PROVE ClientInv'
<1>0. transport = "open" /\ stream[o] = "open" /\ ~final[o] /\ UNCHANGED sameHost BY DEF deviceAnswers, CanWrite
<1>1. PICK x \in Items :
        /\ LastItem(o, x) /\ service[o] \in {"RECV", "DONE", "SEND", "pm"}
        /\ \/ x \in {"DONE", "FAIL", "Failure"} /\ UNCHANGED <<remote, installed>>
           \/ /\ x = "OKAY" /\ service[o] = "DONE" /\ UNCHANGED installed
              /\ remote' = [remote EXCEPT ![o] = IF sent[o] = Size THEN "complete" ELSE remote[o]]
           \/ x = "FAIL" /\ UNCHANGED installed /\ \E r \in {"absent", "partial"} : remote' = [remote EXCEPT ![o] = r]
           \/ x = "Success" /\ service[o] = "pm" /\ installed' = installed \cup {o} /\ UNCHANGED remote
  <2>1. {"DONE", "FAIL", "OKAY", "Success", "Failure"} \subseteq Items BY DEF Items
  <2> QED BY <2>1, OpTypes DEF deviceAnswers
<1>2. /\ DeviceWrites(o, <<x>>) /\ final' = [final EXCEPT ![o] = TRUE] /\ UNCHANGED <<stream, sent>> /\ <<x>> \in Seq(Items)
  BY <1>1 DEF LastItem
<1>3. OpInv(o) BY DEF ClientInv
<1>4. UNCHANGED <<pc, service, got, pmOutput>> BY <1>0 DEF sameHost
<1>5. final' \in [Callers -> BOOLEAN] /\ final'[o] = TRUE /\ \A p \in Callers \ {o} : final'[p] = final[p] BY <1>2, OpTypes
<1>6. /\ remote' \in [Callers -> {"absent", "partial", "complete"}] /\ (\A p \in Callers \ {o} : remote'[p] = remote[p])
      /\ x = "OKAY" => remote'[o] = "complete"
  <2>0. remote \in [Callers -> {"absent", "partial", "complete"}] BY OpTypes
  <2>1. CASE x = "OKAY"
    <3>1. sent[o] = Size BY <1>1, <1>3, <2>1 DEF OpInv, Reading
    <3>2. remote' = [remote EXCEPT ![o] = "complete"] BY <1>1, <2>1, <3>1
    <3> QED BY <2>0, <3>2
  <2>2. CASE x # "OKAY"
    <3>1. remote' = remote \/ \E r \in {"absent", "partial"} : remote' = [remote EXCEPT ![o] = r] BY <1>1, <2>2
    <3> QED BY <2>0, <2>2, <3>1
  <2> QED BY <2>1, <2>2
<1>7. installed' \subseteq Callers /\ installed \subseteq installed' /\ (x = "Success" => o \in installed') BY <1>1, OpTypes
<1>8. Answered(o)'
  <2>1. ASSUME NEW i \in 1 .. Len(inbox'[o])
        PROVE  /\ inbox'[o][i] = "OKAY" /\ service'[o] \in {"SEND", "DONE"} => final'[o] /\ remote'[o] = "complete"
               /\ inbox'[o][i] = "Success" => o \in installed'
    <3>1. (\E j \in 1 .. Len(inbox[o]) : inbox'[o][i] = inbox[o][j]) \/ inbox'[o][i] = x
      <4>1. (\E j \in 1 .. Len(inbox[o]) : inbox'[o][i] = inbox[o][j]) \/ \E j \in 1 .. Len(<<x>>) : inbox'[o][i] = <<x>>[j]
        BY <1>2, DeviceWrote
      <4>2. \A j \in 1 .. Len(<<x>>) : <<x>>[j] = x OBVIOUS
      <4> QED BY <4>1, <4>2
    <3>2. CASE inbox'[o][i] = x BY <1>5, <1>6, <1>7, <3>2
    <3>3. CASE \E j \in 1 .. Len(inbox[o]) : inbox'[o][i] = inbox[o][j]
      BY <1>0, <1>3, <1>4, <1>7, <3>3 DEF OpInv, Answered
    <3> QED BY <3>1, <3>2, <3>3
  <2>2. pmOutput'[o] = "Success" => o \in installed' BY <1>3, <1>4, <1>7 DEF OpInv, Answered
  <2> QED BY <2>1, <2>2 DEF Answered
<1>9. Reading(o)' BY <1>0, <1>1, <1>2, <1>4, <1>5, LastRead
<1>10. stream'[o] = "open" /\ sent' \in [Callers -> 0 .. Size] BY <1>0, <1>2, OpTypes
<1> QED BY <1>0, <1>2, <1>5, <1>6, <1>7, <1>8, <1>9, <1>10, OpTypes, DeviceInv, DeviceWrote

LEMMA EndsInv == ASSUME ClientInv, NEW o \in Callers, deviceEnds(o) PROVE ClientInv'
<1>0. /\ transport = "open" /\ stream[o] = "open" /\ stream' = [stream EXCEPT ![o] = "eof"]
      /\ UNCHANGED <<sameHost, sent, final, installed>>
      /\ remote' = IF service[o] = "rm" THEN [remote EXCEPT ![o] = "absent"] ELSE remote
  BY DEF deviceEnds, CanWrite, EndOfStream
<1>1. OpInv(o) BY DEF ClientInv
<1>2. UNCHANGED <<pc, service, got, pmOutput>> BY <1>0 DEF sameHost
<1>3. /\ stream' \in [Callers -> {"none", "opening", "refused", "open", "eof", "closed"}] /\ stream'[o] = "eof"
      /\ \A p \in Callers \ {o} : stream'[p] = stream[p]
  BY <1>0, OpTypes
<1>4. /\ remote' \in [Callers -> {"absent", "partial", "complete"}] /\ (\A p \in Callers \ {o} : remote'[p] = remote[p])
      /\ IF service[o] = "rm" THEN remote'[o] = "absent" ELSE remote'[o] = remote[o]
  BY <1>0, OpTypes
<1>5. CASE UNCHANGED inbox
  <2>1. Reading(o)' BY <1>0, <1>1, <1>2, <1>3, <1>5 DEF OpInv, Reading, AtHeader, AtBody
  <2>2. Answered(o)' BY <1>0, <1>1, <1>2, <1>4, <1>5 DEF OpInv, Answered
  <2> QED BY <1>0, <1>3, <1>4, <1>5, <2>1, <2>2, OpTypes, DeviceInv
<1>6. CASE service[o] = "RECV" /\ ~final[o] /\ DeviceWrites(o, <<"DATA">>)
  <2>0. "DATA" \in Items /\ <<"DATA">> \in Seq(Items) BY DEF Items
  <2>1. Reading(o)' BY <1>0, <1>2, <1>3, <1>6, <2>0, LastRead
  <2>2. \A j \in 1 .. Len(<<"DATA">>) : <<"DATA">>[j] = "DATA" OBVIOUS
  <2>w. /\ inbox' \in [Callers -> Seq(Items)] /\ \A p \in Callers \ {o} : inbox'[p] = inbox[p]
        /\ \A i \in 1 .. Len(inbox'[o]) : \/ \E j \in 1 .. Len(inbox[o]) : inbox'[o][i] = inbox[o][j]
                                          \/ \E j \in 1 .. Len(<<"DATA">>) : inbox'[o][i] = <<"DATA">>[j]
    BY <1>6, <2>0, DeviceWrote
  <2>3. Answered(o)' BY <1>0, <1>1, <1>2, <1>4, <1>6, <2>2, <2>w DEF OpInv, Answered
  <2>4. sent' \in [Callers -> 0 .. Size] /\ final' \in [Callers -> BOOLEAN] /\ installed' \subseteq Callers BY <1>0, OpTypes
  <2> QED BY <1>0, <1>3, <1>4, <2>1, <2>3, <2>4, <2>w, DeviceInv
<1> QED BY <1>5, <1>6 DEF deviceEnds

\* Another program can only create what is not there.
LEMMA OtherInv == ASSUME ClientInv, otherCreates PROVE ClientInv'
<1>0. file.owner = "absent" /\ file' = [owner |-> Other, chunks |-> {}] /\ UNCHANGED <<connectVars, opVars, remote, installed>>
  BY DEF otherCreates
<1>u. UNCHANGED <<phase, transport, watcher, kind, overwrite, service, stream, inbox, sent, final, pc, ctx, late, got, pmOutput, result>>
  BY <1>0 DEF connectVars, handshakeVars, opVars, callVars, streamVars
<1>a. "absent" \notin Callers BY ClientAssumption
<1>1. file' \in [owner : Callers \cup {Other, "absent"}, chunks : SUBSET (1 .. Size)] BY <1>0
<1>2. TypeOK'
  <2>1. OpType' BY <1>u, OpTypes DEF OpType
  <2>2. WorldType' BY <1>0, <1>1, OpTypes DEF WorldType
  <2> QED BY <1>0, <2>1, <2>2, StepTypes
<1>3. Connecting' BY <1>u DEF ClientInv, Connecting
<1>4. Screenshots' BY <1>0, <1>a, <1>u DEF ClientInv, Screenshots
<1>5. ASSUME NEW o \in Callers PROVE OpInv(o)'
  <2>0. OpInv(o) BY DEF ClientInv
  <2>1. Placed(o)' BY <1>u, <2>0 DEF OpInv, Placed, Place
  <2>2. Reading(o)' BY <1>u, <2>0 DEF OpInv, Reading, AtHeader, AtBody
  <2>3. Answered(o)' /\ CleansUp(o)' /\ Succeeded(o)' BY <1>0, <1>u, <2>0 DEF OpInv, Answered, CleansUp, Succeeded
  <2>4. Owns(o)' BY <1>0, <1>a, <1>u, <2>0 DEF OpInv, Owns, Clobbered
  <2> QED BY <2>1, <2>2, <2>3, <2>4 DEF OpInv
<1> QED BY <1>2, <1>3, <1>4, <1>5 DEF ClientInv

-----------------------------------------------------------------------------
(* The client.                                                             *)

LEMMA ClientNextInv == ClientInv /\ [Next]_vars => ClientInv'
<1> SUFFICES ASSUME ClientInv, [Next]_vars PROVE ClientInv' OBVIOUS
<1>1. CASE UNCHANGED vars
  <2>1. UNCHANGED <<opVars, worldVars, phase, silent, answer, credentialIndex, publicKeyOffered, connectCtx, watcher, transport>>
    BY <1>1 DEF vars, connectVars, handshakeVars
  <2>2. UNCHANGED pc BY <2>1 DEF opVars
  <2>3. ConnectType' /\ Connecting' BY <2>1, <2>2 DEF ClientInv, TypeOK, ConnectType, Connecting
  <2> QED BY <2>1, <2>3, ConnectInv
<1>2. CASE \/ ConnectStep \/ cancelWatch \/ connectCanceled \/ clientClose
              \/ deviceGreets \/ deviceStalls \/ deviceLost
  BY <1>2, ConnectSteps
<1>3. CASE otherCreates BY <1>3, OtherInv
<1>4. ASSUME NEW o \in Callers, start(o) \/ canceled(o) \/ cleanupTimeout(o) \/ cancelCloses(o) PROVE ClientInv'
  BY <1>4, StartInv, CanceledInv, CancelClosesInv
<1>5. ASSUME NEW o \in Callers, DeviceStep(o) PROVE ClientInv'
  BY <1>5, AcceptsInv, SendsInv, AnswersInv, EndsInv DEF DeviceStep
<1>6. ASSUME NEW o \in Callers, OpStep(o) PROVE ClientInv'
  <2>1. CASE stat(o) \/ source(o) \/ OpenService(o) \/ sendOpen(o) \/ opened(o) \/ openFails(o)
    BY <2>1, SourceInv, OpenInv, SendOpenInv, OpenedInv, OpenFailsInv
  <2>2. CASE copy(o) \/ copyEnds(o) \/ createPng(o) \/ writePng(o) \/ closeService(o)
    BY <2>2, CopyInv, CopyEndsInv, CreatePngInv, WritePngInv, RebootInv
  <2>3. CASE recv(o) \/ readSyncHeader(o) \/ createOut(o) \/ copyN(o) \/ readSyncFails(o)
    BY <2>3, RecvInv, HeaderInv, CreateInv, CopyNInv, ReadFailsInv
  <2>4. CASE send(o) \/ data(o) \/ writeDone(o) \/ response(o)
    BY <2>4, SendInv, DataInv, ResponseInv
  <2> QED BY <1>6, <2>1, <2>2, <2>3, <2>4 DEF OpStep
<1> QED BY <1>1, <1>2, <1>3, <1>4, <1>5, <1>6 DEF Next

\* What NoClobber says of one step.
Unclobbered ==
    \A o \in Callers \cup {Other} : file.owner = o /\ file'.owner # o =>
      \/ file'.owner \in Callers /\ overwrite[file'.owner]
      \/ file'.owner = "absent" /\ (pc[o] = "writePng" \/ (o \in Callers /\ overwrite[o]))

LEMMA NextUnclobbered == ASSUME ClientInv, [Next]_vars PROVE Unclobbered
<1>a. "absent" \notin Callers \cup {Other} BY ClientAssumption
<1>1. ASSUME UNCHANGED file PROVE Unclobbered BY <1>1 DEF Unclobbered
<1>2. ASSUME file.owner = "absent" PROVE Unclobbered BY <1>a, <1>2 DEF Unclobbered
<1>3. CASE UNCHANGED vars BY <1>1, <1>3 DEF vars, worldVars
<1>4. CASE \/ ConnectStep \/ cancelWatch \/ connectCanceled \/ clientClose
              \/ deviceGreets \/ deviceStalls \/ deviceLost
  <2>1. UNCHANGED worldVars
    BY <1>4 DEF ConnectStep, dial, handshake, writeCnxn, readCnxn, readFails, authReply, authFails, cancelWatch,
                connectCanceled, clientClose, deviceGreets, deviceStalls, deviceLost
  <2> QED BY <1>1, <2>1 DEF worldVars
<1>5. CASE otherCreates BY <1>2, <1>5 DEF otherCreates
<1>6. ASSUME NEW p \in Callers, start(p) \/ canceled(p) \/ cleanupTimeout(p) \/ cancelCloses(p) PROVE Unclobbered
  <2>1. UNCHANGED worldVars BY <1>6 DEF start, canceled, cleanupTimeout, cancelCloses
  <2> QED BY <1>1, <2>1 DEF worldVars
<1>7. ASSUME NEW p \in Callers, DeviceStep(p) PROVE Unclobbered
  <2>1. UNCHANGED sameHost BY <1>7 DEF DeviceStep, deviceAccepts, deviceSends, deviceAnswers, deviceEnds
  <2> QED BY <1>1, <2>1 DEF sameHost
<1>8. ASSUME NEW p \in Callers, OpStep(p) PROVE Unclobbered
  <2>1. CASE stat(p) \/ source(p) \/ OpenService(p) \/ sendOpen(p) \/ opened(p) \/ openFails(p) \/ copy(p) \/ copyEnds(p) \/ closeService(p)
    <3>1. UNCHANGED worldVars BY <2>1 DEF stat, source, OpenService, sendOpen, opened, openFails, copy, copyEnds, closeService
    <3> QED BY <1>1, <3>1 DEF worldVars
  <2>2. CASE recv(p) \/ readSyncHeader(p) \/ readSyncFails(p) \/ send(p) \/ data(p) \/ writeDone(p) \/ response(p)
    <3>1. UNCHANGED file BY <2>2 DEF recv, readSyncHeader, readSyncFails, send, data, writeDone, response, worldVars
    <3> QED BY <1>1, <3>1
  <2>3. CASE createPng(p) BY <1>1, <1>2, <2>3 DEF createPng
  <2>4. CASE writePng(p)
    <3>1. pc[p] = "writePng" /\ (file'.owner = file.owner \/ file'.owner = "absent") BY <2>4, OpTypes DEF writePng
    <3>2. file.owner = p \/ (file.owner \in Callers /\ overwrite[file.owner]) BY <3>1 DEF ClientInv, Screenshots
    <3> QED BY <3>1, <3>2 DEF Unclobbered
  <2>5. CASE createOut(p)
    <3>1. CASE file' = [owner |-> p, chunks |-> {}] /\ mayCreate(p) BY <1>2, <3>1 DEF mayCreate, Unclobbered
    <3> QED BY <1>1, <2>5, <3>1 DEF createOut
  <2>6. CASE copyN(p)
    <3>1. file'.owner = file.owner BY <2>6, OpTypes DEF copyN
    <3> QED BY <3>1 DEF Unclobbered
  <2> QED BY <1>8, <2>1, <2>2, <2>3, <2>4, <2>5, <2>6 DEF OpStep
<1> QED BY <1>3, <1>4, <1>5, <1>6, <1>7, <1>8 DEF Next

\* The invariant of the client alone: what an operation has read, what the device
\* has answered and who owns the destination agree in every state.
THEOREM ClientInvariant == Spec => []ClientInv
<1>1. Init => ClientInv BY ClientInitInv
<1>2. ClientInv /\ [Next]_vars => ClientInv' BY ClientNextInv
<1> QED BY <1>1, <1>2, PTL DEF Spec

\* Client operations that report success have done all of it (Run, Pull, Push,
\* InstallAPK, Screencap), and neither a failed connect nor an installation that was
\* cut off leaves anything behind, for any number of concurrent operations.
THEOREM ClientOperations == Spec => [](SuccessMeansDone /\ LeavesNothingBehind)
<1>1. ClientInv => SuccessMeansDone /\ LeavesNothingBehind BY ClientProperties
<1> QED BY <1>1, ClientInvariant, PTL

\* No operation replaces or removes a local file that is not its own, unless it was
\* told to overwrite it.
THEOREM ClientNoClobber == Spec => NoClobber
<1>1. ClientInv /\ [Next]_vars => [Unclobbered]_vars BY NextUnclobbered
<1> QED BY <1>1, ClientInvariant, PTL DEF Spec, NoClobber, Unclobbered

-----------------------------------------------------------------------------
(* The forward: its types, and the steps of the client below it.             *)

SessionType ==
    /\ main \in {"connect", "wait", "close", "listener", "active", "closeClient", "exited"} /\ exit \in {0, 1}
    /\ listener \in {"none", "open", "closed"}
    /\ acceptor \in {"none", "accept", "drain", "done"} /\ acceptErr \in BOOLEAN
    /\ watch \in {"none", "wait", "listener", "active", "ended"} /\ cancelled \in BOOLEAN
CloseType ==
    closed \in BOOLEAN /\ active \subseteq {"conn", "stream"} \X Conns /\ todo \subseteq {"conn", "stream"} \X Conns
BridgeType ==
    /\ at \in [Conns -> {"none", "accepted", "open", "openPayload", "await", "addConn", "addStream", "closeLate",
                         "copy", "bridge", "ended"}]
    /\ conn \in [Conns -> {"none", "open", "closed"}]
    /\ adb \in [Conns -> {"none", "opening", "refused", "open", "closed"}]
    /\ copying \in [Conns -> [Ways -> {"none", "copy", "payload", "over", "ended"}]]
    /\ once \in [Conns -> Ways \cup {Nobody, "done"}]
WireType ==
    /\ reader \in {"none", "idle", "reading", "acknowledge", "dead"}
    /\ writer \in {Nobody} \cup ({"open", "wrte"} \X Conns) /\ due \in {Nobody} \cup ({"open", "wrte"} \X Conns)
    /\ cut \in BOOLEAN /\ misframed \in BOOLEAN

\* writeMu is locked by who is in the middle of a message.
Writing(b) ==
    /\ writer = Open(b) <=> at[b] = "openPayload"
    /\ writer = Wrte(b) <=> copying[b].up = "payload"

LEMMA ForwardTypes ==
    ForwardTypeOK <=> /\ TypeOK /\ command \in {"operation", "forward"} /\ link \in {"tcp", "usb"}
                      /\ SessionType /\ CloseType /\ BridgeType /\ WireType /\ \A b \in Conns : Writing(b)
  BY DEF ForwardTypeOK, SessionType, CloseType, BridgeType, WireType, Writing

\* The parts of the invariant.
LEMMA ForwardParts ==
    ForwardInv <=> /\ ClientInv /\ command \in {"operation", "forward"} /\ link \in {"tcp", "usb"}
                   /\ SessionType /\ CloseType /\ BridgeType /\ WireType /\ Unstarted /\ OneClose /\ Frames
                   /\ \A b \in Conns : Writing(b) /\ Served(b) /\ Registered(b)
  BY ForwardTypes DEF ForwardInv, ClientInv

LEMMA NextParts ==
    ASSUME ClientInv', (command \in {"operation", "forward"} /\ link \in {"tcp", "usb"})',
           SessionType', CloseType', BridgeType', WireType', Unstarted', OneClose', Frames',
           \A b \in Conns : (Writing(b) /\ Served(b) /\ Registered(b))'
    PROVE  ForwardInv'
  BY DEF ForwardInv, ClientInv, ForwardTypeOK, SessionType, CloseType, BridgeType, WireType, Writing

LEMMA ForwardInitInv == ForwardInit => ForwardInv
<1> SUFFICES ASSUME ForwardInit PROVE ForwardInv OBVIOUS
<1>1. ClientInv BY ClientInitInv DEF ForwardInit
<1>2. SessionType BY DEF ForwardInit, SessionType
<1>3. CloseType BY DEF ForwardInit, CloseType
<1>4. BridgeType BY DEF ForwardInit, BridgeType
<1>5. WireType BY DEF ForwardInit, WireType
<1>6. Unstarted BY DEF ForwardInit, Unstarted
<1>7. OneClose BY DEF ForwardInit, OneClose, Closing
<1>8. Frames BY DEF ForwardInit, Frames, Framed
<1>9. ASSUME NEW b \in Conns PROVE Writing(b) /\ Served(b) /\ Registered(b)
  <2>1. /\ at[b] = "none" /\ conn[b] = "none" /\ adb[b] = "none" /\ once[b] = Nobody /\ active = {} /\ todo = {}
        /\ (\A w \in Ways : copying[b][w] = "none") /\ writer = Nobody
    BY DEF ForwardInit
  <2>2. "up" \in Ways BY DEF Ways
  <2>3. Open(b) # Nobody /\ Wrte(b) # Nobody BY ForwardAssumption DEF Open, Wrte
  <2>4. Writing(b) BY <2>1, <2>2, <2>3 DEF Writing
  <2>5. Nobody # "done" BY ForwardAssumption
  <2> QED BY <2>1, <2>4, <2>5 DEF Served, Registered
<1> QED BY <1>1, <1>2, <1>3, <1>4, <1>5, <1>6, <1>7, <1>8, <1>9, ForwardParts DEF ForwardInit

\* A step of the client that keeps its connection.
LEMMA BelowInv ==
    ASSUME ForwardInv, ClientInv', UNCHANGED forwardVars, phase \in {"connected", "failed"} => phase' = phase,
           transport' = "open" => transport = "open" \/ phase = "dial"
    PROVE  ForwardInv'
<1>0. UNCHANGED <<command, link, main, exit, listener, acceptor, acceptErr, watch, cancelled, closed, active, todo,
                  at, conn, adb, copying, once, reader, writer, due, cut, misframed>>
  BY DEF forwardVars, sessionVars, closeVars, bridgeVars, wireVars
<1>1. SessionType' /\ CloseType' /\ BridgeType' /\ WireType'
  BY <1>0, ForwardParts DEF SessionType, CloseType, BridgeType, WireType
<1>2. Unstarted' BY <1>0, ForwardParts DEF Unstarted
<1>3. OneClose' BY <1>0, ForwardParts DEF OneClose, Closing
<1>4. phase = "dial" => main = "connect" BY ForwardParts DEF Unstarted
<1>5. Frames' BY <1>0, <1>4, ForwardParts DEF Frames, Framed, Unstarted
<1>6. ASSUME NEW b \in Conns PROVE (Writing(b) /\ Served(b) /\ Registered(b))'
  <2>1. Writing(b) /\ Served(b) /\ Registered(b) BY ForwardParts
  <2> QED BY <1>0, <2>1 DEF Writing, Open, Wrte, Served, Registered
<1>7. (command \in {"operation", "forward"} /\ link \in {"tcp", "usb"})' BY <1>0, ForwardParts
<1> QED BY <1>1, <1>2, <1>3, <1>5, <1>6, <1>7, NextParts

\* Once it has one, or has failed to get one, a client keeps its connection.
LEMMA PhaseKept ==
    ASSUME [Next]_vars
    PROVE  /\ phase \in {"connected", "failed"} => phase' = phase
           /\ transport' = "open" => transport = "open" \/ phase = "dial"
<1>1. ASSUME UNCHANGED connectVars PROVE UNCHANGED <<phase, transport>> BY <1>1 DEF connectVars, handshakeVars
<1>2. CASE UNCHANGED vars BY <1>1, <1>2 DEF vars
<1>3. CASE ConnectStep
  BY <1>3 DEF ConnectStep, dial, handshake, writeCnxn, readCnxn, readFails, authReply, authFails, handshakeFails, HandshakeEnds
<1>4. CASE cancelWatch \/ connectCanceled \/ clientClose \/ deviceGreets \/ deviceStalls \/ deviceLost
  BY <1>4 DEF cancelWatch, connectCanceled, clientClose, deviceGreets, deviceStalls, deviceLost, handshakeVars,
              ConnectionClose
<1>5. CASE otherCreates BY <1>1, <1>5 DEF otherCreates
<1>6. ASSUME NEW p \in Callers, start(p) \/ canceled(p) \/ cleanupTimeout(p) \/ cancelCloses(p) PROVE UNCHANGED <<phase, transport>>
  BY <1>1, <1>6 DEF start, canceled, cleanupTimeout, cancelCloses
<1>7. ASSUME NEW p \in Callers, DeviceStep(p) PROVE UNCHANGED <<phase, transport>>
  BY <1>1, <1>7 DEF DeviceStep, deviceAccepts, deviceSends, deviceAnswers, deviceEnds, sameHost
<1>8. ASSUME NEW p \in Callers, OpStep(p) PROVE UNCHANGED <<phase, transport>>
  <2>1. UNCHANGED connectVars
    BY <1>8 DEF OpStep, stat, source, OpenService, sendOpen, opened, openFails, copy, copyEnds, createPng, writePng, closeService,
                recv, readSyncHeader, createOut, copyN, readSyncFails, send, data, writeDone, response, sameRead, sameCall
  <2> QED BY <1>1, <2>1
<1> QED BY <1>2, <1>3, <1>4, <1>5, <1>6, <1>7, <1>8 DEF Next

LEMMA BelowSteps ==
    ASSUME ForwardInv, UNCHANGED forwardVars, [Next]_vars
    PROVE  ForwardInv'
<1>1. ClientInv' BY ClientNextInv DEF ForwardInv
<1> QED BY <1>1, BelowInv, PhaseKept

LEMMA InterruptInv == ASSUME ForwardInv, interrupt \/ usbCancel PROVE ForwardInv'
<1>0. /\ UNCHANGED <<phase, silent, answer, credentialIndex, publicKeyOffered, watcher, opVars, worldVars, forwardVars>>
      /\ connectCtx' = connectCtx \/ connectCtx' = TRUE
      /\ transport' \in {transport, "closed"} /\ (phase = "dial" => transport' = transport)
  BY DEF interrupt, usbCancel, handshakeVars, ForwardInv, ClientInv, Connecting, Gone
<1>1. ClientInv /\ ConnectType BY DEF ForwardInv, ClientInv, TypeOK
<1>2. UNCHANGED pc BY <1>0 DEF opVars
<1>3. connectCtx' \in BOOLEAN
  <2>1. connectCtx \in BOOLEAN BY <1>1 DEF ConnectType
  <2> QED BY <1>0, <2>1
<1>4. ConnectType' BY <1>0, <1>1, <1>3 DEF ConnectType
<1>5. Connecting' BY <1>0, <1>1, <1>2 DEF ClientInv, Connecting
<1>6. ClientInv' BY <1>0, <1>1, <1>4, <1>5, ConnectInv
<1> QED BY <1>0, <1>6, BelowInv

-----------------------------------------------------------------------------
(* The wire.                                                               *)

LEMMA Messages ==
    ASSUME NEW b \in Conns
    PROVE  /\ Open(b) \in {"open", "wrte"} \X Conns /\ Wrte(b) \in {"open", "wrte"} \X Conns
           /\ Open(b) # Nobody /\ Wrte(b) # Nobody
           /\ \A c \in Conns : Open(b) # Wrte(c) /\ (Open(b) = Open(c) => b = c) /\ (Wrte(b) = Wrte(c) => b = c)
  BY ForwardAssumption DEF Open, Wrte

\* OKAY and CLSE are whole messages.
LEMMA HeaderOnly ==
    ASSUME ForwardInv, WriteHeaderOnly, UNCHANGED transport
    PROVE  Frames' /\ UNCHANGED <<writer, cut, due>> /\ misframed' \in BOOLEAN
<1>1. Frames /\ WireType BY ForwardParts
<1>2. UNCHANGED <<writer, cut>> /\ writer = Nobody BY DEF WriteHeaderOnly, CanWriteMessage
<1>3. CASE transport = "open" /\ HeaderArrives(Nobody)
  <2>1. misframed' = (misframed \/ due # Nobody) /\ due' = due BY <1>3 DEF HeaderArrives
  <2>2. misframed' \in BOOLEAN BY <1>1, <2>1 DEF WireType
  <2>3. Frames' BY <1>1, <1>2, <1>3, <2>1 DEF Frames, Framed
  <2> QED BY <1>2, <2>1, <2>2, <2>3
<1>4. CASE UNCHANGED <<misframed, due>> BY <1>1, <1>2, <1>4 DEF Frames, Framed, WireType
<1> QED BY <1>3, <1>4 DEF WriteHeaderOnly

\* The first half of a message, and the second, are its own.
LEMMA HeaderSent ==
    ASSUME ForwardInv, NEW m \in {"open", "wrte"} \X Conns, WriteHeader(m), UNCHANGED transport
    PROVE  Frames' /\ WireType' /\ writer = Nobody /\ writer' = m
<1>1. Frames /\ WireType BY ForwardParts
<1>2. /\ writer = Nobody /\ writer' = m /\ transport = "open" /\ UNCHANGED <<reader, cut>>
      /\ misframed' = (misframed \/ due # Nobody) /\ due' = IF due = Nobody THEN m ELSE due
  BY DEF WriteHeader, CanWriteMessage, HeaderArrives
<1>3. misframed' \in BOOLEAN BY <1>1, <1>2 DEF WireType
<1>4. WireType' BY <1>1, <1>2, <1>3 DEF WireType
<1>5. Frames' BY <1>1, <1>2 DEF Frames, Framed
<1> QED BY <1>2, <1>4, <1>5

LEMMA PayloadSent ==
    ASSUME ForwardInv, NEW m \in {"open", "wrte"} \X Conns, WritePayload(m), UNCHANGED transport
    PROVE  Frames' /\ WireType' /\ writer = m /\ writer' = Nobody
<1>1. Frames /\ WireType BY ForwardParts
<1>2. /\ writer = m /\ writer' = Nobody /\ transport = "open" /\ UNCHANGED <<reader, cut, misframed>>
      /\ due' = IF due = m THEN Nobody ELSE due
  BY DEF WritePayload
<1>3. WireType' BY <1>1, <1>2 DEF WireType
<1>4. Frames' BY <1>1, <1>2 DEF Frames, Framed
<1> QED BY <1>2, <1>3, <1>4

LEMMA WriteFailed ==
    ASSUME ForwardInv, NEW m \in {"open", "wrte"} \X Conns, WriteFails(m), UNCHANGED transport
    PROVE  /\ Frames' /\ WireType'
           /\ \/ writer = Nobody /\ writer' = Nobody
              \/ writer = m /\ writer' = Nobody
<1>1. Frames /\ WireType BY ForwardParts
<1>2. UNCHANGED <<reader, due, misframed>> BY DEF WriteFails
<1>3. CASE CanWriteMessage /\ UNCHANGED <<writer, cut>> BY <1>1, <1>2, <1>3 DEF Frames, Framed, WireType, CanWriteMessage
<1>4. CASE writer = m /\ writer' = Nobody /\ cut' = (cut \/ transport = "open")
  <2>1. cut' \in BOOLEAN BY <1>1, <1>4 DEF WireType
  <2>2. WireType' BY <1>1, <1>2, <1>4, <2>1 DEF WireType
  <2>3. Frames' BY <1>1, <1>2, <1>4 DEF Frames, Framed
  <2> QED BY <1>4, <2>2, <2>3
<1> QED BY <1>3, <1>4 DEF WriteFails

\* The reader establishes, refuses and ends streams.
LEMMA ReaderInv ==
    ASSUME ForwardInv, main # "connect",
           UNCHANGED <<vars, command, link, sessionVars, closeVars, at, conn, copying, once, writer, cut>>,
           WireType', Frames',
           adb' \in [Conns -> {"none", "opening", "refused", "open", "closed"}],
           \A b \in Conns : \/ adb'[b] = adb[b]
                            \/ adb[b] = "opening" /\ adb'[b] \in {"open", "refused"}
                            \/ adb[b] = "open" /\ adb'[b] = "closed"
    PROVE  ForwardInv'
<1>0. UNCHANGED <<vars, command, link, main, exit, listener, acceptor, acceptErr, watch, cancelled, closed, active, todo,
                  at, conn, copying, once, writer, cut>>
  BY DEF sessionVars, closeVars
<1>1. ClientInv'
  <2>1. ClientInv /\ [Next]_vars BY <1>0 DEF ForwardInv
  <2> QED BY <2>1, ClientNextInv
<1>2. SessionType' /\ CloseType' BY <1>0, ForwardParts DEF SessionType, CloseType
<1>3. BridgeType' BY <1>0, ForwardParts DEF BridgeType
<1>4. Unstarted'
  <2>1. UNCHANGED phase BY <1>0 DEF vars, connectVars, handshakeVars
  <2> QED BY <1>0, <2>1, ForwardParts DEF Unstarted
<1>5. OneClose' BY <1>0, ForwardParts DEF OneClose, Closing
<1>6. ASSUME NEW b \in Conns PROVE (Writing(b) /\ Served(b) /\ Registered(b))'
  <2>0. Writing(b) /\ Served(b) /\ Registered(b) BY ForwardParts
  <2>1. Writing(b)' BY <1>0, <2>0 DEF Writing, Open, Wrte
  <2>2. Served(b)' BY <1>0, <2>0 DEF Served
  <2>3. Registered(b)' BY <1>0, <2>0 DEF Registered
  <2> QED BY <2>1, <2>2, <2>3
<1>7. (command \in {"operation", "forward"} /\ link \in {"tcp", "usb"})' BY <1>0, ForwardParts
<1> QED BY <1>1, <1>2, <1>3, <1>4, <1>5, <1>6, <1>7, NextParts

LEMMA ReaderSteps == ASSUME ForwardInv, ReaderStep \/ handleMessage PROVE ForwardInv'
<1>0. /\ reader # "none"
      /\ UNCHANGED <<vars, command, link, sessionVars, closeVars, at, conn, copying, once, writer, cut>>
  BY DEF ReaderStep, readMessage, acknowledge, readLoopFails, handleMessage, WriteHeaderOnly, bridgeVars
<1>1. main # "connect" BY <1>0, ForwardParts DEF Unstarted
<1>2. Frames /\ WireType /\ BridgeType BY ForwardParts
<1>t. UNCHANGED transport BY <1>0 DEF vars, connectVars
<1>3. CASE readMessage
  <2>1. reader' = "reading" /\ UNCHANGED <<adb, due, misframed>> BY <1>3 DEF readMessage, bridgeVars
  <2>2. WireType' /\ Frames' BY <1>0, <1>2, <1>t, <2>1 DEF WireType, Frames, Framed
  <2> QED BY <1>0, <1>1, <1>2, <2>1, <2>2, ReaderInv DEF BridgeType
<1>4. CASE acknowledge
  <2>1. reader' = "idle" /\ UNCHANGED adb /\ WriteHeaderOnly BY <1>4 DEF acknowledge, bridgeVars
  <2>2. Frames' /\ UNCHANGED <<writer, cut, due>> /\ misframed' \in BOOLEAN BY <1>t, <2>1, HeaderOnly
  <2>3. WireType' BY <1>2, <2>1, <2>2 DEF WireType
  <2> QED BY <1>0, <1>1, <1>2, <2>1, <2>2, <2>3, ReaderInv DEF BridgeType
<1>5. CASE readLoopFails
  <2>1. /\ reader' = "dead" /\ UNCHANGED <<due, misframed>>
        /\ adb' = [b \in Conns |-> CASE adb[b] = "opening" -> "refused" [] adb[b] = "open" -> "closed" [] OTHER -> adb[b]]
    BY <1>5 DEF readLoopFails
  <2>2. WireType' /\ Frames' BY <1>0, <1>2, <1>t, <2>1 DEF WireType, Frames, Framed
  <2>3. adb' \in [Conns -> {"none", "opening", "refused", "open", "closed"}] BY <1>2, <2>1 DEF BridgeType
  <2>4. \A b \in Conns : \/ adb'[b] = adb[b]
                         \/ adb[b] = "opening" /\ adb'[b] \in {"open", "refused"}
                         \/ adb[b] = "open" /\ adb'[b] = "closed"
    BY <2>1
  <2> QED BY <1>0, <1>1, <2>2, <2>3, <2>4, ReaderInv
<1>6. CASE handleMessage
  <2>1. reader' \in {"acknowledge", "idle"} /\ UNCHANGED <<due, misframed>> BY <1>6 DEF handleMessage
  <2>2. WireType' /\ Frames' BY <1>0, <1>2, <1>t, <2>1 DEF WireType, Frames, Framed
  <2>3. CASE UNCHANGED adb BY <1>0, <1>1, <1>2, <2>2, <2>3, ReaderInv DEF BridgeType
  <2>4. CASE \E b \in Conns :
               \/ adb[b] = "opening" /\ \E a \in {"open", "refused"} : adb' = [adb EXCEPT ![b] = a]
               \/ adb[b] = "open" /\ adb' = [adb EXCEPT ![b] = "closed"]
    <3>1. PICK b \in Conns, a \in {"open", "refused", "closed"} :
            /\ adb' = [adb EXCEPT ![b] = a]
            /\ (adb[b] = "opening" /\ a \in {"open", "refused"}) \/ (adb[b] = "open" /\ a = "closed")
      BY <2>4
    <3>2. adb' \in [Conns -> {"none", "opening", "refused", "open", "closed"}] BY <1>2, <3>1 DEF BridgeType
    <3>3. \A c \in Conns : \/ adb'[c] = adb[c]
                           \/ adb[c] = "opening" /\ adb'[c] \in {"open", "refused"}
                           \/ adb[c] = "open" /\ adb'[c] = "closed"
      BY <1>2, <3>1 DEF BridgeType
    <3> QED BY <1>0, <1>1, <2>2, <3>2, <3>3, ReaderInv
  <2> QED BY <1>6, <2>3, <2>4 DEF handleMessage
<1> QED BY <1>3, <1>4, <1>5, <1>6 DEF ReaderStep

-----------------------------------------------------------------------------
(* Forward.Close and the command.                                          *)

\* A step of main, of acceptLoop or of the goroutine that waits for the context.
LEMMA SessionInv ==
    ASSUME ForwardInv, UNCHANGED <<command, link, bridgeVars, wireVars>>, ClientInv', transport' = "open" => transport = "open",
           SessionType', CloseType', Unstarted', OneClose', closed => closed',
           acceptor' \in {"none", "done"} => \A b \in Conns : at[b] \in {"none", "ended"},
           \A b \in Conns : Registered(b)'
    PROVE  ForwardInv'
<1>0. UNCHANGED <<command, link, at, conn, adb, copying, once, reader, writer, due, cut, misframed>> BY DEF bridgeVars, wireVars
<1>1. BridgeType' /\ WireType' BY <1>0, ForwardParts DEF BridgeType, WireType
<1>2. Frames' BY <1>0, ForwardParts DEF Frames, Framed
<1>3. ASSUME NEW b \in Conns PROVE (Writing(b) /\ Served(b))'
  <2>0. Writing(b) /\ Served(b) BY ForwardParts
  <2>1. Writing(b)' BY <1>0, <2>0 DEF Writing, Open, Wrte
  <2>2. Served(b)' BY <1>0, <2>0 DEF Served
  <2> QED BY <2>1, <2>2
<1>4. (command \in {"operation", "forward"} /\ link \in {"tcp", "usb"})' BY <1>0, ForwardParts
<1> QED BY <1>1, <1>2, <1>3, <1>4, NextParts

\* Such a step that leaves the client and what is registered alone.
LEMMA QuietInv ==
    ASSUME ForwardInv, UNCHANGED <<vars, command, link, closeVars, bridgeVars, wireVars>>,
           SessionType', Unstarted', OneClose',
           acceptor' \in {"none", "done"} => \A b \in Conns : at[b] \in {"none", "ended"}
    PROVE  ForwardInv'
<1>0. UNCHANGED <<vars, closed, active, todo, at, conn, adb, transport>> BY DEF closeVars, bridgeVars, vars, connectVars
<1>1. ClientInv'
  <2>1. ClientInv /\ [Next]_vars BY <1>0 DEF ForwardInv
  <2> QED BY <2>1, ClientNextInv
<1>2. CloseType' BY <1>0, ForwardParts DEF CloseType
<1>3. ASSUME NEW b \in Conns PROVE Registered(b)'
  <2>1. Registered(b) BY ForwardParts
  <2> QED BY <1>0, <2>1 DEF Registered
<1> QED BY <1>0, <1>1, <1>2, <1>3, SessionInv

LEMMA AcceptLoopInv == ASSUME ForwardInv, acceptFails \/ acceptDone PROVE ForwardInv'
<1>0. /\ UNCHANGED <<vars, command, link, main, exit, listener, watch, cancelled, closeVars, bridgeVars, wireVars>>
      /\ acceptor \in {"accept", "drain"} /\ acceptor' \in {"drain", "done"} /\ (acceptor' = "done" => bridgesDone)
  BY DEF acceptFails, acceptDone
<1>1. acceptErr' \in BOOLEAN
  <2>1. acceptErr \in BOOLEAN BY ForwardParts DEF SessionType
  <2>2. acceptErr' = acceptErr \/ acceptErr' = (listener = "open" /\ ~forwardDone /\ ~closed) BY DEF acceptFails, acceptDone
  <2> QED BY <2>1, <2>2
<1>2. SessionType' BY <1>0, <1>1, ForwardParts DEF SessionType
<1>3. main # "connect" BY <1>0, ForwardParts DEF Unstarted
<1>4. Unstarted'
  <2>1. UNCHANGED phase BY <1>0 DEF vars, connectVars, handshakeVars
  <2> QED BY <1>0, <1>3, <2>1, ForwardParts DEF Unstarted
<1>5. OneClose' BY <1>0, ForwardParts DEF OneClose, Closing, closeVars
<1> QED BY <1>0, <1>2, <1>4, <1>5, QuietInv DEF bridgesDone

LEMMA CommandInv == ASSUME ForwardInv, startForward \/ connectFails \/ waitReturns PROVE ForwardInv'
<1>0. /\ UNCHANGED <<vars, command, link, acceptErr, cancelled, closeVars, bridgeVars, wireVars>>
      /\ main \in {"connect", "wait"} /\ command = "forward"
  BY DEF startForward, connectFails, waitReturns, Running
<1>u. UNCHANGED <<phase, closed, todo, at>> BY <1>0 DEF vars, connectVars, handshakeVars, closeVars, bridgeVars
<1>1. /\ main' \in {"wait", "closeClient", "exited", "close"} /\ exit' \in {0, 1, exit}
      /\ \/ listener' = "open" /\ acceptor' = "accept" /\ watch' = "wait" /\ main = "connect"
         \/ UNCHANGED <<listener, acceptor, watch>>
  BY DEF startForward, connectFails, waitReturns
<1>2. SessionType' BY <1>0, <1>1, ForwardParts DEF SessionType
<1>3. (main' # "exited" => phase = "connected") /\ (main' = "exited" => phase \in {"connected", "failed"})
  BY ForwardParts DEF startForward, connectFails, waitReturns, Unstarted
<1>4. Unstarted' BY <1>0, <1>1, <1>3, <1>u DEF Unstarted
<1>5. OneClose'
  <2>1. main = "connect" => watch = "none" BY ForwardParts DEF Unstarted
  <2> QED BY <1>0, <1>1, <1>u, <2>1, ForwardParts DEF OneClose, Closing
<1>6. acceptor' \in {"none", "done"} => \A b \in Conns : at[b] \in {"none", "ended"}
  <2>1. acceptor \in {"none", "done"} => \A b \in Conns : at[b] \in {"none", "ended"} BY ForwardParts DEF Served
  <2> QED BY <1>1, <2>1
<1> QED BY <1>0, <1>2, <1>4, <1>5, <1>6, QuietInv

LEMMA CloseClientInv == ASSUME ForwardInv, closeClient PROVE ForwardInv'
<1>0. /\ UNCHANGED <<handshakeVars, connectCtx, watcher, callVars, service, inbox, sent, final, pc, ctx, late, got, pmOutput,
                     result, worldVars>>
      /\ UNCHANGED <<command, link, exit, listener, acceptor, acceptErr, watch, cancelled, closeVars, bridgeVars, wireVars>>
      /\ ConnectionClose /\ main = "closeClient" /\ main' = "exited" /\ command = "forward"
  BY DEF closeClient, Running
<1>u. UNCHANGED <<phase, closed, active, todo, at, conn, adb>> /\ transport' = "closed"
  BY <1>0 DEF handshakeVars, closeVars, bridgeVars, ConnectionClose
<1>1. phase = "connected" BY <1>0, ForwardParts DEF Unstarted
<1>2. ClientInv'
  <2>1. ClientInv /\ watcher' \in {"none", "select", "stop", "ended"} BY <1>0 DEF ForwardInv, ClientInv, TypeOK, ConnectType
  <2> QED BY <1>0, <1>1, <2>1, CloseInv
<1>3. SessionType' BY <1>0, ForwardParts DEF SessionType
<1>4. CloseType' BY <1>u, ForwardParts DEF CloseType
<1>5. Unstarted' BY <1>0, <1>1, <1>u DEF Unstarted
<1>6. OneClose' BY <1>0, <1>u, ForwardParts DEF OneClose, Closing
<1>7. acceptor' \in {"none", "done"} => \A b \in Conns : at[b] \in {"none", "ended"} BY <1>0, ForwardParts DEF Served
<1>8. ASSUME NEW b \in Conns PROVE Registered(b)'
  <2>1. Registered(b) BY ForwardParts
  <2> QED BY <1>u, <2>1 DEF Registered
<1> QED BY <1>0, <1>2, <1>3, <1>4, <1>5, <1>6, <1>7, <1>8, <1>u, SessionInv

\* No step of another concerns connection b.
OnlyConn(b) ==
    \A c \in Conns \ {b} :
      /\ at'[c] = at[c] /\ conn'[c] = conn[c] /\ adb'[c] = adb[c] /\ copying'[c] = copying[c] /\ once'[c] = once[c]
      /\ (writer' = Open(c) <=> writer = Open(c)) /\ (writer' = Wrte(c) <=> writer = Wrte(c))
      /\ \A k \in {"conn", "stream"} : (<<k, c>> \in active' <=> <<k, c>> \in active) /\ (<<k, c>> \in todo' <=> <<k, c>> \in todo)

\* So it is enough to look at connection b.
LEMMA BridgeInv ==
    ASSUME ForwardInv, NEW b \in Conns, main # "connect", UNCHANGED <<vars, command, link, sessionVars, closed>>, OnlyConn(b),
           CloseType', BridgeType', WireType', OneClose', Frames', Writing(b)', Served(b)', Registered(b)'
    PROVE  ForwardInv'
<1>0. UNCHANGED <<vars, command, link, main, exit, listener, acceptor, acceptErr, watch, cancelled, closed, phase, transport>>
  BY DEF sessionVars, vars, connectVars, handshakeVars
<1>1. ClientInv'
  <2>1. ClientInv /\ [Next]_vars BY <1>0 DEF ForwardInv
  <2> QED BY <2>1, ClientNextInv
<1>2. SessionType' BY <1>0, ForwardParts DEF SessionType
<1>3. Unstarted' BY <1>0, ForwardParts DEF Unstarted
<1>4. ASSUME NEW c \in Conns PROVE (Writing(c) /\ Served(c) /\ Registered(c))'
  <2>1. CASE c = b BY <2>1
  <2>2. CASE c # b
    <3>0. Writing(c) /\ Served(c) /\ Registered(c) BY ForwardParts
    <3>1. Writing(c)' BY <2>2, <3>0 DEF OnlyConn, Writing, Open, Wrte
    <3>2. at'[c] = at[c] /\ conn'[c] = conn[c] /\ adb'[c] = adb[c] /\ copying'[c] = copying[c] /\ once'[c] = once[c]
      BY <2>2 DEF OnlyConn
    <3>4. Served(c)' BY <1>0, <3>0, <3>2 DEF Served
    <3>3. Registered(c)' BY <1>0, <2>2, <3>0 DEF OnlyConn, Registered
    <3> QED BY <3>1, <3>3, <3>4
  <2> QED BY <2>1, <2>2
<1>5. (command \in {"operation", "forward"} /\ link \in {"tcp", "usb"})' BY <1>0, ForwardParts
<1> QED BY <1>1, <1>2, <1>3, <1>4, <1>5, NextParts

LEMMA StreamClosed ==
    ASSUME ForwardInv, NEW b \in Conns, StreamClose(b), UNCHANGED transport
    PROVE  /\ Frames' /\ WireType' /\ writer' = writer
           /\ adb' \in [Conns -> {"none", "opening", "refused", "open", "closed"}] /\ adb'[b] = "closed"
           /\ \A c \in Conns \ {b} : adb'[c] = adb[c]
<1>1. Frames /\ WireType /\ BridgeType BY ForwardParts
<1>2. /\ adb' \in [Conns -> {"none", "opening", "refused", "open", "closed"}] /\ adb'[b] = "closed"
      /\ \A c \in Conns \ {b} : adb'[c] = adb[c]
  BY <1>1 DEF StreamClose, BridgeType
<1>3. CASE WriteHeaderOnly /\ UNCHANGED reader
  <2>1. Frames' /\ UNCHANGED <<writer, cut, due>> /\ misframed' \in BOOLEAN BY <1>3, HeaderOnly
  <2>2. WireType' BY <1>1, <1>3, <2>1 DEF WireType
  <2> QED BY <1>2, <2>1, <2>2
<1>4. CASE UNCHANGED wireVars
  <2>1. UNCHANGED <<reader, writer, due, cut, misframed>> BY <1>4 DEF wireVars
  <2> QED BY <1>1, <1>2, <2>1 DEF Frames, Framed, WireType
<1> QED BY <1>3, <1>4 DEF StreamClose

\* Close takes over what is registered.
LEMMA CloserInv ==
    ASSUME ForwardInv, main # "connect", main' # "connect", main' # "exited", main # "exited",
           UNCHANGED <<vars, command, link, exit, acceptor, acceptErr, bridgeVars, wireVars>>, SessionType', OneClose',
           \/ UNCHANGED closeVars
           \/ closed' = TRUE /\ active' = active /\ todo' = IF closed THEN todo ELSE active
    PROVE  ForwardInv'
<1>0. UNCHANGED <<vars, command, acceptor, at, conn, adb, phase, transport>>
  BY DEF bridgeVars, vars, connectVars, handshakeVars
<1>1. ClientInv'
  <2>1. ClientInv /\ [Next]_vars BY <1>0 DEF ForwardInv
  <2> QED BY <2>1, ClientNextInv
<1>2. CloseType /\ closed \in BOOLEAN BY ForwardParts DEF CloseType
<1>3. (closed => closed') /\ CloseType' BY <1>2 DEF CloseType, closeVars
<1>4. Unstarted' BY <1>0, ForwardParts DEF Unstarted
<1>5. acceptor' \in {"none", "done"} => \A b \in Conns : at[b] \in {"none", "ended"} BY <1>0, ForwardParts DEF Served
<1>6. ASSUME NEW b \in Conns PROVE Registered(b)'
  <2>1. Registered(b) BY ForwardParts
  <2>2. CASE UNCHANGED closeVars BY <1>0, <2>1, <2>2 DEF Registered, closeVars
  <2>3. CASE closed' = TRUE /\ active' = active /\ todo' = IF closed THEN todo ELSE active
    <3>1. CASE closed BY <1>0, <2>1, <2>3, <3>1 DEF Registered
    <3>2. CASE ~closed BY <1>0, <2>1, <2>3, <3>2 DEF Registered
    <3> QED BY <3>1, <3>2
  <2> QED BY <2>2, <2>3
<1> QED BY <1>0, <1>1, <1>3, <1>4, <1>5, <1>6, SessionInv

\* One item of what is to be closed.
LEMMA CloseActiveInv ==
    ASSUME ForwardInv, CloseActive, closed /\ Closing,
           UNCHANGED <<vars, command, link, main, exit, acceptor, acceptErr, watch>>
    PROVE  ForwardInv'
<1>0. UNCHANGED <<vars, command, link, sessionVars, closed, active, at, copying, once, transport>>
  BY DEF CloseActive, sessionVars, vars, connectVars
<1>1. CloseType /\ BridgeType /\ WireType /\ Frames /\ OneClose BY ForwardParts
<1>2. main # "connect"
  <2>1. main = "connect" => ~closed BY ForwardParts DEF Unstarted
  <2> QED BY <2>1
<1>3. PICK k \in {"conn", "stream"}, b \in Conns :
        /\ <<k, b>> \in todo /\ todo' = todo \ {<<k, b>>}
        /\ IF k = "conn" THEN ConnClose(b) /\ UNCHANGED <<adb, wireVars>> ELSE StreamClose(b) /\ UNCHANGED conn
  <2>1. PICK item \in todo :
          /\ todo' = todo \ {item}
          /\ IF item[1] = "conn" THEN ConnClose(item[2]) /\ UNCHANGED <<adb, wireVars>> ELSE StreamClose(item[2]) /\ UNCHANGED conn
    BY DEF CloseActive
  <2>2. PICK k \in {"conn", "stream"}, b \in Conns : item = <<k, b>> BY <1>1, <2>1 DEF CloseType
  <2>3. item[1] = k /\ item[2] = b BY <2>2
  <2> QED BY <2>1, <2>2, <2>3
<1>4. Writing(b) /\ Served(b) /\ Registered(b) BY ForwardParts
<1>5. at[b] \in {"addStream", "closeLate", "copy", "bridge", "ended"} BY <1>3, <1>4 DEF Registered
<1>6. CloseType' BY <1>0, <1>1, <1>3 DEF CloseType
<1>7. OneClose' BY <1>0, <1>1 DEF OneClose, Closing, sessionVars
<1>8. CASE k = "conn"
  <2>1. conn' = [conn EXCEPT ![b] = "closed"] /\ UNCHANGED <<adb, reader, writer, due, cut, misframed>>
    BY <1>3, <1>8 DEF ConnClose, wireVars
  <2>2. conn' \in [Conns -> {"none", "open", "closed"}] /\ conn'[b] = "closed" /\ \A c \in Conns \ {b} : conn'[c] = conn[c]
    BY <1>1, <2>1 DEF BridgeType
  <2>3. BridgeType' /\ WireType' /\ Frames' BY <1>0, <1>1, <2>1, <2>2 DEF BridgeType, WireType, Frames, Framed
  <2>4. Writing(b)' BY <1>0, <1>4, <2>1 DEF Writing, Open, Wrte
  <2>5. Served(b)' BY <1>0, <1>4, <1>5, <2>1, <2>2 DEF Served, sessionVars
  <2>6. <<"stream", b>> \in todo' <=> <<"stream", b>> \in todo BY <1>3, <1>8
  <2>7. Registered(b)' BY <1>0, <1>3, <1>4, <1>5, <2>1, <2>2, <2>6 DEF Registered
  <2>8. OnlyConn(b) BY <1>0, <1>3, <2>1, <2>2 DEF OnlyConn, Open, Wrte
  <2> QED BY <1>0, <1>2, <1>6, <1>7, <2>3, <2>4, <2>5, <2>7, <2>8, BridgeInv
<1>9. CASE k = "stream"
  <2>1. StreamClose(b) /\ UNCHANGED conn BY <1>3, <1>9
  <2>2. /\ Frames' /\ WireType' /\ writer' = writer
        /\ adb' \in [Conns -> {"none", "opening", "refused", "open", "closed"}] /\ adb'[b] = "closed"
        /\ \A c \in Conns \ {b} : adb'[c] = adb[c]
    BY <1>0, <2>1, StreamClosed
  <2>3. BridgeType' BY <1>0, <1>1, <2>1, <2>2 DEF BridgeType
  <2>4. Writing(b)' BY <1>0, <1>4, <2>2 DEF Writing, Open, Wrte
  <2>5. Served(b)' BY <1>0, <1>4, <1>5, <2>1, <2>2 DEF Served, sessionVars
  <2>6. <<"conn", b>> \in todo' <=> <<"conn", b>> \in todo BY <1>3, <1>9
  <2>7. Registered(b)' BY <1>0, <1>3, <1>4, <1>5, <2>1, <2>2, <2>6 DEF Registered
  <2>8. OnlyConn(b) BY <1>0, <1>3, <2>1, <2>2 DEF OnlyConn, Open, Wrte
  <2> QED BY <1>0, <1>2, <1>6, <1>7, <2>2, <2>3, <2>4, <2>5, <2>7, <2>8, BridgeInv
<1> QED BY <1>8, <1>9

LEMMA WatchInv == ASSUME ForwardInv, watchStep PROVE ForwardInv'
<1>0. /\ UNCHANGED <<vars, command, link, main, exit, acceptor, acceptErr>> /\ main # "exited" /\ command = "forward"
      /\ watch \in {"wait", "listener", "active"}
  BY DEF watchStep, Running
<1>1. SessionType /\ OneClose /\ CloseType BY ForwardParts
<1>2. main # "connect" BY <1>0, ForwardParts DEF Unstarted
<1>3. CASE watch = "wait" /\ CloseBegins(watch' = "listener", watch' = "ended") /\ UNCHANGED <<listener, bridgeVars, wireVars>>
  <2>1. /\ cancelled' = TRUE /\ closed' = TRUE /\ active' = active
        /\ IF closed THEN watch' = "ended" /\ todo' = todo ELSE watch' = "listener" /\ todo' = active
    BY <1>3 DEF CloseBegins
  <2>2. SessionType' BY <1>0, <1>1, <1>3, <2>1 DEF SessionType
  <2>3. OneClose'
    <3>1. CASE closed BY <1>0, <1>1, <1>3, <2>1, <3>1 DEF OneClose, Closing
    <3>2. CASE ~closed BY <1>0, <1>1, <1>3, <2>1, <3>2 DEF OneClose, Closing
    <3> QED BY <3>1, <3>2
  <2> QED BY <1>0, <1>2, <1>3, <2>1, <2>2, <2>3, CloserInv
<1>4. CASE watch = "listener" /\ CloseListener /\ watch' = "active"
  <2>1. UNCHANGED <<cancelled, closeVars, bridgeVars, wireVars>> /\ listener' = "closed" BY <1>4 DEF CloseListener
  <2>2. SessionType' BY <1>0, <1>1, <1>4, <2>1 DEF SessionType
  <2>3. OneClose' BY <1>0, <1>1, <1>4, <2>1 DEF OneClose, Closing, closeVars
  <2> QED BY <1>0, <1>2, <2>1, <2>2, <2>3, CloserInv
<1>5. CASE watch = "active" /\ CloseActive /\ UNCHANGED watch
  <2>1. closed /\ Closing BY <1>1, <1>5 DEF OneClose, Closing
  <2> QED BY <1>0, <1>5, <2>1, CloseActiveInv
<1>6. CASE /\ watch = "active" /\ todo = {} /\ watch' = "ended"
           /\ UNCHANGED <<listener, cancelled, closeVars, bridgeVars, wireVars>>
  <2>1. SessionType' BY <1>0, <1>1, <1>6 DEF SessionType
  <2>2. OneClose' BY <1>0, <1>1, <1>6 DEF OneClose, Closing, closeVars
  <2> QED BY <1>0, <1>2, <1>6, <2>1, <2>2, CloserInv
<1> QED BY <1>3, <1>4, <1>5, <1>6 DEF watchStep

LEMMA MainClosesInv == ASSUME ForwardInv, mainCloses PROVE ForwardInv'
<1>0. /\ UNCHANGED <<vars, command, link, exit, acceptor, acceptErr, watch>> /\ command = "forward"
      /\ main \in {"close", "listener", "active"}
  BY DEF mainCloses, Running
<1>1. SessionType /\ OneClose /\ CloseType BY ForwardParts
<1>3. CASE main = "close" /\ CloseBegins(main' = "listener", main' = "closeClient") /\ UNCHANGED <<listener, bridgeVars, wireVars>>
  <2>1. /\ cancelled' = TRUE /\ closed' = TRUE /\ active' = active
        /\ IF closed THEN main' = "closeClient" /\ todo' = todo ELSE main' = "listener" /\ todo' = active
    BY <1>3 DEF CloseBegins
  <2>2. SessionType' BY <1>0, <1>1, <1>3, <2>1 DEF SessionType
  <2>3. OneClose'
    <3>1. CASE closed BY <1>0, <1>1, <1>3, <2>1, <3>1 DEF OneClose, Closing
    <3>2. CASE ~closed BY <1>0, <1>1, <1>3, <2>1, <3>2 DEF OneClose, Closing
    <3> QED BY <3>1, <3>2
  <2> QED BY <1>0, <1>3, <2>1, <2>2, <2>3, CloserInv
<1>4. CASE main = "listener" /\ CloseListener /\ main' = "active"
  <2>1. UNCHANGED <<cancelled, closeVars, bridgeVars, wireVars>> /\ listener' = "closed" BY <1>4 DEF CloseListener
  <2>2. SessionType' BY <1>0, <1>1, <1>4, <2>1 DEF SessionType
  <2>3. OneClose' BY <1>0, <1>1, <1>4, <2>1 DEF OneClose, Closing, closeVars
  <2> QED BY <1>0, <1>4, <2>1, <2>2, <2>3, CloserInv
<1>5. CASE main = "active" /\ CloseActive /\ UNCHANGED main
  <2>1. closed /\ Closing BY <1>1, <1>5 DEF OneClose, Closing
  <2> QED BY <1>0, <1>5, <2>1, CloseActiveInv
<1>6. CASE /\ main = "active" /\ todo = {} /\ main' = "closeClient"
           /\ UNCHANGED <<listener, cancelled, closeVars, bridgeVars, wireVars>>
  <2>1. SessionType' BY <1>0, <1>1, <1>6 DEF SessionType
  <2>2. OneClose' BY <1>0, <1>1, <1>6 DEF OneClose, Closing, closeVars
  <2> QED BY <1>0, <1>6, <2>1, <2>2, CloserInv
<1> QED BY <1>3, <1>4, <1>5, <1>6 DEF mainCloses

-----------------------------------------------------------------------------
(* acceptLoop and handleConn.                                              *)

LEMMA AcceptInv == ASSUME ForwardInv, NEW b \in Conns, accept(b) PROVE ForwardInv'
<1>0. /\ acceptor = "accept" /\ at[b] = "none"
      /\ at' = [at EXCEPT ![b] = "accepted"] /\ conn' = [conn EXCEPT ![b] = "open"]
      /\ UNCHANGED <<vars, command, link, sessionVars, closeVars, adb, copying, once, wireVars>>
  BY DEF accept
<1>u. UNCHANGED <<transport, main, watch, acceptor, closed, active, todo, reader, writer, due, cut, misframed>>
  BY <1>0 DEF vars, connectVars, sessionVars, closeVars, wireVars
<1>1. CloseType /\ BridgeType /\ WireType /\ Frames /\ OneClose /\ Unstarted BY ForwardParts
<1>2. Writing(b) /\ Served(b) /\ Registered(b) BY ForwardParts
<1>3. main # "connect" BY <1>0, <1>1 DEF Unstarted
<1>4. /\ at'[b] = "accepted" /\ conn'[b] = "open" /\ \A c \in Conns \ {b} : at'[c] = at[c] /\ conn'[c] = conn[c]
  BY <1>0, <1>1 DEF BridgeType
<1>5. BridgeType' BY <1>0, <1>1 DEF BridgeType
<1>6. CloseType' /\ WireType' /\ Frames' /\ OneClose'
  BY <1>1, <1>u DEF CloseType, WireType, Frames, Framed, OneClose, Closing
<1>7. Writing(b)' BY <1>0, <1>2, <1>4, <1>u DEF Writing, Open, Wrte
<1>8. Served(b)' BY <1>0, <1>2, <1>4, <1>u DEF Served
<1>9. Registered(b)' BY <1>0, <1>2, <1>4, <1>u DEF Registered
<1>10. OnlyConn(b) BY <1>0, <1>4, <1>u DEF OnlyConn, Open, Wrte
<1> QED BY <1>0, <1>3, <1>5, <1>6, <1>7, <1>8, <1>9, <1>10, <1>u, BridgeInv

\* A step of handleConn(b): where it goes, and what it does to the connection, the
\* stream and the wire.
LEMMA GoInv ==
    ASSUME ForwardInv, NEW b \in Conns, at[b] \notin {"none", "ended"},
           UNCHANGED <<vars, command, link, sessionVars, closed, todo>>,
           NEW label \in {"open", "openPayload", "await", "addConn", "addStream", "closeLate", "copy", "bridge", "ended"},
           at' = [at EXCEPT ![b] = label],
           conn' = conn \/ conn' = [conn EXCEPT ![b] = "closed"],
           adb' \in [Conns -> {"none", "opening", "refused", "open", "closed"}], \A c \in Conns \ {b} : adb'[c] = adb[c],
           copying' \in [Conns -> [Ways -> {"none", "copy", "payload", "over", "ended"}]],
           \A c \in Conns \ {b} : copying'[c] = copying[c], UNCHANGED once,
           active' \subseteq {"conn", "stream"} \X Conns,
           \A k \in {"conn", "stream"}, c \in Conns \ {b} : <<k, c>> \in active' <=> <<k, c>> \in active,
           WireType', Frames', Writing(b)', Served(b)', Registered(b)',
           writer' = writer \/ {writer, writer'} \subseteq {Nobody, Open(b), Wrte(b)}
    PROVE  ForwardInv'
<1>0. UNCHANGED <<transport, main, watch, acceptor, closed, todo>> BY DEF vars, connectVars, sessionVars
<1>1. CloseType /\ BridgeType /\ OneClose /\ Unstarted BY ForwardParts
<1>2. main # "connect" BY <1>1 DEF Unstarted
<1>3. /\ at'[b] = label /\ \A c \in Conns \ {b} : at'[c] = at[c] /\ conn'[c] = conn[c]
  BY <1>1 DEF BridgeType
<1>4. conn' \in [Conns -> {"none", "open", "closed"}] BY <1>1 DEF BridgeType
<1>5. BridgeType' BY <1>1, <1>4 DEF BridgeType
<1>6. CloseType' /\ OneClose' BY <1>0, <1>1 DEF CloseType, OneClose, Closing
<1>7. \A c \in Conns \ {b} : (writer' = Open(c) <=> writer = Open(c)) /\ (writer' = Wrte(c) <=> writer = Wrte(c))
  <2>1. CASE writer' = writer BY <2>1 DEF Open, Wrte
  <2>2. CASE {writer, writer'} \subseteq {Nobody, Open(b), Wrte(b)}
    <3>1. ASSUME NEW c \in Conns \ {b} PROVE {Open(c), Wrte(c)} \cap {Nobody, Open(b), Wrte(b)} = {} BY Messages
    <3>2. ASSUME NEW c \in Conns \ {b} PROVE writer \notin {Open(c), Wrte(c)} /\ writer' \notin {Open(c), Wrte(c)}
      BY <2>2, <3>1
    <3> QED BY <3>2
  <2> QED BY <2>1, <2>2
<1>8. OnlyConn(b) BY <1>0, <1>3, <1>7 DEF OnlyConn
<1> QED BY <1>0, <1>2, <1>5, <1>6, <1>8, BridgeInv

LEMMA OpenServiceInv == ASSUME ForwardInv, NEW b \in Conns, openService(b) PROVE ForwardInv'
<1>0. /\ at[b] = "accepted"
      /\ UNCHANGED <<vars, command, link, sessionVars, closeVars, adb, copying, once, writer, due, cut, misframed>>
      /\ \/ at' = [at EXCEPT ![b] = "ended"] /\ conn' = [conn EXCEPT ![b] = "closed"] /\ reader' = reader
         \/ at' = [at EXCEPT ![b] = "open"] /\ conn' = conn /\ reader' \in {reader, "idle"}
  BY DEF openService, Go, ConnClose, sameBridge
<1>u. UNCHANGED <<transport, main, watch, acceptor, closed, active, todo>>
  BY <1>0 DEF vars, connectVars, sessionVars, closeVars
<1>1. BridgeType /\ WireType /\ Frames /\ CloseType BY ForwardParts
<1>2. Writing(b) /\ Served(b) /\ Registered(b) BY ForwardParts
<1>3. WireType' /\ Frames' BY <1>0, <1>1, <1>u DEF WireType, Frames, Framed
<1>4. \/ at'[b] = "ended" /\ conn'[b] = "closed"
      \/ at'[b] = "open" /\ conn'[b] = conn[b]
  BY <1>0, <1>1 DEF BridgeType
<1>5. Writing(b)' BY <1>0, <1>2, <1>4 DEF Writing, Open, Wrte
<1>6. Served(b)' BY <1>0, <1>2, <1>4, <1>u DEF Served
<1>7. Registered(b)' BY <1>0, <1>2, <1>4, <1>u DEF Registered
<1> QED BY <1>0, <1>1, <1>3, <1>5, <1>6, <1>7, <1>u, GoInv DEF BridgeType, CloseType

LEMMA WriteOpenInv == ASSUME ForwardInv, NEW b \in Conns, writeOpen(b) PROVE ForwardInv'
<1>0. at[b] \in {"open", "openPayload"} /\ UNCHANGED <<vars, command, link, sessionVars, closeVars, copying, once>>
  BY DEF writeOpen, sameBridge
<1>u. UNCHANGED <<transport, main, watch, acceptor, closed, active, todo>>
  BY <1>0 DEF vars, connectVars, sessionVars, closeVars
<1>1. BridgeType /\ WireType /\ Frames /\ CloseType BY ForwardParts
<1>2. Writing(b) /\ Served(b) /\ Registered(b) BY ForwardParts
<1>m. Open(b) \in {"open", "wrte"} \X Conns /\ Open(b) # Nobody /\ Wrte(b) # Nobody /\ Open(b) # Wrte(b) BY Messages
<1>c. copying[b].up = "none" /\ adb[b] = "none" /\ once[b] = Nobody /\ \A w \in Ways : copying[b][w] = "none"
  <2>1. "up" \in Ways BY DEF Ways
  <2> QED BY <1>0, <1>2, <2>1 DEF Served
<1>3. CASE at[b] = "open" /\ WriteHeader(Open(b)) /\ Go(b, "openPayload") /\ UNCHANGED <<conn, adb>>
  <2>1. Frames' /\ WireType' /\ writer = Nobody /\ writer' = Open(b) BY <1>3, <1>m, <1>u, HeaderSent
  <2>2. at' = [at EXCEPT ![b] = "openPayload"] /\ at'[b] = "openPayload" BY <1>1, <1>3 DEF Go, BridgeType
  <2>3. Writing(b)' BY <1>0, <1>c, <1>m, <2>1, <2>2 DEF Writing, Open, Wrte
  <2>4. Served(b)' BY <1>0, <1>2, <1>3, <1>u, <2>2 DEF Served
  <2>5. Registered(b)' BY <1>2, <1>3, <1>u, <2>2 DEF Registered
  <2> QED BY <1>0, <1>1, <1>3, <1>u, <2>1, <2>2, <2>3, <2>4, <2>5, GoInv DEF BridgeType, CloseType
<1>4. CASE /\ at[b] = "openPayload" /\ WritePayload(Open(b)) /\ Go(b, "await") /\ UNCHANGED conn
           /\ \E a \in {"opening", "refused"} : adb' = [adb EXCEPT ![b] = a]
  <2>1. Frames' /\ WireType' /\ writer = Open(b) /\ writer' = Nobody BY <1>4, <1>m, <1>u, PayloadSent
  <2>2. at' = [at EXCEPT ![b] = "await"] /\ at'[b] = "await" BY <1>1, <1>4 DEF Go, BridgeType
  <2>a. /\ adb' \in [Conns -> {"none", "opening", "refused", "open", "closed"}] /\ adb'[b] \in {"opening", "refused"}
        /\ \A c \in Conns \ {b} : adb'[c] = adb[c]
    BY <1>1, <1>4 DEF BridgeType
  <2>3. Writing(b)' BY <1>0, <1>c, <1>m, <2>1, <2>2 DEF Writing, Open, Wrte
  <2>n. Nobody # "done" BY ForwardAssumption
  <2>4. Served(b)' BY <1>0, <1>2, <1>4, <1>c, <1>u, <2>2, <2>a, <2>n DEF Served
  <2>5. Registered(b)' BY <1>2, <1>4, <1>u, <2>2 DEF Registered
  <2> QED BY <1>0, <1>1, <1>4, <1>u, <2>1, <2>2, <2>3, <2>4, <2>5, <2>a, GoInv DEF BridgeType, CloseType
<1>5. CASE WriteFails(Open(b)) /\ Go(b, "ended") /\ ConnClose(b) /\ UNCHANGED adb
  <2>1. Frames' /\ WireType' /\ writer' = Nobody /\ writer \in {Nobody, Open(b)} BY <1>5, <1>m, <1>u, WriteFailed
  <2>2. /\ at' = [at EXCEPT ![b] = "ended"] /\ at'[b] = "ended" /\ conn' = [conn EXCEPT ![b] = "closed"] /\ conn'[b] = "closed"
    BY <1>1, <1>5 DEF Go, ConnClose, BridgeType
  <2>3. Writing(b)' BY <1>0, <1>c, <1>m, <2>1, <2>2 DEF Writing, Open, Wrte
  <2>4. Served(b)' BY <1>0, <1>2, <1>5, <1>c, <1>u, <2>2 DEF Served
  <2>5. Registered(b)' BY <1>0, <1>2, <1>5, <1>u, <2>2 DEF Registered
  <2> QED BY <1>0, <1>1, <1>5, <1>u, <2>1, <2>2, <2>3, <2>4, <2>5, GoInv DEF BridgeType, CloseType
<1> QED BY <1>3, <1>4, <1>5 DEF writeOpen

LEMMA OpenEndsInv == ASSUME ForwardInv, NEW b \in Conns, openEnds(b) PROVE ForwardInv'
<1>0. at[b] = "await" /\ UNCHANGED <<vars, command, link, sessionVars, closeVars, copying, once>>
  BY DEF openEnds, sameBridge
<1>u. UNCHANGED <<transport, main, watch, acceptor, closed, active, todo>>
  BY <1>0 DEF vars, connectVars, sessionVars, closeVars
<1>1. BridgeType /\ WireType /\ Frames /\ CloseType BY ForwardParts
<1>2. Writing(b) /\ Served(b) /\ Registered(b) BY ForwardParts
<1>3. CASE adb[b] = "open" /\ Go(b, "addConn") /\ UNCHANGED <<conn, adb, wireVars>>
  <2>1. UNCHANGED <<reader, writer, due, cut, misframed>> BY <1>3 DEF wireVars
  <2>2. WireType' /\ Frames' BY <1>1, <1>u, <2>1 DEF WireType, Frames, Framed
  <2>3. at' = [at EXCEPT ![b] = "addConn"] /\ at'[b] = "addConn" BY <1>1, <1>3 DEF Go, BridgeType
  <2>4. Writing(b)' BY <1>0, <1>2, <2>1, <2>3 DEF Writing, Open, Wrte
  <2>5. Served(b)' BY <1>0, <1>2, <1>3, <1>u, <2>3 DEF Served
  <2>6. Registered(b)' BY <1>0, <1>2, <1>3, <1>u, <2>3 DEF Registered
  <2> QED BY <1>0, <1>1, <1>3, <1>u, <2>1, <2>2, <2>3, <2>4, <2>5, <2>6, GoInv DEF BridgeType, CloseType
<1>4. ASSUME Go(b, "ended"), ConnClose(b), WireType', Frames', writer' = writer,
             adb' \in [Conns -> {"none", "opening", "refused", "open", "closed"}], \A c \in Conns \ {b} : adb'[c] = adb[c],
             adb'[b] \in {"refused", "closed"}
      PROVE  ForwardInv'
  <2>1. /\ at' = [at EXCEPT ![b] = "ended"] /\ at'[b] = "ended" /\ conn' = [conn EXCEPT ![b] = "closed"] /\ conn'[b] = "closed"
    BY <1>1, <1>4 DEF Go, ConnClose, BridgeType
  <2>2. Writing(b)' BY <1>0, <1>2, <1>4, <2>1 DEF Writing, Open, Wrte
  <2>n. Nobody # "done" BY ForwardAssumption
  <2>3. Served(b)' BY <1>0, <1>2, <1>4, <1>u, <2>1, <2>n DEF Served
  <2>4. Registered(b)' BY <1>0, <1>2, <1>u, <2>1 DEF Registered
  <2> QED BY <1>0, <1>1, <1>4, <1>u, <2>1, <2>2, <2>3, <2>4, GoInv DEF BridgeType, CloseType
<1>5. CASE adb[b] = "refused" /\ Go(b, "ended") /\ ConnClose(b) /\ UNCHANGED <<adb, wireVars>>
  <2>1. UNCHANGED <<reader, writer, due, cut, misframed>> BY <1>5 DEF wireVars
  <2>2. WireType' /\ Frames' BY <1>1, <1>u, <2>1 DEF WireType, Frames, Framed
  <2> QED BY <1>1, <1>4, <1>5, <2>1, <2>2 DEF BridgeType
<1>6. CASE StreamClose(b) /\ Go(b, "ended") /\ ConnClose(b) BY <1>4, <1>6, <1>u, StreamClosed
<1> QED BY <1>3, <1>5, <1>6 DEF openEnds

LEMMA AddInv == ASSUME ForwardInv, NEW b \in Conns, addBoth(b) PROVE ForwardInv'
<1>0. at[b] \in {"addConn", "addStream", "closeLate"} /\ UNCHANGED <<vars, command, link, sessionVars, closed, todo, copying, once>>
  BY DEF addBoth, sameBridge
<1>u. UNCHANGED <<transport, main, watch, acceptor>> BY <1>0 DEF vars, connectVars, sessionVars
<1>1. BridgeType /\ WireType /\ Frames /\ CloseType BY ForwardParts
<1>2. Writing(b) /\ Served(b) /\ Registered(b) BY ForwardParts
<1>3. CASE at[b] = "closeLate" /\ StreamClose(b) /\ Go(b, "copy") /\ UNCHANGED <<active, conn>>
  <2>1. /\ Frames' /\ WireType' /\ writer' = writer
        /\ adb' \in [Conns -> {"none", "opening", "refused", "open", "closed"}] /\ adb'[b] = "closed"
        /\ \A c \in Conns \ {b} : adb'[c] = adb[c]
    BY <1>3, <1>u, StreamClosed
  <2>2. at' = [at EXCEPT ![b] = "copy"] /\ at'[b] = "copy" BY <1>1, <1>3 DEF Go, BridgeType
  <2>3. Writing(b)' BY <1>0, <1>2, <1>3, <2>1, <2>2 DEF Writing, Open, Wrte
  <2>4. Served(b)' BY <1>0, <1>2, <1>3, <1>u, <2>1, <2>2 DEF Served
  <2>5. closed BY <1>2, <1>3 DEF Served
  <2>6. Registered(b)' BY <1>0, <1>2, <1>3, <2>1, <2>2, <2>5 DEF Registered
  <2> QED BY <1>0, <1>1, <1>3, <2>1, <2>2, <2>3, <2>4, <2>6, GoInv DEF BridgeType, CloseType
<1>4. CASE /\ UNCHANGED <<adb, wireVars>>
           /\ (at[b] = "addConn" /\ addActive(b, "conn")) \/ (at[b] = "addStream" /\ addActive(b, "stream"))
  <2>1. UNCHANGED <<adb, reader, writer, due, cut, misframed>> BY <1>4 DEF wireVars
  <2>2. WireType' /\ Frames' BY <1>1, <1>u, <2>1 DEF WireType, Frames, Framed
  <2>3. PICK label \in {"addStream", "closeLate", "copy"}, k \in {"conn", "stream"} :
          /\ at' = [at EXCEPT ![b] = label]
          /\ at[b] = IF k = "conn" THEN "addConn" ELSE "addStream"
          /\ label = IF k = "conn" THEN "addStream" ELSE IF closed THEN "closeLate" ELSE "copy"
          /\ active' = IF closed THEN active ELSE active \cup {<<k, b>>}
          /\ IF closed /\ k = "conn" THEN conn' = [conn EXCEPT ![b] = "closed"] ELSE conn' = conn
    BY <1>4 DEF addActive, Go, ConnClose
  <2>4. at'[b] = label /\ (closed /\ k = "conn" => conn'[b] = "closed") BY <1>1, <2>3 DEF BridgeType
  <2>5. Writing(b)' BY <1>0, <1>2, <2>1, <2>3, <2>4 DEF Writing, Open, Wrte
  <2>6. Served(b)' BY <1>0, <1>2, <1>u, <2>1, <2>3, <2>4 DEF Served
  <2>7. Registered(b)'
    <3>1. CASE closed BY <1>0, <1>2, <2>1, <2>3, <2>4, <3>1 DEF Registered
    <3>2. CASE ~closed
      <4>1. label \in {"addStream", "copy"} /\ conn' = conn /\ active \subseteq active' /\ <<k, b>> \in active' BY <2>3, <3>2
      <4>2. label = "copy" => k = "stream" /\ at[b] = "addStream" BY <2>3
      <4>3. label = "addStream" => k = "conn" BY <2>3, <3>2
      <4> QED BY <1>0, <1>2, <2>1, <2>4, <3>2, <4>1, <4>2, <4>3 DEF Registered
    <3> QED BY <3>1, <3>2
  <2>8. /\ active' \subseteq {"conn", "stream"} \X Conns
        /\ \A j \in {"conn", "stream"}, c \in Conns \ {b} : <<j, c>> \in active' <=> <<j, c>> \in active
    BY <1>1, <2>3 DEF CloseType
  <2>9. conn' = conn \/ conn' = [conn EXCEPT ![b] = "closed"] BY <2>3
  <2> QED BY <1>0, <1>1, <2>1, <2>2, <2>3, <2>5, <2>6, <2>7, <2>8, <2>9, GoInv DEF BridgeType
<1> QED BY <1>3, <1>4 DEF addBoth

LEMMA StartCopiesInv == ASSUME ForwardInv, NEW b \in Conns, startCopies(b) PROVE ForwardInv'
<1>0. /\ at[b] = "copy" /\ UNCHANGED <<vars, command, link, sessionVars, closeVars, conn, adb, once, wireVars>>
      /\ at' = [at EXCEPT ![b] = "bridge"] /\ copying' = [copying EXCEPT ![b] = [w \in Ways |-> "copy"]]
  BY DEF startCopies, sameBridge, Go
<1>u. UNCHANGED <<transport, main, watch, acceptor, closed, active, todo, reader, writer, due, cut, misframed>>
  BY <1>0 DEF vars, connectVars, sessionVars, closeVars, wireVars
<1>1. BridgeType /\ WireType /\ Frames /\ CloseType BY ForwardParts
<1>2. Writing(b) /\ Served(b) /\ Registered(b) BY ForwardParts
<1>3. WireType' /\ Frames' BY <1>1, <1>u DEF WireType, Frames, Framed
<1>4. at'[b] = "bridge" BY <1>0, <1>1 DEF BridgeType
<1>5. /\ copying' \in [Conns -> [Ways -> {"none", "copy", "payload", "over", "ended"}]]
      /\ (\A c \in Conns \ {b} : copying'[c] = copying[c]) /\ (\A w \in Ways : copying'[b][w] = "copy") /\ copying'[b].up = "copy"
  <2>1. PICK f \in [Ways -> {"none", "copy", "payload", "over", "ended"}] : f = [w \in Ways |-> "copy"] OBVIOUS
  <2>2. copying' = [copying EXCEPT ![b] = f] BY <1>0, <2>1
  <2>3. "up" \in Ways BY DEF Ways
  <2> QED BY <1>1, <2>1, <2>2, <2>3 DEF BridgeType
<1>6. Writing(b)'
  <2>1. "up" \in Ways BY DEF Ways
  <2> QED BY <1>0, <1>2, <1>4, <1>5, <1>u, <2>1 DEF Writing, Open, Wrte, Served
<1>7. Served(b)' BY <1>0, <1>2, <1>4, <1>5, <1>u DEF Served
<1>8. Registered(b)' BY <1>0, <1>2, <1>4, <1>u DEF Registered
<1> QED BY <1>0, <1>1, <1>3, <1>5, <1>6, <1>7, <1>8, <1>u, GoInv DEF BridgeType, CloseType

\* copies.Wait has returned, so once is done, and nothing is open.
LEMMA BridgeEndsInv == ASSUME ForwardInv, NEW b \in Conns, bridgeEnds(b) PROVE ForwardInv'
<1>0. /\ at[b] = "bridge" /\ UNCHANGED <<vars, command, link, sessionVars, closed, todo, conn, adb, copying, once, wireVars>>
      /\ at' = [at EXCEPT ![b] = "ended"] /\ active' = active \ {<<"conn", b>>, <<"stream", b>>}
      /\ \A w \in Ways : copying[b][w] = "ended"
  BY DEF bridgeEnds, sameBridge, Go
<1>u. UNCHANGED <<transport, main, watch, acceptor, reader, writer, due, cut, misframed>>
  BY <1>0 DEF vars, connectVars, sessionVars, wireVars
<1>1. BridgeType /\ WireType /\ Frames /\ CloseType BY ForwardParts
<1>2. Writing(b) /\ Served(b) /\ Registered(b) BY ForwardParts
<1>3. WireType' /\ Frames' BY <1>1, <1>u DEF WireType, Frames, Framed
<1>4. at'[b] = "ended" BY <1>0, <1>1 DEF BridgeType
<1>5. conn[b] = "closed" /\ adb[b] = "closed" /\ copying[b].up = "ended"
  <2>1. "up" \in Ways BY DEF Ways
  <2>2. once[b] = "done" BY <1>0, <1>2, <2>1 DEF Served
  <2>3. Nobody # "done" BY ForwardAssumption
  <2> QED BY <1>0, <1>2, <2>1, <2>2, <2>3 DEF Served
<1>6. Writing(b)' BY <1>0, <1>2, <1>4, <1>u DEF Writing, Open, Wrte
<1>7. Served(b)' BY <1>0, <1>2, <1>4, <1>5, <1>u DEF Served
<1>8. Registered(b)' BY <1>0, <1>2, <1>4 DEF Registered
<1>9. /\ active' \subseteq {"conn", "stream"} \X Conns
      /\ \A k \in {"conn", "stream"}, c \in Conns \ {b} : <<k, c>> \in active' <=> <<k, c>> \in active
  BY <1>0, <1>1 DEF CloseType
<1> QED BY <1>0, <1>1, <1>3, <1>6, <1>7, <1>8, <1>9, <1>u, GoInv DEF BridgeType

-----------------------------------------------------------------------------
(* The two copies of a bridge.                                             *)

LEMMA CopyingInv ==
    ASSUME ForwardInv, NEW b \in Conns, at[b] = "bridge", UNCHANGED <<vars, command, link, sessionVars, closeVars, at>>,
           conn' = conn \/ conn' = [conn EXCEPT ![b] = "closed"],
           adb' \in [Conns -> {"none", "opening", "refused", "open", "closed"}], \A c \in Conns \ {b} : adb'[c] = adb[c],
           adb'[b] \in {adb[b], "closed"},
           copying' \in [Conns -> [Ways -> {"none", "copy", "payload", "over", "ended"}]],
           \A c \in Conns \ {b} : copying'[c] = copying[c],
           once' \in [Conns -> Ways \cup {Nobody, "done"}], \A c \in Conns \ {b} : once'[c] = once[c],
           WireType', Frames', Writing(b)', Served(b)',
           writer' = writer \/ {writer, writer'} = {Nobody, Wrte(b)}
    PROVE  ForwardInv'
<1>0. UNCHANGED <<transport, main, watch, acceptor, closed, active, todo, at>> BY DEF vars, connectVars, sessionVars, closeVars
<1>1. CloseType /\ BridgeType /\ OneClose /\ Unstarted /\ Registered(b) BY ForwardParts
<1>2. main # "connect" BY <1>1 DEF Unstarted
<1>3. /\ conn' \in [Conns -> {"none", "open", "closed"}] /\ conn'[b] \in {conn[b], "closed"}
      /\ \A c \in Conns \ {b} : conn'[c] = conn[c]
  BY <1>1 DEF BridgeType
<1>4. BridgeType' BY <1>0, <1>1, <1>3 DEF BridgeType
<1>5. CloseType' /\ OneClose' BY <1>0, <1>1 DEF CloseType, OneClose, Closing
<1>6. Registered(b)' BY <1>0, <1>1, <1>3 DEF Registered
<1>7. \A c \in Conns \ {b} : (writer' = Open(c) <=> writer = Open(c)) /\ (writer' = Wrte(c) <=> writer = Wrte(c))
  <2>1. CASE writer' = writer BY <2>1 DEF Open, Wrte
  <2>2. CASE {writer, writer'} = {Nobody, Wrte(b)}
    <3>1. ASSUME NEW c \in Conns \ {b} PROVE {Open(c), Wrte(c)} \cap {Nobody, Wrte(b)} = {} BY Messages
    <3>2. ASSUME NEW c \in Conns \ {b} PROVE writer \notin {Open(c), Wrte(c)} /\ writer' \notin {Open(c), Wrte(c)}
      BY <2>2, <3>1
    <3> QED BY <3>2
  <2> QED BY <2>1, <2>2
<1>8. OnlyConn(b) BY <1>0, <1>3, <1>7 DEF OnlyConn
<1> QED BY <1>0, <1>2, <1>4, <1>5, <1>6, <1>8, BridgeInv

\* A copy that runs is one of a bridge, and goes on to label.
LEMMA Copied ==
    ASSUME ForwardInv, NEW b \in Conns, NEW w \in Ways, copying[b][w] \in {"copy", "payload", "over"},
           NEW label \in {"copy", "payload", "over", "ended"}, Copy(b, w, label)
    PROVE  /\ at[b] = "bridge"
           /\ copying' \in [Conns -> [Ways -> {"none", "copy", "payload", "over", "ended"}]]
           /\ copying'[b][w] = label /\ (\A v \in Ways \ {w} : copying'[b][v] = copying[b][v])
           /\ \A c \in Conns \ {b} : copying'[c] = copying[c]
<1>1. BridgeType /\ Served(b) BY ForwardParts
<1>2. at[b] = "bridge" BY <1>1 DEF Served
<1>3. PICK f \in [Ways -> {"none", "copy", "payload", "over", "ended"}] : f = copying[b] BY <1>1 DEF BridgeType
<1>4. PICK g \in [Ways -> {"none", "copy", "payload", "over", "ended"}] : g = [f EXCEPT ![w] = label] OBVIOUS
<1>5. copying' = [copying EXCEPT ![b] = g] BY <1>3, <1>4 DEF Copy
<1>6. copying' \in [Conns -> [Ways -> {"none", "copy", "payload", "over", "ended"}]] /\ copying'[b] = g
      /\ \A c \in Conns \ {b} : copying'[c] = copying[c]
  BY <1>1, <1>5 DEF BridgeType
<1> QED BY <1>2, <1>3, <1>4, <1>6

LEMMA CopyUpInv == ASSUME ForwardInv, NEW b \in Conns, copyUp(b) PROVE ForwardInv'
<1>0. UNCHANGED <<vars, command, link, sessionVars, closeVars, at, conn, adb, once>> BY DEF copyUp, sameBridge
<1>u. UNCHANGED <<transport, main, watch, acceptor, closed, active, todo>>
  BY <1>0 DEF vars, connectVars, sessionVars, closeVars
<1>1. BridgeType /\ WireType /\ Frames BY ForwardParts
<1>2. Writing(b) /\ Served(b) BY ForwardParts
<1>m. Wrte(b) \in {"open", "wrte"} \X Conns /\ Open(b) # Nobody /\ Wrte(b) # Nobody /\ Open(b) # Wrte(b) BY Messages
<1>w. "up" \in Ways BY DEF Ways
<1>3. ASSUME copying[b].up \in {"copy", "payload"}, NEW label \in {"payload", "copy", "over"}, Copy(b, "up", label),
             WireType', Frames', writer' = IF label = "payload" THEN Wrte(b) ELSE Nobody, {writer, writer'} = {Nobody, Wrte(b)}
      PROVE  ForwardInv'
  <2>1. copying[b]["up"] \in {"copy", "payload", "over"} BY <1>3
  <2>2. /\ at[b] = "bridge"
        /\ copying' \in [Conns -> [Ways -> {"none", "copy", "payload", "over", "ended"}]]
        /\ copying'[b]["up"] = label /\ (\A v \in Ways \ {"up"} : copying'[b][v] = copying[b][v])
        /\ \A c \in Conns \ {b} : copying'[c] = copying[c]
    BY <1>3, <1>w, <2>1, Copied
  <2>3. Writing(b)' BY <1>0, <1>3, <1>m, <2>2 DEF Writing, Open, Wrte
  <2>4. Served(b)' BY <1>0, <1>2, <1>u, <2>2 DEF Served
  <2> QED BY <1>0, <1>1, <1>3, <2>2, <2>3, <2>4, CopyingInv DEF BridgeType
<1>4. CASE copying[b].up = "copy" /\ WriteHeader(Wrte(b)) /\ Copy(b, "up", "payload")
  <2>1. Frames' /\ WireType' /\ writer = Nobody /\ writer' = Wrte(b) BY <1>4, <1>m, <1>u, HeaderSent
  <2> QED BY <1>3, <1>4, <2>1
<1>5. CASE copying[b].up = "payload" /\ WritePayload(Wrte(b)) /\ Copy(b, "up", "copy")
  <2>1. Frames' /\ WireType' /\ writer = Wrte(b) /\ writer' = Nobody BY <1>5, <1>m, <1>u, PayloadSent
  <2> QED BY <1>3, <1>5, <2>1
<1>6. CASE copying[b].up = "payload" /\ writer = Wrte(b) /\ WriteFails(Wrte(b)) /\ Copy(b, "up", "over")
  <2>1. Frames' /\ WireType' /\ writer' = Nobody BY <1>6, <1>m, <1>u, WriteFailed
  <2> QED BY <1>3, <1>6, <2>1
<1> QED BY <1>4, <1>5, <1>6 DEF copyUp

LEMMA CopyOverInv == ASSUME ForwardInv, NEW b \in Conns, NEW w \in Ways, bridgeCopyEnds(b, w) PROVE ForwardInv'
<1>0. /\ UNCHANGED <<vars, command, link, sessionVars, closeVars, at, conn, adb, once, wireVars>>
      /\ copying[b][w] = "copy" /\ Copy(b, w, "over")
  BY DEF bridgeCopyEnds, sameBridge
<1>u. UNCHANGED <<transport, main, watch, acceptor, closed, active, todo, reader, writer, due, cut, misframed>>
  BY <1>0 DEF vars, connectVars, sessionVars, closeVars, wireVars
<1>1. BridgeType /\ WireType /\ Frames BY ForwardParts
<1>2. Writing(b) /\ Served(b) BY ForwardParts
<1>3. WireType' /\ Frames' BY <1>1, <1>u DEF WireType, Frames, Framed
<1>4. /\ at[b] = "bridge"
      /\ copying' \in [Conns -> [Ways -> {"none", "copy", "payload", "over", "ended"}]]
      /\ copying'[b][w] = "over" /\ (\A v \in Ways \ {w} : copying'[b][v] = copying[b][v])
      /\ \A c \in Conns \ {b} : copying'[c] = copying[c]
  BY <1>0, Copied
<1>5. Writing(b)'
  <2>1. "up" \in Ways BY DEF Ways
  <2>2. copying'[b].up = "payload" <=> copying[b].up = "payload" BY <1>0, <1>4, <2>1
  <2> QED BY <1>0, <1>2, <1>u, <2>2 DEF Writing, Open, Wrte
<1>6. Served(b)' BY <1>0, <1>2, <1>4, <1>u DEF Served
<1> QED BY <1>0, <1>1, <1>3, <1>4, <1>5, <1>6, <1>u, CopyingInv DEF BridgeType

\* once.Do: the first copy closes both sides before either is done.
LEMMA CloseBothInv == ASSUME ForwardInv, NEW b \in Conns, NEW w \in Ways, closeBoth(b, w) PROVE ForwardInv'
<1>0. UNCHANGED <<vars, command, link, sessionVars, closeVars, at>> /\ copying[b][w] = "over" BY DEF closeBoth, sameBridge
<1>u. UNCHANGED <<transport, main, watch, acceptor, closed, active, todo, at>>
  BY <1>0 DEF vars, connectVars, sessionVars, closeVars
<1>1. BridgeType /\ WireType /\ Frames BY ForwardParts
<1>2. Writing(b) /\ Served(b) BY ForwardParts
<1>n. Nobody # "done" /\ w # Nobody /\ w # "done" /\ "up" \in Ways BY ForwardAssumption DEF Ways
<1>b. at[b] = "bridge" BY <1>0, <1>2 DEF Served
<1>3. CASE once[b] = Nobody /\ once' = [once EXCEPT ![b] = w] /\ ConnClose(b) /\ UNCHANGED <<adb, copying, wireVars>>
  <2>1. UNCHANGED <<reader, writer, due, cut, misframed>> BY <1>3 DEF wireVars
  <2>2. WireType' /\ Frames' BY <1>1, <1>u, <2>1 DEF WireType, Frames, Framed
  <2>3. /\ once' \in [Conns -> Ways \cup {Nobody, "done"}] /\ once'[b] = w /\ \A c \in Conns \ {b} : once'[c] = once[c]
    BY <1>1, <1>3 DEF BridgeType
  <2>4. conn' = [conn EXCEPT ![b] = "closed"] /\ conn'[b] = "closed" BY <1>1, <1>3 DEF ConnClose, BridgeType
  <2>5. Writing(b)' BY <1>2, <1>3, <1>u, <2>1 DEF Writing, Open, Wrte
  <2>6. Served(b)' BY <1>2, <1>3, <1>b, <1>n, <1>u, <2>3, <2>4 DEF Served
  <2> QED BY <1>0, <1>1, <1>3, <1>b, <2>1, <2>2, <2>3, <2>4, <2>5, <2>6, CopyingInv DEF BridgeType
<1>c. ASSUME Copy(b, w, "ended")
      PROVE  /\ copying' \in [Conns -> [Ways -> {"none", "copy", "payload", "over", "ended"}]]
             /\ copying'[b][w] = "ended" /\ (\A v \in Ways \ {w} : copying'[b][v] = copying[b][v])
             /\ (\A c \in Conns \ {b} : copying'[c] = copying[c]) /\ (copying'[b].up = "payload" <=> copying[b].up = "payload")
  <2>1. /\ copying' \in [Conns -> [Ways -> {"none", "copy", "payload", "over", "ended"}]]
        /\ copying'[b][w] = "ended" /\ (\A v \in Ways \ {w} : copying'[b][v] = copying[b][v])
        /\ \A c \in Conns \ {b} : copying'[c] = copying[c]
    BY <1>0, <1>c, Copied
  <2> QED BY <1>0, <1>n, <2>1
<1>4. CASE once[b] = w /\ once' = [once EXCEPT ![b] = "done"] /\ StreamClose(b) /\ Copy(b, w, "ended") /\ UNCHANGED conn
  <2>1. /\ Frames' /\ WireType' /\ writer' = writer
        /\ adb' \in [Conns -> {"none", "opening", "refused", "open", "closed"}] /\ adb'[b] = "closed"
        /\ \A c \in Conns \ {b} : adb'[c] = adb[c]
    BY <1>4, <1>u, StreamClosed
  <2>2. /\ once' \in [Conns -> Ways \cup {Nobody, "done"}] /\ once'[b] = "done" /\ \A c \in Conns \ {b} : once'[c] = once[c]
    BY <1>1, <1>4 DEF BridgeType
  <2>3. Writing(b)' BY <1>2, <1>4, <1>c, <1>u, <2>1 DEF Writing, Open, Wrte
  <2>4. conn[b] = "closed" BY <1>2, <1>4, <1>n DEF Served
  <2>5. Served(b)' BY <1>2, <1>4, <1>b, <1>u, <2>1, <2>2, <2>4 DEF Served
  <2> QED BY <1>0, <1>4, <1>b, <1>c, <2>1, <2>2, <2>3, <2>5, CopyingInv
<1>5. CASE once[b] = "done" /\ Copy(b, w, "ended") /\ UNCHANGED <<once, conn, adb, wireVars>>
  <2>1. UNCHANGED <<reader, writer, due, cut, misframed>> BY <1>5 DEF wireVars
  <2>2. WireType' /\ Frames' BY <1>1, <1>u, <2>1 DEF WireType, Frames, Framed
  <2>3. Writing(b)' BY <1>2, <1>5, <1>c, <1>u, <2>1 DEF Writing, Open, Wrte
  <2>4. Served(b)' BY <1>2, <1>5, <1>b, <1>u DEF Served
  <2> QED BY <1>0, <1>1, <1>5, <1>b, <1>c, <2>1, <2>2, <2>3, <2>4, CopyingInv DEF BridgeType
<1> QED BY <1>3, <1>4, <1>5 DEF closeBoth

-----------------------------------------------------------------------------
(* The process.                                                            *)

LEMMA ForwardNextInv == ForwardInv /\ [ForwardNext]_allVars => ForwardInv'
<1> SUFFICES ASSUME ForwardInv, [ForwardNext]_allVars PROVE ForwardInv' OBVIOUS
<1>1. CASE UNCHANGED allVars BY <1>1, BelowSteps DEF allVars
<1>2. CASE UNCHANGED forwardVars /\ (Next \/ ConnectStep \/ cancelWatch \/ deviceGreets \/ deviceStalls \/ deviceLost)
  BY <1>2, BelowSteps DEF Next
<1>3. CASE interrupt \/ usbCancel BY <1>3, InterruptInv
<1>4. CASE watchStep \/ acceptFails \/ acceptDone BY <1>4, WatchInv, AcceptLoopInv
<1>5. CASE ReaderStep \/ handleMessage BY <1>5, ReaderSteps
<1>6. CASE MainStep BY <1>6, CommandInv, MainClosesInv, CloseClientInv DEF MainStep
<1>7. ASSUME NEW b \in Conns, accept(b) \/ HandleConn(b) PROVE ForwardInv'
  <2>1. CASE accept(b) \/ openService(b) \/ writeOpen(b) \/ openEnds(b) BY <2>1, AcceptInv, OpenServiceInv, WriteOpenInv, OpenEndsInv
  <2>2. CASE addBoth(b) \/ startCopies(b) \/ copyUp(b) \/ bridgeEnds(b) BY <2>2, AddInv, StartCopiesInv, CopyUpInv, BridgeEndsInv
  <2>3. CASE \E w \in Ways : closeBoth(b, w) \/ bridgeCopyEnds(b, w) BY <2>3, CloseBothInv, CopyOverInv
  <2> QED BY <1>7, <2>1, <2>2, <2>3 DEF HandleConn
<1> QED BY <1>1, <1>2, <1>3, <1>4, <1>5, <1>6, <1>7 DEF ForwardNext

LEMMA ForwardProperties == ForwardInv => WaitMeansIdle /\ CloseEndsBridges
<1> SUFFICES ASSUME ForwardInv PROVE WaitMeansIdle /\ CloseEndsBridges OBVIOUS
<1>1. OneClose BY ForwardParts
<1>2. ASSUME NEW b \in Conns PROVE Served(b) /\ Registered(b) BY ForwardParts
<1>3. WaitMeansIdle
  <2> SUFFICES ASSUME acceptor = "done", NEW b \in Conns
               PROVE  at[b] \in {"none", "ended"} /\ conn[b] # "open" /\ adb[b] # "open"
    BY DEF WaitMeansIdle
  <2>1. Served(b) BY <1>2
  <2> QED BY <2>1 DEF Served
<1>4. CloseEndsBridges
  <2> SUFFICES ASSUME closed, ~Closing, NEW b \in Conns
               PROVE  /\ at[b] \in {"addStream", "closeLate", "copy", "bridge"} => conn[b] = "closed"
                      /\ at[b] \in {"copy", "bridge"} => adb[b] = "closed"
    BY DEF CloseEndsBridges
  <2>1. todo = {} BY <1>1 DEF OneClose
  <2>2. Registered(b) BY <1>2
  <2> QED BY <2>1, <2>2 DEF Registered
<1> QED BY <1>3, <1>4

LEMMA ForwardUnclobbered == ASSUME ForwardInv, [ForwardNext]_allVars PROVE Unclobbered
<1>1. ASSUME UNCHANGED worldVars PROVE Unclobbered BY <1>1 DEF Unclobbered, worldVars
<1>2. ASSUME [Next]_vars PROVE Unclobbered BY <1>2, NextUnclobbered DEF ForwardInv
<1>3. CASE UNCHANGED vars BY <1>2, <1>3
<1>4. CASE UNCHANGED forwardVars /\ (Next \/ ConnectStep \/ cancelWatch \/ deviceGreets \/ deviceStalls \/ deviceLost) BY <1>2, <1>4 DEF Next
<1>5. CASE interrupt \/ usbCancel \/ closeClient BY <1>1, <1>5 DEF interrupt, usbCancel, closeClient
<1>6. CASE watchStep \/ acceptFails \/ acceptDone \/ ReaderStep \/ handleMessage
  BY <1>3, <1>6 DEF watchStep, acceptFails, acceptDone, ReaderStep, readMessage, acknowledge, readLoopFails, handleMessage
<1>7. CASE startForward \/ connectFails \/ waitReturns \/ mainCloses
  BY <1>3, <1>7 DEF startForward, connectFails, waitReturns, mainCloses
<1>8. ASSUME NEW b \in Conns, accept(b) \/ HandleConn(b) PROVE Unclobbered
  <2>1. UNCHANGED vars
    BY <1>8 DEF accept, HandleConn, openService, writeOpen, openEnds, addBoth, startCopies, copyUp, bridgeEnds, closeBoth,
                bridgeCopyEnds, sameBridge
  <2> QED BY <1>3, <2>1
<1>9. UNCHANGED allVars => UNCHANGED vars BY DEF allVars
<1> QED BY <1>3, <1>4, <1>5, <1>6, <1>7, <1>8, <1>9 DEF ForwardNext, MainStep

\* The invariant of a process of adb-go: that of its client, of its bridges and of
\* the wire.
THEOREM ForwardInvariant == ForwardSpec => []ForwardInv
<1>1. ForwardInit => ForwardInv BY ForwardInitInv
<1>2. ForwardInv /\ [ForwardNext]_allVars => ForwardInv' BY ForwardNextInv
<1> QED BY <1>1, <1>2, PTL DEF ForwardSpec

\* Every variable keeps its type, and writeMu is locked only by a goroutine that is
\* in the middle of its message, for any number of connections and operations.
THEOREM ForwardTypeCorrect == ForwardSpec => []ForwardTypeOK
<1>1. ForwardInv => ForwardTypeOK BY DEF ForwardInv
<1> QED BY <1>1, ForwardInvariant, PTL

\* When Forward.Wait returns, nothing serves a connection and nothing is open.
THEOREM ForwardWaits == ForwardSpec => []WaitMeansIdle
<1>1. ForwardInv => WaitMeansIdle BY ForwardProperties
<1> QED BY <1>1, ForwardInvariant, PTL

\* When Forward.Close has run, every bridge is closed, also of the connections that
\* addActive came too late for.
THEOREM ForwardCloses == ForwardSpec => []CloseEndsBridges
<1>1. ForwardInv => CloseEndsBridges BY ForwardProperties
<1> QED BY <1>1, ForwardInvariant, PTL

\* The device takes no header for a payload while no write of a payload has failed.
THEOREM ForwardFramed == ForwardSpec => []Framed
<1>1. ForwardInv => Framed BY DEF ForwardInv, Frames
<1> QED BY <1>1, ForwardInvariant, PTL

\* In a process of adb-go, too, an operation that reports success has done it ...
THEOREM ProcessSucceeds == ForwardSpec => []SuccessMeansDone
<1>1. ForwardInv => SuccessMeansDone BY ClientProperties DEF ForwardInv
<1> QED BY <1>1, ForwardInvariant, PTL

\* ... leaves nothing behind ...
THEOREM ProcessLeavesNothing == ForwardSpec => []LeavesNothingBehind
<1>1. ForwardInv => LeavesNothingBehind BY ClientProperties DEF ForwardInv
<1> QED BY <1>1, ForwardInvariant, PTL

\* ... and replaces no file that it was not told to.
THEOREM ProcessNoClobber == ForwardSpec => NoClobber
<1>1. ForwardInv /\ [ForwardNext]_allVars => [Unclobbered]_vars BY ForwardUnclobbered
<1> QED BY <1>1, ForwardInvariant, PTL DEF ForwardSpec, NoClobber, Unclobbered
==============================================================================

-------------------------- MODULE ForwardBridgeProofs --------------------------
(***************************************************************************)
(* Proofs about the bridges of ForwardRegistry: whatever a removal closes   *)
(* between two steps of a bridge's setup, the bridge closes all it opened   *)
(* before it ends, and the status summary accounts for it until then.  The  *)
(* argument is that what setClient and setStream have not stored yet is     *)
(* exactly what the bridge's goroutine is about to store (Stored).          *)
(***************************************************************************)
EXTENDS ForwardRegistryProofs, FiniteSetTheorems

Unstarted == {"none", "accepted", "connect"}
Cleaned == {"removeActive", "done"}

\* Before ConnectTCP there is nothing to close, and an open client or stream is
\* one that close will find, unless setClient is the next step.
Stored ==
    \A c \in Conns :
      /\ bridge[c] \in Unstarted => client[c] = "none" /\ stream[c] = "none" /\ known[c] = {}
      /\ bridge[c] \in {"setClient", "open"} => stream[c] = "none"
      /\ client[c] = "open" => bridge[c] = "setClient" \/ "client" \in known[c]
      /\ stream[c] = "open" => "client" \in known[c]
      /\ bridge[c] \in {"open", "setStream"} => "client" \in known[c]

\* Once the deferred close has run, everything is closed and stays so.
Closed ==
    \A c \in Conns : bridge[c] \in Cleaned =>
      host[c] = "closed" /\ client[c] # "open" /\ stream[c] # "open"

\* A host connection exists exactly as long as its bridge has been thought of,
\* and entry.active of its owner, and no other, has it while the bridge runs.
Accounted ==
    /\ \A c \in Conns : bridge[c] = "none" => owner[c] = 0
    /\ \A c \in Conns : bridge[c] = "none" <=> host[c] = "none"
    /\ \A c \in Conns, e \in Entries :
         c \in active[e] <=> e = owner[c] /\ bridge[c] \notin {"none", "accepted", "done"}

BInv == Stored /\ Closed /\ Accounted

\* The invariant of the bridges holds of a new registry.
LEMMA InitBridges == Init => BInv
  BY DEF Init, BInv, Stored, Closed, Accounted, Cleaned, Unstarted

\* Closing some connections, by a removal or by the bridge itself, with the
\* bridges where they are.
LEMMA CloseBridges ==
    ASSUME TypeOK, BInv, NEW set, closeConns(set), UNCHANGED <<active, owner, known, bridge>>
    PROVE  BInv'
<1> USE DEF BInv
<1>t. host \in [Conns -> Handles] /\ client \in [Conns -> Handles] /\ stream \in [Conns -> Handles]
  BY DEF TypeOK, ConnType
<1>1. \A c \in Conns : /\ host'[c] = host[c] \/ (host[c] = "open" /\ host'[c] = "closed")
                       /\ client'[c] = client[c] \/ (client[c] = "open" /\ client'[c] = "closed")
                       /\ stream'[c] = stream[c] \/ (stream[c] = "open" /\ stream'[c] = "closed")
  BY <1>t DEF closeConns, Shut
<1>2. Stored' BY <1>1 DEF Stored
<1>3. Closed' BY <1>1 DEF Closed
<1>4. Accounted' BY <1>1 DEF Accounted
<1> QED BY <1>2, <1>3, <1>4

\* Requests reach the bridges only through forwardConn.close.
LEMMA RequestBridges ==
    ASSUME IInv, BInv, NEW p \in Callers, CallerStep(p) \/ Request(p)
    PROVE  BInv'
<1>t. TypeOK BY DEF IInv
<1>1. \/ UNCHANGED <<active, connVars>>
      \/ \E set : closeConns(set) /\ UNCHANGED <<active, owner, known, bridge>>
  <2>1. CASE create(p) BY <2>1 DEF create, removeLocked, entryVars
  <2>2. CASE listen(p) \/ listenError(p) BY <2>2 DEF listen, listenError, entryVars
  <2>3. CASE register(p) BY <2>3 DEF register
  <2>4. CASE remove(p) \/ removeAll(p) BY <2>4 DEF remove, removeAll, removeLocked
  <2> QED BY <2>1, <2>2, <2>3, <2>4 DEF CallerStep, Request
<1>2. CASE UNCHANGED <<active, connVars>>
  BY <1>2 DEF connVars, BInv, Stored, Closed, Accounted
<1> QED BY <1>1, <1>2, <1>t, CloseBridges

\* acceptAndBridge hands each connection to one bridge.
LEMMA AcceptBridges ==
    ASSUME IInv, BInv, NEW e \in Entries, accept(e) \/ addActive(e) \/ acceptFails(e)
    PROVE  BInv'
<1> USE DEF BInv
<1>t. /\ active \in [Entries -> SUBSET Conns] /\ owner \in [Conns -> Entries \cup {0}]
      /\ host \in [Conns -> Handles] /\ bridge \in [Conns -> BridgeLabels] /\ 0 \notin Entries
      /\ \A c \in Conns : bridge[c] # "none" => owner[c] \in Entries
  BY EntriesNat DEF IInv, TypeOK, EntryType, ConnType
<1>1. CASE accept(e)
  <2>1. PICK c \in Conns :
          /\ host[c] = "none" /\ host' = [host EXCEPT ![c] = "open"]
          /\ owner' = [owner EXCEPT ![c] = e] /\ bridge' = [bridge EXCEPT ![c] = "accepted"]
    BY <1>1 DEF accept
  <2>2. UNCHANGED <<active, client, stream, known>> BY <1>1 DEF accept
  <2>3. bridge[c] = "none" BY <2>1 DEF Accounted
  <2>4. Stored' BY <2>1, <2>2, <2>3, <1>t DEF Stored, Unstarted
  <2>5. Closed' BY <2>1, <2>2, <1>t DEF Closed, Cleaned
  <2>6. Accounted' BY <2>1, <2>2, <2>3, <1>t DEF Accounted
  <2> QED BY <2>4, <2>5, <2>6
<1>2. CASE addActive(e)
  <2>1. PICK c \in Conns :
          /\ owner[c] = e /\ bridge[c] = "accepted"
          /\ active' = [active EXCEPT ![e] = @ \cup {c}] /\ bridge' = [bridge EXCEPT ![c] = "connect"]
    BY <1>2 DEF addActive
  <2>2. UNCHANGED <<owner, host, client, stream, known>> BY <1>2 DEF addActive
  <2>3. Stored' BY <2>1, <2>2, <1>t DEF Stored, Unstarted
  <2>4. Closed' BY <2>1, <2>2, <1>t DEF Closed, Cleaned
  <2>5. Accounted' BY <2>1, <2>2, <1>t DEF Accounted
  <2> QED BY <2>3, <2>4, <2>5
<1>3. CASE acceptFails(e) BY <1>3 DEF acceptFails, connVars, Stored, Closed, Accounted
<1> QED BY <1>1, <1>2, <1>3

\* Every step of a bridge keeps the invariant.
LEMMA BridgeBridges ==
    ASSUME IInv, BInv, NEW c \in Conns, BridgeStep(c) \/ copyEnds(c)
    PROVE  BInv'
<1> USE DEF BInv, Goto
<1>t. /\ active \in [Entries -> SUBSET Conns] /\ owner \in [Conns -> Entries \cup {0}]
      /\ host \in [Conns -> Handles] /\ client \in [Conns -> Handles] /\ stream \in [Conns -> Handles]
      /\ known \in [Conns -> SUBSET {"client", "stream"}] /\ bridge \in [Conns -> BridgeLabels]
      /\ \A d \in Conns : bridge[d] # "none" => owner[d] \in Entries
  BY DEF IInv, TypeOK, EntryType, ConnType
<1>1. UNCHANGED owner
  BY DEF BridgeStep, connectTCP, setClient, openService, setStream, recordForwardError, recordForwardSuccess,
         copyMustEnd, copyEnds, firstCopyDone, secondCopyDone, deferredClose, removeActive, bridgeFrame
<1>2. CASE connectTCP(c) \/ setClient(c) \/ openService(c) \/ setStream(c)
  <2>1. UNCHANGED <<active, host>> BY <1>2 DEF connectTCP, setClient, openService, setStream
  <2>2. Stored' BY <1>2, <1>t DEF connectTCP, setClient, openService, setStream, Stored, Unstarted
  <2>3. Closed' BY <1>2, <1>t DEF connectTCP, setClient, openService, setStream, Closed, Cleaned
  <2>4. Accounted' BY <1>1, <1>2, <2>1, <1>t DEF connectTCP, setClient, openService, setStream, Accounted
  <2> QED BY <2>2, <2>3, <2>4
<1>3. CASE recordForwardError(c) \/ recordForwardSuccess(c) \/ copyMustEnd(c) \/ copyEnds(c) \/ secondCopyDone(c)
  <2>1. UNCHANGED <<active, host, client, stream, known>>
    BY <1>3 DEF recordForwardError, recordForwardSuccess, copyMustEnd, copyEnds, secondCopyDone
  <2>2. /\ bridge[c] \in {"recordError", "recordSuccess", "copy", "drain"}
        /\ \E label \in {"copy", "drain", "deferredClose"} : bridge' = [bridge EXCEPT ![c] = label]
    BY <1>3, <1>t DEF recordForwardError, recordForwardSuccess, copyMustEnd, copyEnds, secondCopyDone
  <2>3. Stored' BY <2>1, <2>2, <1>t DEF Stored, Unstarted
  <2>4. Closed' BY <2>1, <2>2, <1>t DEF Closed, Cleaned
  <2>5. Accounted' BY <1>1, <2>1, <2>2, <1>t DEF Accounted
  <2> QED BY <2>3, <2>4, <2>5
<1>4. CASE firstCopyDone(c) \/ deferredClose(c)
  <2>1. /\ closeConns({c}) /\ UNCHANGED <<active, known>>
        /\ \/ bridge[c] = "copy" /\ bridge' = [bridge EXCEPT ![c] = "drain"]
           \/ bridge[c] = "deferredClose" /\ bridge' = [bridge EXCEPT ![c] = "removeActive"]
    BY <1>4 DEF firstCopyDone, deferredClose
  <2>2. \A d \in Conns : d # c => host'[d] = host[d] /\ client'[d] = client[d] /\ stream'[d] = stream[d]
    BY <2>1 DEF closeConns
  <2>3. host[c] # "none" BY <2>1 DEF Accounted
  <2>4. host'[c] = "closed" /\ client'[c] # "open" /\ stream'[c] # "open"
    BY <2>1, <2>3, <1>t DEF closeConns, Shut, Stored, Handles
  <2>5. Stored' BY <2>1, <2>2, <2>4, <1>t DEF Stored, Unstarted
  <2>6. Closed' BY <2>1, <2>2, <2>4, <1>t DEF Closed, Cleaned
  <2>7. Accounted' BY <1>1, <2>1, <2>2, <2>3, <2>4, <1>t DEF Accounted
  <2> QED BY <2>5, <2>6, <2>7
<1>5. CASE removeActive(c)
  <2>1. /\ bridge[c] = "removeActive" /\ bridge' = [bridge EXCEPT ![c] = "done"]
        /\ active' = [active EXCEPT ![owner[c]] = @ \ {c}] /\ UNCHANGED <<host, client, stream, known>>
    BY <1>5 DEF removeActive
  <2>2. Stored' BY <2>1, <1>t DEF Stored, Unstarted
  <2>3. Closed' BY <2>1, <1>t DEF Closed, Cleaned
  <2>4. Accounted' BY <1>1, <2>1, <1>t DEF Accounted
  <2> QED BY <2>2, <2>3, <2>4
<1> QED BY <1>2, <1>3, <1>4, <1>5 DEF BridgeStep

\* BInv is inductive, relative to the invariant of the registry.
LEMMA NextBridges == ASSUME IInv, BInv, [Next]_vars PROVE BInv'
<1>1. CASE foreignListens \/ UNCHANGED vars
  BY <1>1 DEF foreignListens, vars, entryVars, connVars, BInv, Stored, Closed, Accounted
<1> QED BY <1>1, RequestBridges, AcceptBridges, BridgeBridges DEF Next

\* Bridges and what they have opened are accounted for in every reachable state.
THEOREM BridgeInvariant == Spec => []BInv
<1>1. Init => BInv BY InitBridges
<1>2. IInv /\ BInv /\ [Next]_vars => BInv' BY NextBridges
<1> QED BY <1>1, <1>2, RegistryInvariant, PTL DEF Spec

\* A bridge that has ended has closed its host connection, its ADB client and
\* its stream, for any number of forwards and connections and whenever removals
\* ran between two steps of its setup.
THEOREM BridgesCleanUp == Spec => []BridgeCleansUp
<1>1. IInv /\ BInv => BridgeCleansUp
  <2> SUFFICES ASSUME IInv, BInv, NEW c \in Conns, bridge[c] = "done"
               PROVE  host[c] = "closed" /\ client[c] # "open" /\ stream[c] # "open" /\ c \notin active[owner[c]]
    BY DEF BridgeCleansUp
  <2>1. owner[c] \in Entries BY DEF IInv, TypeOK, ConnType
  <2> QED BY <2>1 DEF BInv, Closed, Cleaned, Accounted
<1> QED BY <1>1, RegistryInvariant, BridgeInvariant, PTL

\* What diagnostics counts adds up: a listed forward is listening or degraded,
\* and the active connections of the listed forwards are the bridges that run.
LEMMA DiagnosticsCount == ASSUME IInv, BInv PROVE DiagnosticsAddUp
<1>t. byID \subseteq Entries /\ active \in [Entries -> SUBSET Conns] /\ 0 \notin Entries
  BY EntriesNat DEF IInv, TypeOK, IndexType, EntryType
<1> DEFINE listening == {e \in byID : state[e] = "listening"}
           degraded == {e \in byID : state[e] = "degraded"}
           running == {c \in Conns : owner[c] \in byID /\ bridge[c] \notin {"accepted", "done"}}
<1>1. IsFiniteSet(byID)
  <2>1. IsFiniteSet(Entries) BY FS_Interval, ForwardAssumption DEF Entries
  <2> QED BY <2>1, <1>t, FS_Subset
<1>2. IsFiniteSet(listening) /\ IsFiniteSet(degraded) BY <1>1, FS_Subset
<1>3. listening \cup degraded = byID /\ listening \cap degraded = {} BY DEF IInv, IndexAgrees
<1>4. Cardinality(byID) = Cardinality(listening) + Cardinality(degraded)
  <2>1. Cardinality(listening \cup degraded)
          = Cardinality(listening) + Cardinality(degraded) - Cardinality(listening \cap degraded)
    BY <1>2, FS_Union
  <2>2. Cardinality(listening \cap degraded) = 0 BY <1>3, FS_EmptySet
  <2> HIDE DEF listening, degraded
  <2>3. Cardinality(listening) \in Nat /\ Cardinality(degraded) \in Nat BY <1>2, FS_CardinalityType
  <2>4. Cardinality(byID) = Cardinality(listening \cup degraded) BY <1>3, Zenon
  <2> QED BY <2>1, <2>2, <2>3, <2>4
<1>5. UNION {active[e] : e \in byID} = running
  <2>1. ASSUME NEW c \in UNION {active[e] : e \in byID} PROVE c \in running
    <3>1. PICK e \in byID : c \in active[e] OBVIOUS
    <3>2. c \in Conns /\ e \in Entries BY <3>1, <1>t
    <3> QED BY <3>1, <3>2 DEF BInv, Accounted
  <2>2. ASSUME NEW c \in running PROVE c \in UNION {active[e] : e \in byID}
    <3>1. bridge[c] # "none" BY <1>t DEF BInv, Accounted
    <3>2. c \in active[owner[c]] BY <3>1, <1>t DEF BInv, Accounted
    <3> QED BY <3>2
  <2> QED BY <2>1, <2>2
<1> QED BY <1>4, <1>5 DEF DiagnosticsAddUp, diagnostics

\* The status summary accounts for every forward and every running bridge, for
\* any number of them.
THEOREM StatusAddsUp == Spec => []DiagnosticsAddUp
<1>1. IInv /\ BInv => DiagnosticsAddUp BY DiagnosticsCount
<1> QED BY <1>1, RegistryInvariant, BridgeInvariant, PTL
================================================================================

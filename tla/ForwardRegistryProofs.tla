------------------------- MODULE ForwardRegistryProofs -------------------------
(***************************************************************************)
(* Proofs about ForwardRegistry: the two indexes of the registry and the   *)
(* listeners stay consistent for any number of overlapping requests.  The  *)
(* argument rests on the operating system binding an address only once     *)
(* (Exclusive), on removeLocked doing all its work under r.mu, and on a    *)
(* create owning its entry alone until it registers it (Creating).         *)
(***************************************************************************)
EXTENDS ForwardRegistry, TLAPS

\* Entry ids are positive: 0 is free to mean "none".
LEMMA EntriesNat == Entries \subseteq Nat \ {0} /\ 0 \notin Entries
  BY ForwardAssumption DEF Entries

\* A new registry is well typed.
LEMMA InitType == Init => TypeOK
  BY DEF Init, TypeOK, IndexType, EntryType, ConnType, RequestType, Handles, BridgeLabels

\* forwardConn.close keeps the handles typed.
LEMMA CloseType ==
    ASSUME TypeOK, NEW set, closeConns(set), UNCHANGED <<owner, known, bridge, copies>>
    PROVE  ConnType'
  BY DEF TypeOK, ConnType, closeConns, Shut, Handles

\* removeLocked keeps every type.
LEMMA RemoveType ==
    ASSUME TypeOK, NEW set, removeLocked(set)
    PROVE  IndexType' /\ EntryType' /\ ConnType'
<1>1. IndexType' BY DEF TypeOK, IndexType, removeLocked, unindex
<1>2. EntryType' BY DEF TypeOK, EntryType, removeLocked, Handles
<1>3. ConnType' BY CloseType DEF removeLocked
<1> QED BY <1>1, <1>2, <1>3

\* Requests keep every type.
LEMMA RequestStepType ==
    ASSUME TypeOK, NEW p \in Callers, CallerStep(p) \/ Request(p)
    PROVE  TypeOK'
<1> USE DEF TypeOK
<1>1. CASE create(p)
  <2>1. PICK r \in Requests, nr \in BOOLEAN :
          /\ req' = [req EXCEPT ![p] = r]
          /\ norebind' = [norebind EXCEPT ![p] = nr]
          /\ \/ UNCHANGED <<pc, indexVars, entryVars, connVars>>
             \/ pc' = [pc EXCEPT ![p] = "listen"] /\ removeLocked({Lookup(r)} \ {0})
    BY <1>1 DEF create
  <2>2. IndexType' /\ EntryType' /\ ConnType'
    BY <2>1, RemoveType DEF indexVars, entryVars, connVars, IndexType, EntryType, ConnType
  <2>3. local' = local /\ creates' = creates + 1 /\ UNCHANGED <<cur, foreign>>
    BY <1>1, <2>1 DEF create, removeLocked, entryVars
  <2>4. RequestType' BY <1>1, <2>1, <2>3 DEF RequestType, create
  <2> QED BY <2>2, <2>4
<1>2. CASE listen(p)
  <2>1. PICK a \in Resolve[req[p]] :
          /\ cur' = [cur EXCEPT ![p] = nextID + 1]
          /\ local' = [local EXCEPT ![nextID + 1] = a]
          /\ listener' = [listener EXCEPT ![nextID + 1] = "open"]
          /\ state' = [state EXCEPT ![nextID + 1] = "listening"]
    BY <1>2 DEF listen
  <2>2. a \in Addresses BY <1>2, ForwardAssumption DEF listen, RequestType
  <2>3. IndexType' BY <1>2 DEF listen, IndexType
  <2>4. EntryType' BY <1>2, <2>1, <2>2 DEF listen, EntryType, Handles
  <2>5. ConnType' BY <1>2 DEF listen, ConnType, connVars
  <2>6. RequestType' BY <1>2, <2>1, <2>2 DEF listen, RequestType, EntryType
  <2> QED BY <2>3, <2>4, <2>5, <2>6
<1>3. CASE listenError(p)
  BY <1>3 DEF listenError, IndexType, EntryType, ConnType, RequestType, indexVars, entryVars, connVars
<1>4. CASE register(p)
  <2>1. cur[p] \in Entries /\ local[cur[p]] \in Addresses BY <1>4 DEF register, RequestType
  <2>2. IndexType' BY <1>4, <2>1 DEF register, IndexType
  <2>3. EntryType' BY <1>4, <2>1 DEF register, EntryType, Handles
  <2>4. ConnType' BY <1>4, CloseType DEF register
  <2>5. RequestType' BY <1>4 DEF register, RequestType
  <2> QED BY <2>2, <2>3, <2>4, <2>5
<1>5. CASE remove(p) \/ removeAll(p)
  <2>1. PICK set : removeLocked(set) BY <1>5 DEF remove, removeAll
  <2>2. RequestType' BY <1>5, <2>1 DEF remove, removeAll, removeLocked, RequestType, reqVars
  <2> QED BY <2>1, <2>2, RemoveType
<1> QED BY <1>1, <1>2, <1>3, <1>4, <1>5 DEF CallerStep, Request

\* acceptAndBridge keeps every type.
LEMMA AcceptType ==
    ASSUME TypeOK, NEW e \in Entries, accept(e) \/ addActive(e) \/ acceptFails(e)
    PROVE  TypeOK'
<1> USE DEF TypeOK
<1>1. IndexType' /\ RequestType'
  BY DEF accept, addActive, acceptFails, IndexType, RequestType, indexVars, reqVars
<1>2. EntryType' BY DEF accept, addActive, acceptFails, EntryType
<1>3. ConnType' BY DEF accept, addActive, acceptFails, ConnType, connVars, Handles, BridgeLabels
<1> QED BY <1>1, <1>2, <1>3

\* bridge keeps every type.
LEMMA BridgeType ==
    ASSUME TypeOK, NEW c \in Conns, BridgeStep(c) \/ copyEnds(c)
    PROVE  TypeOK'
<1> USE DEF TypeOK, Goto
<1>1. UNCHANGED bridgeFrame
  BY DEF BridgeStep, connectTCP, setClient, openService, setStream, recordForwardError, recordForwardSuccess,
         copyMustEnd, copyEnds, firstCopyDone, secondCopyDone, deferredClose, removeActive
<1>2. IndexType' /\ RequestType' BY <1>1 DEF IndexType, RequestType, bridgeFrame, indexVars, reqVars
<1>3. CASE connectTCP(c) \/ setClient(c) \/ openService(c) \/ setStream(c)
  BY <1>1, <1>2, <1>3 DEF connectTCP, setClient, openService, setStream, EntryType, ConnType, bridgeFrame, Handles,
                          BridgeLabels
<1>4. CASE recordForwardError(c) \/ recordForwardSuccess(c) \/ removeActive(c)
  <2>1. EntryType' BY <1>1, <1>4 DEF recordForwardError, recordForwardSuccess, removeActive, EntryType, bridgeFrame
  <2>2. ConnType'
    BY <1>1, <1>4 DEF recordForwardError, recordForwardSuccess, removeActive, ConnType, bridgeFrame, BridgeLabels
  <2> QED BY <1>2, <2>1, <2>2
<1>5. CASE copyMustEnd(c) \/ copyEnds(c) \/ secondCopyDone(c)
  <2>1. EntryType' BY <1>1, <1>5 DEF copyMustEnd, copyEnds, secondCopyDone, EntryType, bridgeFrame
  <2>2. ConnType'
    BY <1>1, <1>5 DEF copyMustEnd, copyEnds, secondCopyDone, ConnType, bridgeFrame, BridgeLabels
  <2> QED BY <1>2, <2>1, <2>2
<1>6. CASE firstCopyDone(c) \/ deferredClose(c)
  <2>1. EntryType' BY <1>1, <1>6 DEF firstCopyDone, deferredClose, EntryType, bridgeFrame
  <2>2. ConnType'
    BY <1>1, <1>6 DEF firstCopyDone, deferredClose, closeConns, Shut, ConnType, bridgeFrame, Handles, BridgeLabels
  <2> QED BY <1>2, <2>1, <2>2
<1> QED BY <1>3, <1>4, <1>5, <1>6 DEF BridgeStep

\* TypeOK is inductive.
LEMMA NextType == ASSUME TypeOK, [Next]_vars PROVE TypeOK'
<1>1. CASE foreignListens
  BY <1>1 DEF foreignListens, TypeOK, IndexType, EntryType, ConnType, RequestType, indexVars, entryVars, connVars,
              reqVars
<1>2. CASE UNCHANGED vars
  BY <1>2 DEF vars, TypeOK, IndexType, EntryType, ConnType, RequestType, indexVars, entryVars, connVars, reqVars
<1> QED BY <1>1, <1>2, RequestStepType, AcceptType, BridgeType DEF Next

\* The registry is well typed in every reachable state, for any number of
\* requests, forwards and connections.
THEOREM RegistryTypeCorrect == Spec => []TypeOK
<1>1. Init => TypeOK BY InitType
<1>2. TypeOK /\ [Next]_vars => TypeOK' BY NextType
<1> QED BY <1>1, <1>2, PTL DEF Spec

-----------------------------------------------------------------------------
(* The inductive invariant.                                                *)

\* No two open listeners share an address, among themselves or with others.
Exclusive ==
    /\ \A e \in Entries : listener[e] = "open" => local[e] \in Addresses \ foreign
    /\ \A e, f \in Entries : listener[e] = "open" /\ listener[f] = "open" /\ local[e] = local[f] => e = f

\* Ids that have not been allotted are untouched.
Fresh == \A e \in Entries : e > nextID => e \notin byID /\ listener[e] = "none" /\ acceptor[e] = "none"

\* A create that has bound its listener owns the entry alone: it is listed
\* nowhere, accepts nothing, and no other create has it.
Creating ==
    \A p \in Callers : pc[p] = "register" =>
      /\ cur[p] <= nextID /\ cur[p] \notin byID
      /\ listener[cur[p]] = "open" /\ state[cur[p]] = "listening" /\ acceptor[cur[p]] = "none"
      /\ \A q \in Callers \ {p} : pc[q] = "register" => cur[q] # cur[p]

\* Only entries whose accept loop was started have connections.
OwnerStarted == \A c \in Conns : bridge[c] # "none" => acceptor[owner[c]] # "none"

IInv == TypeOK /\ IndexAgrees /\ NoListenerLeak /\ Exclusive /\ Fresh /\ Creating /\ OwnerStarted

\* The invariant holds of a new registry.
LEMMA InitInv == Init => IInv
<1> SUFFICES ASSUME Init PROVE IInv OBVIOUS
<1>1. TypeOK BY InitType
<1> QED BY <1>1 DEF Init, IInv, IndexAgrees, NoListenerLeak, Exclusive, Fresh, Creating, OwnerStarted

\* What the two lookups find is a listed forward, or nothing.
LEMMA LookupListed ==
    ASSUME IInv
    PROVE  /\ \A r \in Requests : {Lookup(r)} \ {0} \subseteq byID
           /\ SecondLookupFindsNothing
<1>1. \A r \in Requests : {Lookup(r)} \ {0} \subseteq byID BY DEF IInv, IndexAgrees, Lookup
<1>2. SecondLookupFindsNothing
  <2> SUFFICES ASSUME NEW p \in Callers, pc[p] = "register" PROVE byLocal[local[cur[p]]] = 0
    BY DEF SecondLookupFindsNothing
  <2>1. cur[p] \in Entries /\ local[cur[p]] \in Addresses BY DEF IInv, TypeOK, RequestType
  <2>2. cur[p] \notin byID /\ listener[cur[p]] = "open" BY DEF IInv, Creating
  <2>3. byID \subseteq Entries BY DEF IInv, TypeOK, IndexType
  <2>4. ASSUME byLocal[local[cur[p]]] # 0 PROVE FALSE
    BY <2>1, <2>2, <2>3, <2>4 DEF IInv, IndexAgrees, Exclusive
  <2> QED BY <2>4
<1> QED BY <1>1, <1>2

\* removeLocked of listed forwards, with the requests' variables as a create
\* or a remove leaves them.
LEMMA RemoveInv ==
    ASSUME IInv, TypeOK', NEW set \in SUBSET byID, removeLocked(set), UNCHANGED <<cur, foreign>>,
           \A p \in Callers : pc'[p] = "register" => pc[p] = "register",
           \A p \in Callers : pc[p] = "register" => pc'[p] = "register"
    PROVE  IInv'
<1> USE DEF IInv
<1>1. /\ byID' = byID \ set
      /\ byLocal' = [a \in Addresses |-> IF \E e \in set : local[e] = a THEN 0 ELSE byLocal[a]]
      /\ listener' = [e \in Entries |-> IF e \in set THEN "closed" ELSE listener[e]]
      /\ state' = [e \in Entries |-> IF e \in set THEN "stopped" ELSE state[e]]
      /\ UNCHANGED <<nextID, local, acceptor, owner, bridge>>
  BY DEF removeLocked, unindex
<1>2. byID \subseteq Entries /\ \A e \in byID : local[e] \in Addresses
  BY DEF TypeOK, IndexType, IndexAgrees, Exclusive
<1>3. IndexAgrees'
  <2>1. ASSUME NEW e \in byID' PROVE /\ byLocal'[local'[e]] = e /\ listener'[e] = "open" /\ acceptor'[e] # "none"
                                     /\ state'[e] \in {"listening", "degraded"}
    BY <1>1, <1>2 DEF IndexAgrees
  <2>2. ASSUME NEW a \in Addresses, byLocal'[a] # 0 PROVE byLocal'[a] \in byID' /\ local'[byLocal'[a]] = a
    BY <1>1, <1>2, <2>2 DEF IndexAgrees
  <2> QED BY <2>1, <2>2 DEF IndexAgrees
<1>4. NoListenerLeak' BY <1>1 DEF NoListenerLeak
<1>5. Exclusive' BY <1>1 DEF Exclusive
<1>6. Fresh' BY <1>1 DEF Fresh
<1>7. Creating'
  <2> SUFFICES ASSUME NEW p \in Callers, pc'[p] = "register"
               PROVE  /\ cur'[p] <= nextID' /\ cur'[p] \notin byID'
                      /\ listener'[cur'[p]] = "open" /\ state'[cur'[p]] = "listening" /\ acceptor'[cur'[p]] = "none"
                      /\ \A q \in Callers \ {p} : pc'[q] = "register" => cur'[q] # cur'[p]
    BY DEF Creating
  <2>1. cur[p] \in Entries BY DEF TypeOK, RequestType
  <2> QED BY <1>1, <2>1 DEF Creating
<1>8. OwnerStarted' BY <1>1 DEF OwnerStarted
<1> QED BY <1>3, <1>4, <1>5, <1>6, <1>7, <1>8

\* net.Listen binds an address nobody has, for an id nobody has.
LEMMA ListenInv == ASSUME IInv, TypeOK', NEW p \in Callers, listen(p) PROVE IInv'
<1> USE DEF IInv
<1>1. PICK a \in Resolve[req[p]] :
        /\ ~Bound(a)
        /\ cur' = [cur EXCEPT ![p] = nextID + 1]
        /\ local' = [local EXCEPT ![nextID + 1] = a]
        /\ listener' = [listener EXCEPT ![nextID + 1] = "open"]
        /\ state' = [state EXCEPT ![nextID + 1] = "listening"]
  BY DEF listen
<1>2. /\ nextID' = nextID + 1 /\ nextID + 1 \in Entries /\ pc' = [pc EXCEPT ![p] = "register"]
      /\ UNCHANGED <<byID, byLocal, acceptor, owner, bridge, foreign>>
  BY DEF listen, connVars
<1>3. a \in Addresses BY ForwardAssumption DEF listen, TypeOK, RequestType
<1>n. PICK n \in Entries : n = nextID + 1 BY <1>2
<1>4. /\ n \notin byID /\ listener[n] = "none" /\ acceptor[n] = "none"
      /\ \A q \in Callers : pc[q] = "register" => cur[q] # n
  BY <1>n, EntriesNat DEF Fresh, Creating, TypeOK, IndexType, RequestType
<1>t. /\ local \in [Entries -> Addresses \cup {None}] /\ listener \in [Entries -> Handles]
      /\ state \in [Entries -> {"none", "listening", "degraded", "stopped"}]
      /\ cur \in [Callers -> Entries \cup {0}] /\ pc \in [Callers -> {"idle", "listen", "register"}]
      /\ nextID \in Nat /\ byID \subseteq Entries
  BY DEF TypeOK, IndexType, EntryType, RequestType
<1>5. IndexAgrees'
  <2>1. \A e \in byID : e # n BY <1>4
  <2>2. \A f \in byID : f \in Entries /\ local'[f] = local[f] /\ listener'[f] = listener[f] /\ state'[f] = state[f]
    BY <1>1, <1>n, <1>t, <2>1
  <2>3. IndexAgrees /\ byID' = byID /\ byLocal' = byLocal BY <1>2
  <2>4. ASSUME NEW f \in byID'
        PROVE  /\ byLocal'[local'[f]] = f /\ listener'[f] = "open" /\ acceptor'[f] # "none"
               /\ state'[f] \in {"listening", "degraded"}
    BY <1>2, <2>2, <2>3 DEF IndexAgrees
  <2>5. ASSUME NEW b \in Addresses, byLocal'[b] # 0 PROVE byLocal'[b] \in byID' /\ local'[byLocal'[b]] = b
    BY <2>2, <2>3, <2>5 DEF IndexAgrees
  <2> QED BY <2>4, <2>5 DEF IndexAgrees
<1>6. NoListenerLeak'
  <2>1. ASSUME NEW e \in Entries, listener'[e] = "open", e # n PROVE e \in byID' \/ \E q \in Callers : pc'[q] = "register" /\ cur'[q] = e
    <3>1. listener[e] = "open" BY <1>1, <1>n, <1>t, <2>1
    <3>2. CASE e \in byID BY <1>2, <3>2
    <3>3. ASSUME NEW q \in Callers, pc[q] = "register", cur[q] = e PROVE pc'[q] = "register" /\ cur'[q] = e
      BY <1>1, <1>2, <1>t, <3>3 DEF listen
    <3> QED BY <3>1, <3>2, <3>3 DEF NoListenerLeak
  <2>2. pc'[p] = "register" /\ cur'[p] = n BY <1>1, <1>2, <1>n, <1>t
  <2> QED BY <2>1, <2>2 DEF NoListenerLeak
<1>7. Exclusive' BY <1>1, <1>2, <1>3, <1>n, <1>t DEF Exclusive, Bound
<1>8. Fresh' BY <1>1, <1>2, <1>n, <1>t, EntriesNat DEF Fresh
<1>9. Creating'
  <2>1. ASSUME NEW q \in Callers, pc'[q] = "register", q # p
        PROVE  /\ pc[q] = "register" /\ cur'[q] = cur[q] /\ cur[q] \in Entries /\ cur[q] # n /\ cur[q] \in Nat
    BY <1>1, <1>2, <1>4, <1>t, <2>1, EntriesNat DEF TypeOK, RequestType
  <2>2. cur'[p] = n BY <1>1, <1>n, <1>t
  <2> QED BY <1>1, <1>2, <1>n, <1>4, <1>t, <2>1, <2>2, EntriesNat DEF Creating
<1>10. OwnerStarted' BY <1>2 DEF OwnerStarted
<1> QED BY <1>5, <1>6, <1>7, <1>8, <1>9, <1>10

\* The second half of create registers its entry: it finds no forward to evict.
LEMMA RegisterInv == ASSUME IInv, TypeOK', NEW p \in Callers, register(p) PROVE IInv'
<1> USE DEF IInv
<1>p. pc[p] = "register" BY DEF register
<1>n. PICK n \in Entries : n = cur[p] /\ local[n] \in Addresses BY <1>p DEF TypeOK, RequestType
<1>0. byLocal[local[n]] = 0 BY <1>p, <1>n, LookupListed DEF SecondLookupFindsNothing
<1>t. /\ local \in [Entries -> Addresses \cup {None}] /\ listener \in [Entries -> Handles]
      /\ state \in [Entries -> {"none", "listening", "degraded", "stopped"}]
      /\ acceptor \in [Entries -> {"none", "accept", "add", "done"}]
      /\ byLocal \in [Addresses -> Entries \cup {0}]
      /\ cur \in [Callers -> Entries \cup {0}] /\ pc \in [Callers -> {"idle", "listen", "register"}]
      /\ nextID \in Nat /\ byID \subseteq Entries
  BY DEF TypeOK, IndexType, EntryType, RequestType
<1>1. /\ pc' = [pc EXCEPT ![p] = "idle"] /\ cur' = [cur EXCEPT ![p] = 0]
      /\ byID' = byID \cup {n} /\ byLocal' = [byLocal EXCEPT ![local[n]] = n]
      /\ acceptor' = [acceptor EXCEPT ![n] = "accept"]
      /\ UNCHANGED <<nextID, local, owner, bridge, foreign>>
  BY <1>n, <1>0 DEF register
<1>2. listener' = listener /\ state' = state BY <1>n, <1>0, <1>t DEF register
<1>3. /\ n \notin byID /\ n <= nextID /\ listener[n] = "open" /\ state[n] = "listening" /\ acceptor[n] = "none"
      /\ \A q \in Callers \ {p} : pc[q] = "register" => cur[q] # n
  BY <1>p, <1>n DEF Creating
<1>4. IndexAgrees'
  <2>1. ASSUME NEW e \in byID' PROVE /\ byLocal'[local'[e]] = e /\ listener'[e] = "open" /\ acceptor'[e] # "none"
                                     /\ state'[e] \in {"listening", "degraded"}
    BY <1>0, <1>1, <1>2, <1>3, <1>n, <1>t, EntriesNat DEF IndexAgrees
  <2>2. ASSUME NEW a \in Addresses, byLocal'[a] # 0 PROVE byLocal'[a] \in byID' /\ local'[byLocal'[a]] = a
    BY <1>0, <1>1, <1>n, <1>t, <2>2 DEF IndexAgrees
  <2> QED BY <2>1, <2>2 DEF IndexAgrees
<1>5. NoListenerLeak' BY <1>1, <1>2, <1>n, <1>t DEF NoListenerLeak
<1>6. Exclusive' BY <1>1, <1>2 DEF Exclusive
<1>7. Fresh' BY <1>1, <1>2, <1>3, <1>n, <1>t, EntriesNat DEF Fresh
<1>8. Creating'
  <2>1. ASSUME NEW q \in Callers, pc'[q] = "register"
        PROVE  pc[q] = "register" /\ q # p /\ cur'[q] = cur[q] /\ cur[q] \in Entries /\ cur[q] # n
    BY <1>1, <1>3, <1>t, <2>1 DEF TypeOK, RequestType
  <2> QED BY <1>1, <1>2, <1>t, <2>1 DEF Creating
<1>9. OwnerStarted'
  BY <1>1, <1>n, <1>t DEF OwnerStarted, TypeOK, ConnType
<1> QED BY <1>4, <1>5, <1>6, <1>7, <1>8, <1>9

\* Accepting and bridging touch no index and no listener; a bridge reports only
\* on a forward that was started.
LEMMA BridgingInv ==
    ASSUME IInv, TypeOK', UNCHANGED <<indexVars, local, listener, reqVars, foreign>>,
           \A e \in Entries : acceptor[e] = "none" <=> acceptor'[e] = "none",
           OwnerStarted',
           \A e \in Entries : \/ state'[e] = state[e]
                              \/ acceptor[e] # "none" /\ state'[e] \in {"listening", "degraded"}
    PROVE  IInv'
<1> USE DEF IInv
<1>t. byID \subseteq Entries BY DEF TypeOK, IndexType
<1>1. IndexAgrees' BY <1>t DEF IndexAgrees, indexVars
<1>2. NoListenerLeak' /\ Exclusive' /\ Fresh'
  BY DEF NoListenerLeak, Exclusive, Fresh, indexVars, reqVars
<1>3. Creating'
  <2>1. \A p \in Callers : pc[p] = "register" => cur[p] \in Entries BY DEF TypeOK, RequestType
  <2> QED BY <2>1 DEF Creating, indexVars, reqVars
<1> QED BY <1>1, <1>2, <1>3

\* acceptAndBridge keeps the invariant.
LEMMA AcceptInv ==
    ASSUME IInv, TypeOK', NEW e \in Entries, accept(e) \/ addActive(e) \/ acceptFails(e) PROVE IInv'
<1>1. UNCHANGED <<indexVars, local, listener, state, reqVars, foreign>>
  BY DEF accept, addActive, acceptFails
<1>t. acceptor \in [Entries -> {"none", "accept", "add", "done"}] /\ owner \in [Conns -> Entries \cup {0}]
      /\ bridge \in [Conns -> BridgeLabels] /\ \A c \in Conns : bridge[c] # "none" => owner[c] \in Entries
  BY DEF IInv, TypeOK, EntryType, ConnType
<1>2. \A f \in Entries : acceptor[f] = "none" <=> acceptor'[f] = "none"
  BY <1>t DEF accept, addActive, acceptFails
<1>3. OwnerStarted'
  BY <1>t, <1>2 DEF accept, addActive, acceptFails, connVars, OwnerStarted, IInv
<1> QED BY <1>1, <1>2, <1>3, BridgingInv

\* bridge keeps the invariant.
LEMMA BridgeInv == ASSUME IInv, TypeOK', NEW c \in Conns, BridgeStep(c) \/ copyEnds(c) PROVE IInv'
<1>1. UNCHANGED bridgeFrame
  BY DEF BridgeStep, connectTCP, setClient, openService, setStream, recordForwardError, recordForwardSuccess,
         copyMustEnd, copyEnds, firstCopyDone, secondCopyDone, deferredClose, removeActive
<1>t. bridge \in [Conns -> BridgeLabels] /\ owner \in [Conns -> Entries \cup {0}]
      /\ state \in [Entries -> {"none", "listening", "degraded", "stopped"}]
      /\ \A d \in Conns : bridge[d] # "none" => owner[d] \in Entries
  BY DEF IInv, TypeOK, EntryType, ConnType
<1>2. bridge[c] # "none" /\ \A d \in Conns : d # c => bridge'[d] = bridge[d]
  BY <1>t DEF BridgeStep, connectTCP, setClient, openService, setStream, recordForwardError, recordForwardSuccess,
         copyMustEnd, copyEnds, firstCopyDone, secondCopyDone, deferredClose, removeActive, Goto
<1>3. acceptor[owner[c]] # "none" BY <1>2 DEF IInv, OwnerStarted
<1>4. OwnerStarted' BY <1>1, <1>2, <1>3 DEF OwnerStarted, IInv, bridgeFrame
<1>5. \A e \in Entries : state'[e] = state[e] \/ (e = owner[c] /\ state'[e] \in {"listening", "degraded"})
  BY <1>t DEF BridgeStep, connectTCP, setClient, openService, setStream, recordForwardError, recordForwardSuccess,
         copyMustEnd, copyEnds, firstCopyDone, secondCopyDone, deferredClose, removeActive
<1> QED BY <1>1, <1>3, <1>4, <1>5, BridgingInv DEF bridgeFrame

\* IInv is inductive.
LEMMA NextInv == ASSUME IInv, [Next]_vars PROVE IInv'
<1>a. TypeOK' BY NextType DEF IInv
<1>t. pc \in [Callers -> {"idle", "listen", "register"}] BY DEF IInv, TypeOK, RequestType
<1>1. ASSUME NEW p \in Callers, CallerStep(p) \/ Request(p) PROVE IInv'
  <2>1. CASE create(p)
    <3>1. PICK r \in Requests :
            \/ UNCHANGED <<pc, indexVars, entryVars, connVars>>
            \/ pc' = [pc EXCEPT ![p] = "listen"] /\ removeLocked({Lookup(r)} \ {0})
      BY <2>1 DEF create
    <3>2. UNCHANGED <<cur, foreign>> /\ pc[p] = "idle" BY <2>1 DEF create
    <3>3. CASE UNCHANGED <<pc, indexVars, entryVars, connVars>>
      BY <1>a, <3>2, <3>3 DEF IInv, IndexAgrees, NoListenerLeak, Exclusive, Fresh, Creating, OwnerStarted, indexVars,
                              entryVars, connVars
    <3>4. CASE pc' = [pc EXCEPT ![p] = "listen"] /\ removeLocked({Lookup(r)} \ {0})
      <4>1. {Lookup(r)} \ {0} \in SUBSET byID BY LookupListed
      <4> QED BY <1>a, <1>t, <3>2, <3>4, <4>1, RemoveInv
    <3> QED BY <3>1, <3>3, <3>4
  <2>2. CASE listen(p) BY <1>a, <2>2, ListenInv
  <2>3. CASE listenError(p)
    BY <1>a, <1>t, <2>3 DEF listenError, IInv, IndexAgrees, NoListenerLeak, Exclusive, Fresh, Creating, OwnerStarted,
                            indexVars, entryVars, connVars
  <2>4. CASE register(p) BY <1>a, <2>4, RegisterInv
  <2>5. CASE remove(p) \/ removeAll(p)
    <3>1. PICK set \in SUBSET byID : removeLocked(set) BY <2>5 DEF remove, removeAll
    <3> QED BY <1>a, <2>5, <3>1, RemoveInv DEF remove, removeAll, reqVars
  <2> QED BY <1>1, <2>1, <2>2, <2>3, <2>4, <2>5 DEF CallerStep, Request
<1>2. ASSUME NEW e \in Entries, accept(e) \/ addActive(e) \/ acceptFails(e) PROVE IInv'
  BY <1>a, <1>2, AcceptInv
<1>3. ASSUME NEW c \in Conns, BridgeStep(c) \/ copyEnds(c) PROVE IInv' BY <1>a, <1>3, BridgeInv
<1>4. CASE foreignListens
  <2>1. UNCHANGED <<indexVars, entryVars, connVars, reqVars>> BY <1>4 DEF foreignListens
  <2>2. Exclusive' BY <1>4, <2>1 DEF foreignListens, Bound, Exclusive, IInv, entryVars
  <2> QED BY <1>a, <2>1, <2>2 DEF IInv, IndexAgrees, NoListenerLeak, Fresh, Creating, OwnerStarted, indexVars,
                                  entryVars, connVars, reqVars
<1>5. CASE UNCHANGED vars
  BY <1>a, <1>5 DEF vars, IInv, IndexAgrees, NoListenerLeak, Exclusive, Fresh, Creating, OwnerStarted, indexVars,
                    entryVars, connVars, reqVars
<1> QED BY <1>1, <1>2, <1>3, <1>4, <1>5 DEF Next

\* The ownership of listeners and ids behind the theorems below holds in every
\* reachable state.
THEOREM RegistryInvariant == Spec => []IInv
<1>1. Init => IInv BY InitInv
<1>2. IInv /\ [Next]_vars => IInv' BY NextInv
<1> QED BY <1>1, <1>2, PTL DEF Spec

\* For any number of overlapping creates, rebinds and removals, byID and
\* byLocal agree and every listed forward has its listener open.
THEOREM ListedForwardsListen == Spec => []IndexAgrees
<1>1. IInv => IndexAgrees BY DEF IInv
<1> QED BY <1>1, RegistryInvariant, PTL

\* No listener of the registry is left open without an owner.
THEOREM ListenersOwned == Spec => []NoListenerLeak
<1>1. IInv => NoListenerLeak BY DEF IInv
<1> QED BY <1>1, RegistryInvariant, PTL

\* The second lookup of create (forward_registry.go:87) never finds a forward,
\* so the branch that would register a closed listener is dead.
THEOREM SecondLookupDead == Spec => []SecondLookupFindsNothing
<1>1. IInv => SecondLookupFindsNothing BY LookupListed
<1> QED BY <1>1, RegistryInvariant, PTL
-----------------------------------------------------------------------------
(* The refinement.  SecondLookupFindsNothing is what makes it hold: a create *)
(* lists its forward under an address that is free.                         *)

\* removeLocked withdraws the addresses of the forwards it removes.
LEMMA RemoveWithdraws ==
    ASSUME IInv, NEW set, removeLocked(set),
           \A p \in Callers : cur'[p] = cur[p] /\ (pc'[p] = "register" <=> pc[p] = "register")
    PROVE  Table!Next
<1> DEFINE keys == {a \in Addresses : \E e \in set : local[e] = a}
<1>1. byLocal' = [a \in Addresses |-> IF a \in keys THEN 0 ELSE byLocal[a]] BY DEF removeLocked, unindex
<1>2. nextID' = nextID BY DEF removeLocked
<1>3. Table!Withdraw(keys) BY <1>1, <1>2 DEF Table!Withdraw, Spent
<1> QED BY <1>3 DEF Table!Next

\* The second half of create publishes its id under a free address.
LEMMA RegisterPublishes ==
    ASSUME IInv, NEW p \in Callers, register(p)
    PROVE  Table!Next
<1>p. pc[p] = "register" BY DEF register
<1>n. PICK n \in Entries : n = cur[p] /\ local[n] \in Addresses BY <1>p DEF IInv, TypeOK, RequestType
<1>0. byLocal[local[n]] = 0 BY <1>p, <1>n, LookupListed DEF SecondLookupFindsNothing
<1>t. /\ cur \in [Callers -> Entries \cup {0}] /\ pc \in [Callers -> {"idle", "listen", "register"}]
  BY DEF IInv, TypeOK, RequestType
<1>1. /\ pc' = [pc EXCEPT ![p] = "idle"] /\ cur' = [cur EXCEPT ![p] = 0] /\ nextID' = nextID
      /\ byLocal' = [byLocal EXCEPT ![local[n]] = n]
  BY <1>n, <1>0 DEF register
<1>2. n <= nextID /\ \A q \in Callers \ {p} : pc[q] = "register" => cur[q] # n BY <1>p, <1>n DEF IInv, Creating
<1>3. n \notin Spent BY <1>p, <1>n DEF Spent
<1>4. \A q \in Callers \ {p} : pc'[q] = pc[q] /\ cur'[q] = cur[q] BY <1>1, <1>t
<1>5. pc'[p] = "idle" BY <1>1, <1>t
<1>6. \A e \in Entries : (\A q \in Callers : pc'[q] = "register" => cur'[q] # e)
                     <=> (e = n \/ \A q \in Callers : pc[q] = "register" => cur[q] # e)
  BY <1>p, <1>n, <1>2, <1>4, <1>5
<1>7. Spent' = Spent \cup {n} BY <1>1, <1>2, <1>6 DEF Spent
<1>8. \E id \in Entries \ Spent, k \in Addresses :
        byLocal[k] = 0 /\ byLocal' = [byLocal EXCEPT ![k] = id] /\ Spent' = Spent \cup {id}
  BY <1>n, <1>0, <1>1, <1>3, <1>7
<1> QED BY <1>8 DEF Table!Next, Table!Publish

\* A step that leaves the index, the ids and what creates hold alone.
LEMMA StutterTable ==
    ASSUME UNCHANGED <<nextID, byLocal>>,
           \A p \in Callers : cur'[p] = cur[p] /\ (pc'[p] = "register" <=> pc[p] = "register")
    PROVE  UNCHANGED <<byLocal, Spent>>
  BY DEF Spent

\* Every step of the registry is a step of the table or leaves it alone.
LEMMA StepTable ==
    ASSUME IInv, [Next]_vars
    PROVE  [Table!Next]_<<byLocal, Spent>>
<1>t. /\ cur \in [Callers -> Entries \cup {0}] /\ pc \in [Callers -> {"idle", "listen", "register"}]
      /\ nextID \in Nat
  BY DEF IInv, TypeOK, RequestType, IndexType
<1>1. ASSUME NEW p \in Callers, create(p) PROVE Table!Next \/ UNCHANGED <<nextID, byLocal, pc, cur>>
  <2>1. PICK r \in Requests :
          \/ UNCHANGED <<pc, indexVars, entryVars, connVars>>
          \/ pc' = [pc EXCEPT ![p] = "listen"] /\ removeLocked({Lookup(r)} \ {0})
    BY <1>1 DEF create
  <2>2. UNCHANGED cur /\ pc[p] = "idle" BY <1>1 DEF create
  <2>3. CASE UNCHANGED <<pc, indexVars, entryVars, connVars>> BY <2>2, <2>3 DEF indexVars
  <2>4. CASE pc' = [pc EXCEPT ![p] = "listen"] /\ removeLocked({Lookup(r)} \ {0})
    BY <1>t, <2>2, <2>4, RemoveWithdraws
  <2> QED BY <2>1, <2>3, <2>4
<1>2. ASSUME NEW p \in Callers, listen(p)
      PROVE  UNCHANGED <<byLocal, Spent>>
  <2>1. /\ nextID' = nextID + 1 /\ cur' = [cur EXCEPT ![p] = nextID + 1] /\ pc' = [pc EXCEPT ![p] = "register"]
        /\ pc[p] = "listen" /\ byLocal' = byLocal
    BY <1>2 DEF listen
  <2>2. \A q \in Callers \ {p} : pc'[q] = pc[q] /\ cur'[q] = cur[q] BY <2>1, <1>t
  <2>3. pc'[p] = "register" /\ cur'[p] = nextID + 1 BY <2>1, <1>t
  <2>4. \A e \in Entries : e <= nextID' <=> e <= nextID \/ e = nextID + 1 BY <2>1, <1>t, EntriesNat
  <2>5. \A e \in Entries : e <= nextID => e # nextID + 1 BY <1>t, EntriesNat
  <2>6. \A e \in Entries : e # nextID + 1 =>
          ((\A q \in Callers : pc'[q] = "register" => cur'[q] # e) <=> (\A q \in Callers : pc[q] = "register" => cur[q] # e))
    BY <2>1, <2>2, <2>3
  <2> QED BY <2>1, <2>3, <2>4, <2>5, <2>6 DEF Spent
<1>3. ASSUME NEW p \in Callers, listenError(p)
      PROVE  /\ UNCHANGED <<nextID, byLocal, cur>>
             /\ \A q \in Callers : pc'[q] = "register" <=> pc[q] = "register"
  BY <1>3, <1>t DEF listenError, indexVars
<1>4. ASSUME NEW p \in Callers, remove(p) \/ removeAll(p) PROVE Table!Next
  <2>1. PICK set : removeLocked(set) BY <1>4 DEF remove, removeAll
  <2> QED BY <1>4, <2>1, RemoveWithdraws DEF remove, removeAll, reqVars
<1>5. ASSUME NEW e \in Entries, accept(e) \/ addActive(e) \/ acceptFails(e) PROVE UNCHANGED <<nextID, byLocal, pc, cur>>
  BY <1>5 DEF accept, addActive, acceptFails, indexVars, reqVars
<1>6. ASSUME NEW c \in Conns, BridgeStep(c) \/ copyEnds(c) PROVE UNCHANGED <<nextID, byLocal, pc, cur>>
  BY <1>6 DEF BridgeStep, connectTCP, setClient, openService, setStream, recordForwardError, recordForwardSuccess,
         copyMustEnd, copyEnds, firstCopyDone, secondCopyDone, deferredClose, removeActive, bridgeFrame, indexVars, reqVars
<1>7. CASE foreignListens \/ UNCHANGED vars
  BY <1>7, StutterTable DEF foreignListens, vars, indexVars, reqVars
<1>8. UNCHANGED <<nextID, byLocal, pc, cur>> => UNCHANGED <<byLocal, Spent>>
  BY StutterTable
<1>9. ASSUME NEW p \in Callers, CallerStep(p) \/ Request(p)
      PROVE  [Table!Next]_<<byLocal, Spent>>
  <2>1. CASE create(p) BY <1>1, <1>8, <2>1
  <2>2. CASE listen(p) BY <1>2, <2>2
  <2>3. CASE listenError(p) BY <1>3, <2>3, StutterTable
  <2>4. CASE register(p) BY <2>4, RegisterPublishes
  <2>5. CASE remove(p) \/ removeAll(p) BY <1>4, <2>5
  <2> QED BY <1>9, <2>1, <2>2, <2>3, <2>4, <2>5 DEF CallerStep, Request
<1> QED BY <1>5, <1>6, <1>7, <1>8, <1>9 DEF Next

\* forwardRegistry implements the table of mappings, for any number of requests,
\* addresses and forwards: a create lists a fresh id under a free address, and a
\* listed forward goes only by being removed.
THEOREM RegistryImplementsTable == Spec => ImplementsTable
<1>1. Init => Table!Init
  <2> SUFFICES ASSUME Init PROVE Table!Init OBVIOUS
  <2>1. \A e \in Entries : ~(e <= 0) BY EntriesNat
  <2> QED BY <2>1 DEF Init, Table!Init, Spent
<1>2. IInv /\ [Next]_vars => [Table!Next]_<<byLocal, Spent>> BY StepTable
<1> QED BY <1>1, <1>2, RegistryInvariant, PTL DEF Spec, ImplementsTable, Table!Spec
================================================================================

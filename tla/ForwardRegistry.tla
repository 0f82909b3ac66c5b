---------------------------- MODULE ForwardRegistry ----------------------------
(***************************************************************************)
(* The forwards adb-gos keeps in the background: forwardRegistry of         *)
(* internal/server/forward_registry.go.                                     *)
(*                                                                         *)
(* Callers are the goroutines that serve control requests (handleConn); a  *)
(* request may be create, remove or removeAll.  Every registered forward   *)
(* has a goroutine in acceptAndBridge and every accepted host connection   *)
(* one in bridge, with two copy goroutines.  A step is one critical section *)
(* of r.mu or forwardConn.mu, or one call that blocks.                      *)
(*                                                                         *)
(* The operating system (who may bind an address), the programs that dial  *)
(* the forward, and the ADB target are external.                            *)
(***************************************************************************)
EXTENDS Integers, FiniteSets

CONSTANTS
    Callers,       \* goroutines that serve control requests
    Requests,      \* local addresses a request can name
    Addresses,     \* local addresses a bound listener can report
    Resolve,       \* the addresses net.Listen may bind for a request
    None,          \* no address yet
    MaxForwards,   \* bound: calls of create
    MaxConns       \* bound: host connections accepted

ASSUME ForwardAssumption ==
    /\ Addresses \subseteq Requests
    /\ None \notin Requests
    /\ Resolve \in [Requests -> SUBSET Addresses]
    /\ MaxForwards \in Nat /\ MaxConns \in Nat

Entries == 1 .. MaxForwards
Conns == 1 .. MaxConns

VARIABLES
    \* the registry
    nextID,        \* r.nextID
    byID,          \* r.byID: the ids of registered entries
    byLocal,       \* r.byLocal: the id registered under an address, 0 for none
    \* forwardEntry, by id
    local,         \* forward.Local, the address the listener reports
    state,         \* forward.State
    listener,      \* entry.listener: "none", "open", "closed"
    active,        \* entry.active
    acceptor,      \* acceptAndBridge: "none", "accept", "add", "done"
    \* forwardConn
    owner,         \* the entry that accepted the connection
    host,          \* the host connection: "none", "open", "closed"
    client,        \* the ADB client of the bridge: "none", "open", "closed"
    stream,        \* its stream: "none", "open", "closed"
    known,         \* which of the two setClient and setStream have stored
    bridge,        \* the next step of the bridge's goroutine
    copies,        \* the copy goroutines still running
    \* control requests
    pc, req, norebind, cur,
    creates,       \* history: calls of create
    foreign        \* addresses other processes listen on

indexVars == <<nextID, byID, byLocal>>
entryVars == <<local, state, listener, active, acceptor>>
connVars  == <<owner, host, client, stream, known, bridge, copies>>
reqVars   == <<pc, req, norebind, cur, creates>>
vars == <<indexVars, entryVars, connVars, reqVars, foreign>>

Init ==
    /\ nextID = 0 /\ byID = {} /\ byLocal = [a \in Addresses |-> 0]
    /\ local = [e \in Entries |-> None]
    /\ state = [e \in Entries |-> "none"]
    /\ listener = [e \in Entries |-> "none"]
    /\ active = [e \in Entries |-> {}]
    /\ acceptor = [e \in Entries |-> "none"]
    /\ owner = [c \in Conns |-> 0]
    /\ host = [c \in Conns |-> "none"]
    /\ client = [c \in Conns |-> "none"]
    /\ stream = [c \in Conns |-> "none"]
    /\ known = [c \in Conns |-> {}]
    /\ bridge = [c \in Conns |-> "none"]
    /\ copies = [c \in Conns |-> {}]
    /\ pc = [p \in Callers |-> "idle"]
    /\ req = [p \in Callers |-> None]
    /\ norebind = [p \in Callers |-> FALSE]
    /\ cur = [p \in Callers |-> 0]
    /\ creates = 0
    /\ foreign = {}

-----------------------------------------------------------------------------
(* The operating system: an address has at most one listener.              *)

Bound(a) == a \in foreign \/ \E e \in Entries : listener[e] = "open" /\ local[e] = a

\* Another process starts or stops listening on an address.
foreignListens ==
    /\ \E a \in Addresses :
         \/ /\ ~Bound(a)
            /\ foreign' = foreign \cup {a}
         \/ /\ a \in foreign
            /\ foreign' = foreign \ {a}
    /\ UNCHANGED <<indexVars, entryVars, connVars, reqVars>>

-----------------------------------------------------------------------------
(* forwardConn.close and removeLocked.                                     *)

Shut(x) == IF x = "open" THEN "closed" ELSE x

\* Mutant: close does not close the stream and the ADB client.
closeConnsHostOnly(set) ==
    /\ host' = [c \in Conns |-> IF c \in set THEN Shut(host[c]) ELSE host[c]]
    /\ UNCHANGED <<stream, client>>

(***************************************************************************)
(* forwardConn.close closes what setClient and setStream have stored by    *)
(* then, and the host connection.  Closing an ADB client ends its streams. *)
(***************************************************************************)
closeConns(set) ==
    /\ host' = [c \in Conns |-> IF c \in set THEN Shut(host[c]) ELSE host[c]]
    /\ client' = [c \in Conns |-> IF c \in set /\ "client" \in known[c] THEN Shut(client[c]) ELSE client[c]]
    /\ stream' = [c \in Conns |-> IF c \in set /\ known[c] # {} THEN Shut(stream[c]) ELSE stream[c]]

\* Mutant: the address stays in byLocal.
unindexKeepsLocal(set) ==
    /\ byID' = byID \ set
    /\ UNCHANGED byLocal

unindex(set) ==
    /\ byID' = byID \ set
    /\ byLocal' = [a \in Addresses |-> IF \E e \in set : local[e] = a THEN 0 ELSE byLocal[a]]

\* Mutant: the listener of a removed forward stays open.
removeLockedKeepsListener(set) ==
    /\ unindex(set)
    /\ state' = [e \in Entries |-> IF e \in set THEN "stopped" ELSE state[e]]
    /\ closeConns(UNION {active[e] : e \in set})
    /\ UNCHANGED <<nextID, listener, local, active, acceptor, owner, known, bridge, copies>>

\* Mutant: a removal under way keeps the forward listed.
removeLockedKeepsState(set) ==
    /\ UNCHANGED <<byID, byLocal>>
    /\ state' = [e \in Entries |-> IF e \in set THEN "stopped" ELSE state[e]]
    /\ listener' = [e \in Entries |-> IF e \in set THEN "closed" ELSE listener[e]]
    /\ closeConns(UNION {active[e] : e \in set})
    /\ UNCHANGED <<nextID, local, active, acceptor, owner, known, bridge, copies>>

removeLocked(set) ==
    /\ unindex(set)
    /\ state' = [e \in Entries |-> IF e \in set THEN "stopped" ELSE state[e]]
    /\ listener' = [e \in Entries |-> IF e \in set THEN "closed" ELSE listener[e]]
    /\ closeConns(UNION {active[e] : e \in set})
    /\ UNCHANGED <<nextID, local, active, acceptor, owner, known, bridge, copies>>

-----------------------------------------------------------------------------
(* Control requests.                                                       *)

Lookup(r) == IF r \in Addresses THEN byLocal[r] ELSE 0

\* create up to net.Listen: the forward registered under the address that was
\* asked for is rejected or replaced.
create(p) ==
    /\ pc[p] = "idle" /\ creates < MaxForwards
    /\ creates' = creates + 1
    /\ \E r \in Requests, nr \in BOOLEAN :
         /\ req' = [req EXCEPT ![p] = r]
         /\ norebind' = [norebind EXCEPT ![p] = nr]
         /\ IF Lookup(r) # 0 /\ nr
              THEN UNCHANGED <<pc, indexVars, entryVars, connVars>>
              ELSE /\ pc' = [pc EXCEPT ![p] = "listen"]
                   /\ removeLocked({Lookup(r)} \ {0})
    /\ UNCHANGED <<cur, foreign>>

\* net.Listen, and nextForwardID, which nothing else looks at.
listen(p) ==
    /\ pc[p] = "listen" /\ nextID + 1 \in Entries
    /\ \E a \in Resolve[req[p]] :
         /\ ~Bound(a)
         /\ nextID' = nextID + 1
         /\ cur' = [cur EXCEPT ![p] = nextID + 1]
         /\ local' = [local EXCEPT ![nextID + 1] = a]
         /\ listener' = [listener EXCEPT ![nextID + 1] = "open"]
         /\ state' = [state EXCEPT ![nextID + 1] = "listening"]
    /\ pc' = [pc EXCEPT ![p] = "register"]
    /\ UNCHANGED <<byID, byLocal, active, acceptor, connVars, req, norebind, creates, foreign>>

\* Mutant: create goes on after net.Listen has failed.
listenErrorFallsThrough(p) ==
    /\ pc[p] = "listen"
    /\ pc' = [pc EXCEPT ![p] = "register"]
    /\ UNCHANGED <<indexVars, entryVars, connVars, req, norebind, cur, creates, foreign>>

\* net.Listen fails: the address is in use, or for any other reason (permission,
\* descriptors), with the same effect.
listenError(p) ==
    /\ pc[p] = "listen"
    /\ pc' = [pc EXCEPT ![p] = "idle"]
    /\ UNCHANGED <<indexVars, entryVars, connVars, req, norebind, cur, creates, foreign>>

(***************************************************************************)
(* The second half of create.  A forward found under the address the       *)
(* listener reports costs the NEW listener; with norebind the call fails,  *)
(* without it the old forward goes and the new one is registered.          *)
(***************************************************************************)
register(p) ==
    LET new == cur[p]
        old == byLocal[local[new]]
        found == old # 0
        refused == found /\ norebind[p]
        gone == IF found /\ ~norebind[p] THEN {old} ELSE {}
    IN  /\ pc[p] = "register"
        /\ pc' = [pc EXCEPT ![p] = "idle"]
        /\ cur' = [cur EXCEPT ![p] = 0]
        /\ listener' = [e \in Entries |-> IF e \in gone \/ (e = new /\ found) THEN "closed" ELSE listener[e]]
        /\ byID' = IF refused THEN byID ELSE (byID \ gone) \cup {new}
        /\ byLocal' = IF refused THEN byLocal ELSE [byLocal EXCEPT ![local[new]] = new]
        /\ state' = [e \in Entries |-> IF e \in gone THEN "stopped" ELSE state[e]]
        /\ acceptor' = IF refused THEN acceptor ELSE [acceptor EXCEPT ![new] = "accept"]
        /\ closeConns(UNION {active[e] : e \in gone})
        /\ UNCHANGED <<nextID, local, active, owner, known, bridge, copies, req, norebind, creates, foreign>>

\* remove, by id or by address; a selector that matches nothing is not found.
remove(p) ==
    /\ pc[p] = "idle"
    /\ \/ \E e \in byID : removeLocked({e})
       \/ \E a \in Addresses : byLocal[a] \in byID /\ removeLocked({byLocal[a]})
    /\ UNCHANGED <<reqVars, foreign>>

\* removeAll, for the request and for close on shutdown.
removeAll(p) ==
    /\ pc[p] = "idle" /\ byID # {}
    /\ removeLocked(byID)
    /\ UNCHANGED <<reqVars, foreign>>

-----------------------------------------------------------------------------
(* acceptAndBridge.                                                        *)

\* A program dials the forward and Accept returns its connection.
accept(e) ==
    /\ acceptor[e] = "accept" /\ listener[e] = "open"
    /\ \E c \in Conns :
         /\ host[c] = "none" /\ \A d \in Conns : d < c => host[d] # "none"
         /\ host' = [host EXCEPT ![c] = "open"]
         /\ owner' = [owner EXCEPT ![c] = e]
         /\ bridge' = [bridge EXCEPT ![c] = "accepted"]
    /\ acceptor' = [acceptor EXCEPT ![e] = "add"]
    /\ UNCHANGED <<indexVars, local, state, listener, active, client, stream, known, copies,
                   reqVars, foreign>>

\* addActive, then the bridge's goroutine is started.
addActive(e) ==
    /\ acceptor[e] = "add"
    /\ \E c \in Conns :
         /\ owner[c] = e /\ bridge[c] = "accepted"
         /\ active' = [active EXCEPT ![e] = @ \cup {c}]
         /\ bridge' = [bridge EXCEPT ![c] = "connect"]
    /\ acceptor' = [acceptor EXCEPT ![e] = "accept"]
    /\ UNCHANGED <<indexVars, local, state, listener, owner, host, client, stream, known, copies,
                   reqVars, foreign>>

\* Accept fails: the listener was closed, or it is open and the process is out
\* of descriptors.
acceptFails(e) ==
    /\ acceptor[e] = "accept"
    /\ acceptor' = [acceptor EXCEPT ![e] = "done"]
    /\ UNCHANGED <<indexVars, local, state, listener, active, connVars, reqVars, foreign>>

-----------------------------------------------------------------------------
(* bridge, for the connection c.                                           *)

bridgeFrame == <<indexVars, local, listener, acceptor, owner, reqVars, foreign>>

Goto(c, label) == bridge' = [bridge EXCEPT ![c] = label]

\* client.ConnectTCP, which ends within forwardSetupTimeout.
connectTCP(c) ==
    /\ bridge[c] = "connect"
    /\ \/ Goto(c, "setClient") /\ client' = [client EXCEPT ![c] = "open"]
       \/ Goto(c, "recordError") /\ UNCHANGED client
    /\ UNCHANGED <<bridgeFrame, state, active, host, stream, known, copies>>

\* Mutant: the ADB client is never stored.
setClientForgets(c) ==
    /\ bridge[c] = "setClient"
    /\ Goto(c, "open")
    /\ UNCHANGED <<bridgeFrame, state, active, host, client, stream, known, copies>>

setClient(c) ==
    /\ bridge[c] = "setClient"
    /\ known' = [known EXCEPT ![c] = @ \cup {"client"}]
    /\ Goto(c, "open")
    /\ UNCHANGED <<bridgeFrame, state, active, host, client, stream, copies>>

\* OpenService on the client, which a removal may have closed meanwhile.
openService(c) ==
    /\ bridge[c] = "open"
    /\ \/ /\ client[c] = "open"
          /\ stream' = [stream EXCEPT ![c] = "open"]
          /\ Goto(c, "setStream")
       \/ /\ Goto(c, "recordError")
          /\ UNCHANGED stream
    /\ UNCHANGED <<bridgeFrame, state, active, host, client, known, copies>>

setStream(c) ==
    /\ bridge[c] = "setStream"
    /\ known' = [known EXCEPT ![c] = @ \cup {"stream"}]
    /\ Goto(c, "recordSuccess")
    /\ UNCHANGED <<bridgeFrame, state, active, host, client, stream, copies>>

recordForwardError(c) ==
    /\ bridge[c] = "recordError"
    /\ state' = [state EXCEPT ![owner[c]] = "degraded"]
    /\ Goto(c, "deferredClose")
    /\ UNCHANGED <<bridgeFrame, active, host, client, stream, known, copies>>

\* recordForwardSuccess, then the two copies start.
recordForwardSuccess(c) ==
    /\ bridge[c] = "recordSuccess"
    /\ state' = [state EXCEPT ![owner[c]] = "listening"]
    /\ copies' = [copies EXCEPT ![c] = {"fromHost", "fromDevice"}]
    /\ Goto(c, "copy")
    /\ UNCHANGED <<bridgeFrame, active, host, client, stream, known>>

\* A copy goroutine ends: its source reached EOF, or a side it uses is closed.
copyEnds(c) ==
    /\ bridge[c] \in {"copy", "drain"}
    /\ \E k \in copies[c] : copies' = [copies EXCEPT ![c] = @ \ {k}]
    /\ UNCHANGED <<bridgeFrame, bridge, state, active, host, client, stream, known>>

\* A copy whose source is closed is not blocked in Read: it ends.
copyMustEnd(c) ==
    /\ bridge[c] \in {"copy", "drain"}
    /\ \E k \in copies[c] :
         /\ (IF k = "fromHost" THEN host[c] ELSE stream[c]) = "closed"
         /\ copies' = [copies EXCEPT ![c] = @ \ {k}]
    /\ UNCHANGED <<bridgeFrame, bridge, state, active, host, client, stream, known>>

\* Mutant: the bridge waits for the second copy without closing anything.
firstCopyDoneWaits(c) ==
    /\ bridge[c] = "copy" /\ Cardinality(copies[c]) < 2
    /\ Goto(c, "drain")
    /\ UNCHANGED <<bridgeFrame, state, active, host, client, stream, known, copies>>

\* <-copyDone; active.close(), which lets the other copy end.
firstCopyDone(c) ==
    /\ bridge[c] = "copy" /\ Cardinality(copies[c]) < 2
    /\ closeConns({c})
    /\ Goto(c, "drain")
    /\ UNCHANGED <<bridgeFrame, state, active, known, copies>>

secondCopyDone(c) ==
    /\ bridge[c] = "drain" /\ copies[c] = {}
    /\ Goto(c, "deferredClose")
    /\ UNCHANGED <<bridgeFrame, state, active, host, client, stream, known, copies>>

\* The deferred calls: active.close(), then removeActive.
deferredClose(c) ==
    /\ bridge[c] = "deferredClose"
    /\ closeConns({c})
    /\ Goto(c, "removeActive")
    /\ UNCHANGED <<bridgeFrame, state, active, known, copies>>

\* Mutant: a bridge that failed to set up stays in entry.active.
removeActiveCopiedOnly(c) ==
    /\ bridge[c] = "removeActive"
    /\ active' = IF stream[c] = "none" THEN active ELSE [active EXCEPT ![owner[c]] = @ \ {c}]
    /\ Goto(c, "done")
    /\ UNCHANGED <<bridgeFrame, state, host, client, stream, known, copies>>

removeActive(c) ==
    /\ bridge[c] = "removeActive"
    /\ active' = [active EXCEPT ![owner[c]] = @ \ {c}]
    /\ Goto(c, "done")
    /\ UNCHANGED <<bridgeFrame, state, host, client, stream, known, copies>>

-----------------------------------------------------------------------------
CallerStep(p) == listen(p) \/ listenError(p) \/ register(p)
Request(p) == create(p) \/ remove(p) \/ removeAll(p)

\* What a bridge does by itself; a copy may also end because a peer hung up.
BridgeStep(c) ==
    \/ connectTCP(c) \/ setClient(c) \/ openService(c) \/ setStream(c)
    \/ recordForwardError(c) \/ recordForwardSuccess(c) \/ copyMustEnd(c)
    \/ firstCopyDone(c) \/ secondCopyDone(c) \/ deferredClose(c) \/ removeActive(c)

Next ==
    \/ \E p \in Callers : CallerStep(p) \/ Request(p)
    \/ \E e \in Entries : accept(e) \/ addActive(e) \/ acceptFails(e)
    \/ \E c \in Conns : BridgeStep(c) \/ copyEnds(c)
    \/ foreignListens

Spec == Init /\ [][Next]_vars

\* Goroutines that can run do run, dials and opens end by their timeout, and
\* Accept on a closed listener returns.
Fairness ==
    /\ \A e \in Entries : WF_vars(addActive(e)) /\ WF_vars(listener[e] = "closed" /\ acceptFails(e))
    /\ \A c \in Conns : WF_vars(BridgeStep(c))

FairSpec == Spec /\ Fairness

-----------------------------------------------------------------------------
\* diagnostics: the summary the server's status reports.
diagnostics ==
    [total |-> Cardinality(byID),
     listening |-> Cardinality({e \in byID : state[e] = "listening"}),
     degraded |-> Cardinality({e \in byID : state[e] = "degraded"}),
     activeConnections |-> Cardinality(UNION {active[e] : e \in byID})]

Handles == {"none", "open", "closed"}
BridgeLabels == {"none", "accepted", "connect", "setClient", "open", "setStream", "recordError",
                 "recordSuccess", "copy", "drain", "deferredClose", "removeActive", "done"}

IndexType ==
    /\ nextID \in Nat /\ byID \subseteq Entries /\ byLocal \in [Addresses -> Entries \cup {0}]
EntryType ==
    /\ local \in [Entries -> Addresses \cup {None}]
    /\ state \in [Entries -> {"none", "listening", "degraded", "stopped"}]
    /\ listener \in [Entries -> Handles] /\ active \in [Entries -> SUBSET Conns]
    /\ acceptor \in [Entries -> {"none", "accept", "add", "done"}]
ConnType ==
    /\ owner \in [Conns -> Entries \cup {0}]
    /\ host \in [Conns -> Handles] /\ client \in [Conns -> Handles] /\ stream \in [Conns -> Handles]
    /\ known \in [Conns -> SUBSET {"client", "stream"}]
    /\ bridge \in [Conns -> BridgeLabels]
    /\ \A c \in Conns : bridge[c] # "none" => owner[c] \in Entries
    /\ copies \in [Conns -> SUBSET {"fromHost", "fromDevice"}]
RequestType ==
    /\ pc \in [Callers -> {"idle", "listen", "register"}]
    /\ req \in [Callers -> Requests \cup {None}] /\ norebind \in [Callers -> BOOLEAN]
    /\ cur \in [Callers -> Entries \cup {0}]
    /\ creates \in Nat /\ foreign \subseteq Addresses
    /\ \A p \in Callers :
         /\ pc[p] = "listen" => req[p] \in Requests
         /\ pc[p] = "register" => cur[p] \in Entries /\ local[cur[p]] \in Addresses

\* Every variable keeps its type: a bridge has the entry that accepted its
\* connection, and a create about to register has its entry and its address.
TypeOK == IndexType /\ EntryType /\ ConnType /\ RequestType

\* The two indexes agree, and a listed forward holds its port and was given an
\* accept loop: creates, rebinds and removals that overlap leave no forward whose
\* listener is closed, that nobody ever accepted for, or that cannot be removed by
\* its address.  (The loop may have ended since: a failed Accept leaves the forward
\* listed as it was, forward_registry.go:187-191.)
IndexAgrees ==
    /\ \A e \in byID :
         /\ byLocal[local[e]] = e /\ listener[e] = "open" /\ acceptor[e] # "none"
         /\ state[e] \in {"listening", "degraded"}
    /\ \A a \in Addresses : byLocal[a] # 0 => byLocal[a] \in byID /\ local[byLocal[a]] = a

\* Every open listener belongs to a listed forward or to a create on its way:
\* no port stays bound with nobody left to close it.
NoListenerLeak ==
    \A e \in Entries : listener[e] = "open" =>
      e \in byID \/ \E p \in Callers : pc[p] = "register" /\ cur[p] = e

\* The second lookup of create, after net.Listen, never finds a forward: a
\* rebind cannot close the listener it has just opened and register it closed.
SecondLookupFindsNothing ==
    \A p \in Callers : pc[p] = "register" => byLocal[local[cur[p]]] = 0

\* The status summary accounts for every forward and every running bridge,
\* whatever order failures, recoveries and removals were recorded in.
DiagnosticsAddUp ==
    /\ diagnostics.total = diagnostics.listening + diagnostics.degraded
    /\ diagnostics.activeConnections =
         Cardinality({c \in Conns : owner[c] \in byID /\ bridge[c] \notin {"accepted", "done"}})

\* A bridge that has ended, however removal interleaved with its setup, has
\* closed its host connection, its ADB client and its stream.
BridgeCleansUp ==
    \A c \in Conns : bridge[c] = "done" =>
      host[c] = "closed" /\ client[c] # "open" /\ stream[c] # "open" /\ c \notin active[owner[c]]

\* A bridge whose host connection is closed, as a removal does, comes to an
\* end, even if the removal ran before its client or stream existed.
BridgesEnd ==
    \A c \in Conns : (bridge[c] # "accepted" /\ host[c] = "closed") ~> (bridge[c] = "done")

\* Ids that are handed out and no longer in a create's hands.
Spent == {e \in Entries : e <= nextID /\ \A p \in Callers : pc[p] = "register" => cur[p] # e}

\* The table of mappings that callers rely on is byLocal.
Table == INSTANCE MappingTable WITH
    Keys <- Addresses, Ids <- Entries, NoId <- 0, table <- byLocal, spent <- Spent

\* forwardRegistry keeps the promise of MappingTable: however creates, rebinds
\* and removals overlap around net.Listen, a create lists a fresh id under a free
\* address, and a listed forward goes only by being removed.
ImplementsTable == Table!Spec

\* docs/persistent-forwarding-design.md:137: removing a forward closes all its
\* active bridged connections.
RemovalClosesBridges ==
    \A e \in Entries : e \notin byID => \A c \in active[e] : host[c] # "open"
=============================================================================

---------------------------- MODULE ReverseRegistry ----------------------------
(***************************************************************************)
(* Reverse forwards: reverseRegistry of internal/server/reverse_registry.go *)
(* composed with the client.Reverse session behind each entry              *)
(* (client/reverse.go).                                                     *)
(*                                                                         *)
(* Callers are the goroutines that serve control requests.  They hold the  *)
(* registry's mutex mu while they close a session, and closing waits for   *)
(* the session's bridges, whose callbacks take the same mutex: mu is        *)
(* therefore a variable.  Every session has a watcher, the goroutine        *)
(* ReverseTCPWithOptions starts, that closes it when its context ends, and  *)
(* one goroutine per connection the device opens (handleStream).            *)
(*                                                                         *)
(* The devices are external: each keeps a table of reverse listeners, by    *)
(* endpoint, that forward and killforward change whoever asks.              *)
(***************************************************************************)
EXTENDS Integers, FiniteSets

CONSTANTS
    Callers,       \* goroutines that serve control requests
    Devices,       \* targets of a request
    Remotes,       \* device-side endpoints
    Free,          \* the value of mu when nobody holds it
    MaxSessions,   \* bound: sessions created
    MaxBridges,    \* bound: connections the devices open
    MaxCreates,    \* bound: calls of create
    Losses         \* bound: the sessions whose device may drop the ADB connection

ASSUME ReverseAssumption ==
    /\ MaxSessions \in Nat /\ MaxBridges \in Nat /\ MaxCreates \in Nat
    /\ Free \notin Callers
    /\ Devices # {} /\ Remotes # {}
    /\ Callers \cap (1 .. MaxSessions) = {}

Sessions == 1 .. MaxSessions
Bridges == 1 .. MaxBridges
\* Goroutines that can be inside Reverse.Close: callers, and the watcher of
\* each session, which goes by the session's number.
Closers == Callers \cup Sessions

\* Fill the fields of entries and requests that do not exist yet.
AnyDevice == CHOOSE d \in Devices : TRUE
AnyRemote == CHOOSE r \in Remotes : TRUE

VARIABLES
    \* the registry
    mu,            \* r.mu: Free or the caller that holds it
    nextID,        \* r.nextID
    byID,          \* r.byID: the ids of registered entries
    byRemote,      \* r.byRemote: the id registered under an endpoint, 0 for none
    \* reverseEntry and client.Reverse, by id
    dev, rem,      \* entry.reverse.Target and .Remote
    state,         \* entry.reverse.State
    activeConns,   \* entry.reverse.ActiveConnections
    client,        \* the session's ADB client: "none", "open", "lost", "closed"
    handler,       \* the connection has the session's OpenHandler
    canceled,      \* reverseCtx is done
    closed,        \* session.closed, and its callbacks are nil
    active,        \* session.active
    activeBridges, \* session.activeBridges
    done,          \* session.done has its value: a Close has finished
    \* connections the devices open
    owner,         \* the session
    bridge,        \* the next step of its goroutine
    conn,          \* its stream and host connection are open
    count,         \* the number it reports
    \* goroutines that create and close
    pc,
    cur,           \* the session a caller is creating
    on,            \* the session being closed
    next,          \* what a caller does once its removals are done
    todo,          \* entries removeAll has still to remove
    wantDev, wantRem, norebind,  \* the parameters of the create
    creates,       \* history: calls of create
    kills,         \* history: killforward requests of a session
    \* the devices
    table          \* the session an endpoint is forwarded to, 0 for none

regVars     == <<nextID, byID, byRemote>>
entryVars   == <<dev, rem, state, activeConns>>
sessionVars == <<client, handler, canceled, closed, active, activeBridges, done>>
bridgeVars  == <<owner, bridge, conn, count>>
params      == <<wantDev, wantRem, norebind>>
procVars    == <<pc, cur, on, next, todo, params>>
histVars    == <<creates, kills>>
vars == <<mu, regVars, entryVars, sessionVars, bridgeVars, procVars, histVars, table>>

Init ==
    /\ mu = Free /\ nextID = 0 /\ byID = {} /\ byRemote = [r \in Remotes |-> 0]
    /\ dev = [e \in Sessions |-> AnyDevice]
    /\ rem = [e \in Sessions |-> AnyRemote]
    /\ state = [e \in Sessions |-> "none"]
    /\ activeConns = [e \in Sessions |-> 0]
    /\ client = [e \in Sessions |-> "none"]
    /\ handler = [e \in Sessions |-> FALSE]
    /\ canceled = [e \in Sessions |-> FALSE]
    /\ closed = [e \in Sessions |-> FALSE]
    /\ active = [e \in Sessions |-> {}]
    /\ activeBridges = [e \in Sessions |-> 0]
    /\ done = [e \in Sessions |-> FALSE]
    /\ owner = [b \in Bridges |-> 0]
    /\ bridge = [b \in Bridges |-> "none"]
    /\ conn = [b \in Bridges |-> FALSE]
    /\ count = [b \in Bridges |-> 0]
    /\ pc = [g \in Closers |-> IF g \in Callers THEN "idle" ELSE "off"]
    /\ cur = [p \in Callers |-> 0]
    /\ on = [g \in Closers |-> IF g \in Callers THEN 0 ELSE g]
    /\ next = [p \in Callers |-> "idle"]
    /\ todo = [p \in Callers |-> {}]
    /\ wantDev = [p \in Callers |-> AnyDevice] /\ wantRem = [p \in Callers |-> AnyRemote]
    /\ norebind = [p \in Callers |-> FALSE]
    /\ creates = 0
    /\ kills = [e \in Sessions |-> 0]
    /\ table = [d \in Devices |-> [r \in Remotes |-> 0]]

-----------------------------------------------------------------------------
(* Reverse.Close, by a caller or by the session's watcher.                 *)

Goto(g, label) == pc' = [pc EXCEPT ![g] = label]

\* A request is answered, which ends the life of its parameters.
Return(p) ==
    /\ Goto(p, "idle")
    /\ next' = [next EXCEPT ![p] = "idle"]
    /\ wantDev' = [wantDev EXCEPT ![p] = AnyDevice]
    /\ wantRem' = [wantRem EXCEPT ![p] = AnyRemote]
    /\ norebind' = [norebind EXCEPT ![p] = FALSE]

\* A caller goes on after its removals: with its create, or out of the request.
AfterRemovals(p) ==
    \/ next[p] = "idle" /\ Return(p)
    \/ next[p] # "idle" /\ Goto(p, next[p]) /\ UNCHANGED <<next, params>>

\* The watcher of a session wakes up when reverseCtx is done.
watch(e) ==
    /\ pc[e] = "watch" /\ canceled[e]
    /\ Goto(e, "close")
    /\ UNCHANGED <<mu, regVars, entryVars, sessionVars, bridgeVars, cur, on, next, todo, params, histVars, table>>

\* Where Close returns to: a caller closes the ADB client next.
AfterClose(g) == IF g \in Callers THEN "closeClient" ELSE "off"

\* Mutant: every Close goes through, not only the first.
closeAgain(g) ==
    /\ pc[g] = "close"
    /\ closed' = [closed EXCEPT ![on[g]] = TRUE]
    /\ Goto(g, "unhandle")
    /\ UNCHANGED <<mu, regVars, entryVars, client, handler, canceled, active, activeBridges, done, bridgeVars,
                   cur, on, next, todo, params, histVars, table>>

\* Under session.mu, once cancel has been called (in the step that leads here: by
\* removeLocked, by publish, or by whoever woke the watcher): the first Close marks
\* the session closed.
Close(g) ==
    /\ pc[g] = "close"
    /\ closed' = [closed EXCEPT ![on[g]] = TRUE]
    /\ Goto(g, IF closed[on[g]] THEN AfterClose(g) ELSE "unhandle")
    /\ UNCHANGED <<mu, regVars, entryVars, client, handler, canceled, active, activeBridges, done, bridgeVars,
                   cur, on, next, todo, params, histVars, table>>

RemoveOpenHandler(g) ==
    /\ pc[g] = "unhandle"
    /\ handler' = [handler EXCEPT ![on[g]] = FALSE]
    /\ Goto(g, "closeActive")
    /\ UNCHANGED <<mu, regVars, entryVars, client, canceled, closed, active, activeBridges, done, bridgeVars,
                   cur, on, next, todo, params, histVars, table>>

\* The streams and host connections of active when closed was set; nothing is
\* added to it after that.
closeActive(g) ==
    /\ pc[g] = "closeActive"
    /\ conn' = [b \in Bridges |-> conn[b] /\ b \notin active[on[g]]]
    /\ Goto(g, "killforward")
    /\ UNCHANGED <<mu, regVars, entryVars, sessionVars, owner, bridge, count,
                   cur, on, next, todo, params, histVars, table>>

(***************************************************************************)
(* removeReverse: adbd forgets the endpoint, whoever registered it, and    *)
(* answers with an error when it knows none.  Nothing reaches the device    *)
(* over a client that has been closed.  A failed cleanup degrades the entry *)
(* a caller is removing.                                                    *)
(***************************************************************************)
removeReverse(g) ==
    LET e == on[g]
        reached == client[e] = "open"
        ok == reached /\ table[dev[e]][rem[e]] # 0
    IN  /\ pc[g] = "killforward"
        /\ kills' = [kills EXCEPT ![e] = @ + 1]
        /\ table' = IF ok THEN [table EXCEPT ![dev[e]][rem[e]] = 0] ELSE table
        /\ state' = IF g \in Callers /\ ~ok /\ e # cur[g] THEN [state EXCEPT ![e] = "degraded"] ELSE state
        /\ Goto(g, "wait")
        /\ UNCHANGED <<mu, regVars, dev, rem, activeConns, sessionVars, bridgeVars,
                       cur, on, next, todo, params, creates>>

\* The goroutines bridgeWG counts.
InWaitGroup(b) == bridge[b] \notin {"none", "start", "done"}

\* bridgeWG.Wait, and the send on done.
bridgeWait(g) ==
    /\ pc[g] = "wait"
    /\ \A b \in Bridges : owner[b] = on[g] => ~InWaitGroup(b)
    /\ done' = [done EXCEPT ![on[g]] = TRUE]
    /\ Goto(g, AfterClose(g))
    /\ UNCHANGED <<mu, regVars, entryVars, client, handler, canceled, closed, active, activeBridges, bridgeVars,
                   cur, on, next, todo, params, histVars, table>>

Closing(g) ==
    Close(g) \/ RemoveOpenHandler(g) \/ closeActive(g) \/ removeReverse(g) \/ bridgeWait(g)

-----------------------------------------------------------------------------
(* The registry's requests.                                                *)

\* Mutant: an endpoint that was registered again keeps its old id.
unindexKeepsRemote(e) ==
    /\ byID' = byID \ {e}
    /\ UNCHANGED byRemote

unindex(e) ==
    /\ byID' = byID \ {e}
    /\ byRemote' = [byRemote EXCEPT ![rem[e]] = 0]

\* Mutant: Close is called on whatever the caller closed last.
removeLockedWrongEntry(p, e, rest, then) ==
    /\ mu' = p
    /\ unindex(e)
    /\ state' = [state EXCEPT ![e] = "stopped"]
    /\ canceled' = [canceled EXCEPT ![e] = TRUE]
    /\ todo' = [todo EXCEPT ![p] = rest]
    /\ next' = [next EXCEPT ![p] = then]
    /\ Goto(p, "close")
    /\ UNCHANGED <<on, nextID, dev, rem, activeConns, client, handler, closed, active, activeBridges, done,
                   bridgeVars, kills, table>>

\* The start of removeLocked, under mu, before session.Close: then says how
\* the caller goes on when all of rest has been removed too.
removeLocked(p, e, rest, then) ==
    /\ mu' = p
    /\ unindex(e)
    /\ state' = [state EXCEPT ![e] = "stopped"]
    /\ canceled' = [canceled EXCEPT ![e] = TRUE]
    /\ on' = [on EXCEPT ![p] = e]
    /\ todo' = [todo EXCEPT ![p] = rest]
    /\ next' = [next EXCEPT ![p] = then]
    /\ Goto(p, "close")
    /\ UNCHANGED <<nextID, dev, rem, activeConns, client, handler, closed, active, activeBridges, done,
                   bridgeVars, kills, table>>

\* Mutant: the ADB client of a removed entry stays open.
closeClientForgets(p) ==
    /\ pc[p] = "closeClient"
    /\ UNCHANGED <<client, conn>>
    /\ \/ /\ todo[p] # {}
          /\ Goto(p, "removeNext")
          /\ UNCHANGED <<mu, on, cur, next, params>>
       \/ /\ todo[p] = {}
          /\ AfterRemovals(p)
          /\ on' = [on EXCEPT ![p] = 0]
          /\ cur' = IF on[p] = cur[p] THEN [cur EXCEPT ![p] = 0] ELSE cur
          /\ mu' = IF next[p] = "index" THEN mu ELSE Free
    /\ UNCHANGED <<regVars, entryVars, handler, canceled, closed, active, activeBridges, done, owner, bridge, count,
                   todo, histVars, table>>

\* entry.client.Close ends removeLocked and closes the client's streams; mu is
\* released unless the caller goes on to register.
closeClient(p) ==
    /\ pc[p] = "closeClient"
    /\ client' = [client EXCEPT ![on[p]] = "closed"]
    /\ conn' = [b \in Bridges |-> conn[b] /\ owner[b] # on[p]]
    /\ \/ /\ todo[p] # {}
          /\ Goto(p, "removeNext")
          /\ UNCHANGED <<mu, on, cur, next, params>>
       \/ /\ todo[p] = {}
          /\ AfterRemovals(p)
          /\ on' = [on EXCEPT ![p] = 0]
          /\ cur' = IF on[p] = cur[p] THEN [cur EXCEPT ![p] = 0] ELSE cur
          /\ mu' = IF next[p] = "index" THEN mu ELSE Free
    /\ UNCHANGED <<regVars, entryVars, handler, canceled, closed, active, activeBridges, done, owner, bridge, count,
                   todo, histVars, table>>

\* removeAll goes on to the next entry of the map.
removeNext(p) ==
    /\ pc[p] = "removeNext"
    /\ \E e \in todo[p] : removeLocked(p, e, todo[p] \ {e}, next[p])
    /\ UNCHANGED <<cur, params, creates>>

remove(p) ==
    /\ pc[p] = "idle" /\ mu = Free
    /\ \/ \E e \in byID : removeLocked(p, e, {}, "idle")
       \/ \E r \in Remotes : byRemote[r] \in byID /\ removeLocked(p, byRemote[r], {}, "idle")
    /\ UNCHANGED <<cur, params, creates>>

removeAll(p) ==
    /\ pc[p] = "idle" /\ mu = Free
    /\ \E e \in byID : removeLocked(p, e, byID \ {e}, "idle")
    /\ UNCHANGED <<cur, params, creates>>

\* create up to ConnectTCP: the entry registered under the same endpoint, of
\* whatever device, is rejected or removed.
create(p) ==
    /\ pc[p] = "idle" /\ mu = Free
    /\ creates < MaxCreates
    /\ creates' = creates + 1
    /\ \E d \in Devices, r \in Remotes, nr \in BOOLEAN :
         \/ /\ byRemote[r] # 0 /\ nr
            /\ UNCHANGED <<mu, regVars, entryVars, sessionVars, bridgeVars, pc, on, next, todo, params, kills, table>>
         \/ /\ wantDev' = [wantDev EXCEPT ![p] = d]
            /\ wantRem' = [wantRem EXCEPT ![p] = r]
            /\ norebind' = [norebind EXCEPT ![p] = nr]
            /\ \/ /\ byRemote[r] # 0 /\ ~nr
                  /\ removeLocked(p, byRemote[r], {}, "connect")
               \/ /\ byRemote[r] = 0
                  /\ Goto(p, "connect")
                  /\ UNCHANGED <<mu, regVars, entryVars, sessionVars, bridgeVars, on, next, todo, kills, table>>
    /\ UNCHANGED cur

\* ConnectTCP, and nextReverseID under mu.
connect(p) ==
    /\ pc[p] = "connect" /\ mu = Free
    /\ nextID + 1 \in Sessions
    /\ nextID' = nextID + 1
    /\ cur' = [cur EXCEPT ![p] = nextID + 1]
    /\ dev' = [dev EXCEPT ![nextID + 1] = wantDev[p]]
    /\ rem' = [rem EXCEPT ![nextID + 1] = wantRem[p]]
    /\ state' = [state EXCEPT ![nextID + 1] = "listening"]
    /\ client' = [client EXCEPT ![nextID + 1] = "open"]
    /\ Goto(p, "register")
    /\ UNCHANGED <<mu, byID, byRemote, activeConns, handler, canceled, closed, active, activeBridges, done, bridgeVars,
                   on, next, todo, params, histVars, table>>

connectFails(p) ==
    /\ pc[p] = "connect"
    /\ Return(p)
    /\ UNCHANGED <<mu, regVars, entryVars, sessionVars, bridgeVars, cur, on, todo, histVars, table>>

\* ReverseTCPWithOptions: HandleOpen, then forward on the device, which
\* replaces what it has for the endpoint; the watcher is started.
registerReverse(p) ==
    LET e == cur[p] IN
    /\ pc[p] = "register"
    /\ client[e] = "open" /\ ~(norebind[p] /\ table[dev[e]][rem[e]] # 0)
    /\ handler' = [handler EXCEPT ![e] = TRUE]
    /\ table' = [table EXCEPT ![dev[e]][rem[e]] = e]
    /\ pc' = [pc EXCEPT ![p] = "publish", ![e] = "watch"]
    /\ UNCHANGED <<mu, regVars, entryVars, client, canceled, closed, active, activeBridges, done, bridgeVars,
                   cur, on, next, todo, params, histVars>>

\* The device refuses or is gone: the client is closed and the call fails.
registerFails(p) ==
    /\ pc[p] = "register"
    /\ client[cur[p]] # "open" \/ (norebind[p] /\ table[dev[cur[p]]][rem[cur[p]]] # 0)
    /\ client' = [client EXCEPT ![cur[p]] = "closed"]
    /\ cur' = [cur EXCEPT ![p] = 0]
    /\ Return(p)
    /\ UNCHANGED <<mu, regVars, entryVars, handler, canceled, closed, active, activeBridges, done, bridgeVars,
                   on, todo, histVars, table>>

\* The second lookup: an entry registered meanwhile is removed first, or, with
\* norebind, the new session is closed instead, which cancels it and so wakes its
\* watcher before session.mu is taken.
publish(p) ==
    LET old == byRemote[wantRem[p]] IN
    /\ pc[p] = "publish" /\ mu = Free
    /\ \/ /\ old = 0
          /\ mu' = p
          /\ Goto(p, "index")
          /\ UNCHANGED <<regVars, entryVars, sessionVars, bridgeVars, on, next, todo, kills, table>>
       \/ /\ old # 0 /\ ~norebind[p]
          /\ removeLocked(p, old, {}, "index")
       \/ /\ old # 0 /\ norebind[p]
          /\ mu' = p
          /\ on' = [on EXCEPT ![p] = cur[p]]
          /\ next' = [next EXCEPT ![p] = "idle"]
          /\ canceled' = [canceled EXCEPT ![cur[p]] = TRUE]
          /\ Goto(p, "close")
          /\ UNCHANGED <<regVars, entryVars, client, handler, closed, active, activeBridges, done,
                         bridgeVars, todo, kills, table>>
    /\ UNCHANGED <<cur, params, creates>>

\* The entry is registered and mu released.
index(p) ==
    /\ pc[p] = "index"
    /\ byID' = byID \cup {cur[p]}
    /\ byRemote' = [byRemote EXCEPT ![rem[cur[p]]] = cur[p]]
    /\ mu' = Free
    /\ cur' = [cur EXCEPT ![p] = 0]
    /\ Return(p)
    /\ UNCHANGED <<nextID, entryVars, sessionVars, bridgeVars, on, todo, histVars, table>>

-----------------------------------------------------------------------------
(* startBridge, handleStream, addBridge and removeBridge.                  *)

bridgeFrame == <<regVars, dev, rem, client, handler, canceled, closed, done, owner, procVars, histVars, table>>

Step(b, label) == bridge' = [bridge EXCEPT ![b] = label]

\* Mutant: a stream is taken although the session is closed.
startBridgeLate(b) ==
    /\ bridge[b] = "start"
    /\ Step(b, "dial") /\ UNCHANGED conn
    /\ UNCHANGED <<mu, bridgeFrame, state, activeConns, active, activeBridges, count>>

\* Under session.mu: bridgeWG.Add, unless the session is closed.
startBridge(b) ==
    /\ bridge[b] = "start"
    /\ \/ /\ closed[owner[b]]
          /\ Step(b, "done") /\ conn' = [conn EXCEPT ![b] = FALSE]
       \/ /\ ~closed[owner[b]]
          /\ Step(b, "dial") /\ UNCHANGED conn
    /\ UNCHANGED <<mu, bridgeFrame, state, activeConns, active, activeBridges, count>>

\* DialContext with reverseCtx.
dial(b) ==
    /\ bridge[b] = "dial"
    /\ \/ ~canceled[owner[b]] /\ Step(b, "add")
       \/ Step(b, "dialError")
    /\ UNCHANGED <<mu, bridgeFrame, state, activeConns, active, activeBridges, conn, count>>

\* OnBridgeError, if the field is not nil: it is read without session.mu, and
\* once, the compiler joining the two reads with no store between them.
bridgeError(b) ==
    /\ bridge[b] = "dialError"
    /\ Step(b, IF closed[owner[b]] THEN "giveUp" ELSE "errorCallback")
    /\ UNCHANGED <<mu, bridgeFrame, state, activeConns, active, activeBridges, conn, count>>

recordReverseError(b) ==
    /\ bridge[b] = "errorCallback" /\ mu = Free
    /\ state' = IF owner[b] \in byID THEN [state EXCEPT ![owner[b]] = "degraded"] ELSE state
    /\ Step(b, "giveUp")
    /\ UNCHANGED <<mu, bridgeFrame, activeConns, active, activeBridges, conn, count>>

\* stream.Close and bridgeWG.Done after a failed dial.
giveUp(b) ==
    /\ bridge[b] = "giveUp"
    /\ Step(b, "done")
    /\ conn' = [conn EXCEPT ![b] = FALSE]
    /\ UNCHANGED <<mu, bridgeFrame, state, activeConns, active, activeBridges, count>>

\* Mutant: the connections of a bridge that comes too late are not closed.
addBridgeKeepsOpen(b) ==
    /\ bridge[b] = "add"
    /\ \/ /\ closed[owner[b]]
          /\ Step(b, "copy")
          /\ UNCHANGED <<active, activeBridges, conn, count>>
       \/ /\ ~closed[owner[b]]
          /\ active' = [active EXCEPT ![owner[b]] = @ \cup {b}]
          /\ activeBridges' = [activeBridges EXCEPT ![owner[b]] = @ + 1]
          /\ count' = [count EXCEPT ![b] = activeBridges[owner[b]] + 1]
          /\ Step(b, "notifyAdd")
          /\ UNCHANGED conn
    /\ UNCHANGED <<mu, bridgeFrame, state, activeConns>>

\* addBridge under session.mu: a closed session closes the connections.
addBridge(b) ==
    /\ bridge[b] = "add"
    /\ \/ /\ closed[owner[b]]
          /\ conn' = [conn EXCEPT ![b] = FALSE]
          /\ Step(b, "copy")
          /\ UNCHANGED <<active, activeBridges, count>>
       \/ /\ ~closed[owner[b]]
          /\ active' = [active EXCEPT ![owner[b]] = @ \cup {b}]
          /\ activeBridges' = [activeBridges EXCEPT ![owner[b]] = @ + 1]
          /\ count' = [count EXCEPT ![b] = activeBridges[owner[b]] + 1]
          /\ Step(b, "notifyAdd")
          /\ UNCHANGED conn
    /\ UNCHANGED <<mu, bridgeFrame, state, activeConns>>

\* notifyActive reads the callback, which Close sets to nil under session.mu.
notifyActive(b) ==
    /\ bridge[b] \in {"notifyAdd", "notifyRemove"}
    /\ Step(b, CASE bridge[b] = "notifyAdd" /\ closed[owner[b]] -> "copy"
                 [] bridge[b] = "notifyAdd" /\ ~closed[owner[b]] -> "addCallback"
                 [] bridge[b] = "notifyRemove" /\ closed[owner[b]] -> "done"
                 [] bridge[b] = "notifyRemove" /\ ~closed[owner[b]] -> "removeCallback")
    /\ UNCHANGED <<mu, bridgeFrame, state, activeConns, active, activeBridges, conn, count>>

\* The callback: recordReverseActive, under the registry's mu.  Its second branch,
\* which makes a degraded entry without LastError listening again, is dead: whoever
\* degrades an entry sets LastError.
recordReverseActive(b) ==
    /\ bridge[b] \in {"addCallback", "removeCallback"} /\ mu = Free
    /\ activeConns' = IF owner[b] \in byID THEN [activeConns EXCEPT ![owner[b]] = count[b]] ELSE activeConns
    /\ Step(b, IF bridge[b] = "addCallback" THEN "copy" ELSE "done")
    /\ UNCHANGED <<mu, bridgeFrame, state, active, activeBridges, conn, count>>

\* One copy ends, because a peer hung up or the connections were closed:
\* closeBoth ends the other.
copyEnds(b) ==
    /\ bridge[b] = "copy"
    /\ conn' = [conn EXCEPT ![b] = FALSE]
    /\ Step(b, "remove")
    /\ UNCHANGED <<mu, bridgeFrame, state, activeConns, active, activeBridges, count>>

removeBridge(b) ==
    LET n == activeBridges[owner[b]] IN
    /\ bridge[b] = "remove"
    /\ active' = [active EXCEPT ![owner[b]] = @ \ {b}]
    /\ activeBridges' = [activeBridges EXCEPT ![owner[b]] = IF n > 0 THEN n - 1 ELSE n]
    /\ count' = [count EXCEPT ![b] = IF n > 0 THEN n - 1 ELSE n]
    /\ Step(b, "notifyRemove")
    /\ UNCHANGED <<mu, bridgeFrame, state, activeConns, conn>>

-----------------------------------------------------------------------------
(* The devices (external).                                                 *)

\* A program on the device connects to a forwarded endpoint: the OPEN reaches
\* the handler of the session the device has for it.
deviceConnects(e) ==
    /\ client[e] = "open" /\ handler[e] /\ table[dev[e]][rem[e]] = e
    /\ \E b \in Bridges :
         /\ bridge[b] = "none" /\ \A a \in Bridges : a < b => bridge[a] # "none"
         /\ owner' = [owner EXCEPT ![b] = e]
         /\ conn' = [conn EXCEPT ![b] = TRUE]
         /\ Step(b, "start")
    /\ UNCHANGED <<mu, regVars, entryVars, sessionVars, count, procVars, histVars, table>>

\* The ADB connection is lost, and its streams with it.
deviceLost(e) ==
    /\ e \in Losses /\ client[e] = "open"
    /\ client' = [client EXCEPT ![e] = "lost"]
    /\ conn' = [b \in Bridges |-> conn[b] /\ owner[b] # e]
    /\ UNCHANGED <<mu, regVars, entryVars, handler, canceled, closed, active, activeBridges, done,
                   owner, bridge, count, procVars, histVars, table>>

-----------------------------------------------------------------------------
CallerStep(p) ==
    \/ closeClient(p) \/ removeNext(p) \/ connect(p) \/ connectFails(p)
    \/ registerReverse(p) \/ registerFails(p) \/ publish(p) \/ index(p)

Request(p) == create(p) \/ remove(p) \/ removeAll(p)

BridgeStep(b) ==
    \/ startBridge(b) \/ dial(b) \/ bridgeError(b) \/ recordReverseError(b) \/ giveUp(b) \/ addBridge(b)
    \/ notifyActive(b) \/ recordReverseActive(b) \/ removeBridge(b)

Next ==
    \/ \E p \in Callers : CallerStep(p) \/ Request(p)
    \/ \E g \in Closers : Closing(g)
    \/ \E e \in Sessions : watch(e) \/ deviceConnects(e) \/ deviceLost(e)
    \/ \E b \in Bridges : BridgeStep(b) \/ copyEnds(b)

Spec == Init /\ [][Next]_vars

\* Goroutines that can run do run; a copy is only sure to end once its
\* connections are closed.
Fairness ==
    /\ \A p \in Callers : WF_vars(CallerStep(p) \/ Closing(p))
    /\ \A e \in Sessions : WF_vars(watch(e) \/ Closing(e))
    /\ \A b \in Bridges : WF_vars(BridgeStep(b)) /\ WF_vars(~conn[b] /\ copyEnds(b))

FairSpec == Spec /\ Fairness

\* Also, sync.Mutex is starvation free: whoever waits for mu gets it.
LockFairness ==
    /\ \A p \in Callers : SF_vars(CallerStep(p) \/ Closing(p))
    /\ \A b \in Bridges : SF_vars(BridgeStep(b))

LockFairSpec == FairSpec /\ LockFairness

-----------------------------------------------------------------------------
CloserLabels == {"close", "unhandle", "closeActive", "killforward", "wait"}
CallerLabels == CloserLabels \cup {"idle", "connect", "register", "publish", "index", "closeClient", "removeNext"}
BridgeLabels == {"none", "start", "dial", "dialError", "errorCallback", "giveUp", "add", "notifyAdd", "addCallback",
                 "copy", "remove", "notifyRemove", "removeCallback", "done"}

RegistryType ==
    /\ mu \in Callers \cup {Free} /\ nextID \in Nat
    /\ byID \subseteq Sessions /\ byRemote \in [Remotes -> Sessions \cup {0}]
EntryType ==
    /\ dev \in [Sessions -> Devices] /\ rem \in [Sessions -> Remotes]
    /\ state \in [Sessions -> {"none", "listening", "degraded", "stopped"}]
    /\ activeConns \in [Sessions -> Nat]
SessionType ==
    /\ client \in [Sessions -> {"none", "open", "lost", "closed"}]
    /\ handler \in [Sessions -> BOOLEAN] /\ canceled \in [Sessions -> BOOLEAN]
    /\ closed \in [Sessions -> BOOLEAN] /\ done \in [Sessions -> BOOLEAN]
    /\ active \in [Sessions -> SUBSET Bridges] /\ activeBridges \in [Sessions -> Nat]
BridgeType ==
    /\ owner \in [Bridges -> Sessions \cup {0}] /\ bridge \in [Bridges -> BridgeLabels]
    /\ conn \in [Bridges -> BOOLEAN] /\ count \in [Bridges -> Nat]
    /\ \A b \in Bridges : bridge[b] # "none" => owner[b] \in Sessions
ProcType ==
    /\ pc \in [Closers -> CallerLabels \cup {"off", "watch"}]
    /\ cur \in [Callers -> Sessions \cup {0}] /\ on \in [Closers -> Sessions \cup {0}]
    /\ next \in [Callers -> {"idle", "connect", "index"}] /\ todo \in [Callers -> SUBSET Sessions]
    /\ wantDev \in [Callers -> Devices] /\ wantRem \in [Callers -> Remotes] /\ norebind \in [Callers -> BOOLEAN]
    /\ creates \in Nat /\ kills \in [Sessions -> Nat]
    /\ table \in [Devices -> [Remotes -> Sessions \cup {0}]]

\* Every variable keeps its type, and a goroutine inside Close has a session.
TypeOK ==
    /\ RegistryType /\ EntryType /\ SessionType /\ BridgeType /\ ProcType
    /\ \A g \in Closers : pc[g] \in CloserLabels \cup {"closeClient"} => on[g] \in Sessions

\* The two indexes agree although create looks the endpoint up, unlocks and
\* looks again: each endpoint has one entry, found by its id and by its name.
IndexAgrees ==
    /\ \A e \in byID : byRemote[rem[e]] = e
    /\ \A r \in Remotes : byRemote[r] # 0 => byRemote[r] \in byID /\ rem[byRemote[r]] = r

\* A session is closed once and for all although a removal and its watcher both
\* call Close: killforward goes out at most once, and when a Close has finished no
\* bridge of the session is running and none can start.  bridgeWG.Wait misses
\* nobody, not even a stream that was accepted while the session was being closed.
SessionClosesOnce ==
    \A e \in Sessions :
      /\ kills[e] <= 1
      /\ done[e] => \A b \in Bridges : owner[b] = e => ~InWaitGroup(b)

\* Every open ADB client belongs to a listed entry, or to a caller that is still
\* creating or removing it.
NoClientLeak ==
    \A e \in Sessions : client[e] = "open" =>
      e \in byID \/ \E p \in Callers : pc[p] # "idle" /\ e \in {cur[p], on[p]} \cup todo[p]

\* A bridge of a closed session leaves its copy loop: Close, or addBridge when
\* it comes too late for Close, closes its connections.
ClosedBridgesUnblock ==
    \A b \in Bridges : (bridge[b] = "copy" /\ closed[owner[b]]) ~> (bridge[b] # "copy")

\* Ids that are handed out and no longer in a create's hands.
Spent == {e \in Sessions : e <= nextID /\ \A p \in Callers : pc[p] = "idle" \/ cur[p] # e}

\* The table of mappings that callers rely on is byRemote.
Table == INSTANCE MappingTable WITH
    Keys <- Remotes, Ids <- Sessions, NoId <- 0, table <- byRemote, spent <- Spent

\* reverseRegistry keeps the promise of MappingTable: although create lets go of
\* the mutex to connect and to register on the device, it lists a fresh id under
\* an endpoint that is free by then, and a listed reverse goes only by removal.
ImplementsTable == Table!Spec

\* docs/reverse-forwarding-design.md:213: Close closes what active bridges use
\* to unblock them; so a removal returns.
RemovalReturns == \A p \in Callers : pc[p] = "close" ~> pc[p] = "idle"
================================================================================

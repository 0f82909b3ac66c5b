------------------------ MODULE ReverseRegistryProofs ------------------------
(***************************************************************************)
(* Proofs about ReverseRegistry, for any number of requests, sessions,     *)
(* endpoints, devices and connections.                                     *)
(*                                                                         *)
(* The registry's half rests on r.mu: whoever removes or indexes an entry   *)
(* holds it from the first change of the indexes to the last (Locked), and  *)
(* until then a create owns its session alone (Creating).  The session's    *)
(* half rests on session.closed: whoever sets it is the one Close that goes *)
(* through (OneCloser).                                                     *)
(***************************************************************************)
EXTENDS ReverseRegistry, TLAPS

WatcherLabels == CloserLabels \cup {"off", "watch"}
\* Where a caller is inside removeLocked, or between two of removeAll's.
Removing == CloserLabels \cup {"closeClient", "removeNext"}
\* Inside the part of Close that only the first call runs.
Past == CloserLabels \ {"close"}

\* Watchers close their own session, and callers have labels of their own.
Roles ==
    /\ \A e \in Sessions : on[e] = e /\ pc[e] \in WatcherLabels
    /\ \A p \in Callers : pc[p] \in CallerLabels

\* r.mu is held exactly from the start of a removal, or of the last half of a
\* create, to its end.
Locked == \A p \in Callers : mu = p <=> pc[p] \in Removing \cup {"index"}

\* A create has a session from ConnectTCP to the end, nobody else has it, and the
\* indexes do not have it yet; once it holds r.mu to index it, its endpoint is free.
Creating ==
    \A p \in Callers :
      /\ pc[p] \in {"idle", "connect"} => cur[p] = 0
      /\ pc[p] \in {"register", "publish", "index"} => cur[p] \in Sessions
      /\ cur[p] # 0 => cur[p] <= nextID /\ cur[p] \notin byID /\ rem[cur[p]] = wantRem[p]
      /\ cur[p] # 0 => \A q \in Callers \ {p} : cur[q] # cur[p]
      /\ pc[p] = "index" => byRemote[wantRem[p]] = 0

\* A removal works on an entry that is no longer indexed, has still to remove
\* entries that are, and remembers why it was started.
Removals ==
    \A p \in Callers :
      /\ pc[p] \in Removing =>
           /\ on[p] \in Sessions /\ on[p] \notin byID /\ todo[p] \subseteq byID
           /\ todo[p] # {} => next[p] = "idle" /\ cur[p] = 0
           /\ next[p] = "idle" => cur[p] \in {0, on[p]}
           /\ next[p] = "connect" => cur[p] = 0
           /\ next[p] = "index" => cur[p] \in Sessions \ {on[p]} /\ byRemote[wantRem[p]] = 0
      /\ pc[p] \notin Removing => on[p] = 0 /\ todo[p] = {}
      /\ pc[p] = "removeNext" => client[on[p]] # "open"

RegInv ==
    /\ Roles /\ Locked /\ Creating /\ Removals
    /\ IndexAgrees /\ NoClientLeak
    /\ \A e \in byID : e <= nextID

\* Of all the Closes of a session one goes through; until it has asked for
\* killforward nobody has.
OneCloser ==
    /\ \A e \in Sessions : ~closed[e] => kills[e] = 0 /\ ~done[e]
    /\ \A g \in Closers : pc[g] \in Past =>
         /\ closed[on[g]]
         /\ pc[g] # "wait" => kills[on[g]] = 0
         /\ \A h \in Closers \ {g} : pc[h] \in Past => on[h] # on[g]

CloseInv == OneCloser /\ SessionClosesOnce

IInv == TypeOK /\ RegInv /\ CloseInv

-----------------------------------------------------------------------------
(* Types.                                                                  *)

\* Session ids are positive, so that 0 can mean "none", and no caller is one.
LEMMA SessionsNat == Sessions \subseteq Nat \ {0} /\ 0 \notin Sessions /\ \A p \in Callers : p \notin Sessions
  BY ReverseAssumption DEF Sessions

\* The values that fill fields which are not in use yet are of their type.
LEMMA Fillers == AnyDevice \in Devices /\ AnyRemote \in Remotes
  BY ReverseAssumption DEF AnyDevice, AnyRemote

\* A new registry is well typed and satisfies the invariant.
LEMMA InitInv == Init => IInv
<1> SUFFICES ASSUME Init PROVE IInv OBVIOUS
<1> USE SessionsNat
<1>1. RegistryType /\ EntryType /\ SessionType /\ BridgeType
  BY Fillers DEF Init, RegistryType, EntryType, SessionType, BridgeType, BridgeLabels
<1>2. ProcType
  BY Fillers DEF Init, ProcType, CallerLabels, CloserLabels, Closers
<1>3. \A g \in Closers : pc[g] \in {"idle", "off"} BY DEF Init
<1>4. TypeOK BY <1>1, <1>2, <1>3 DEF TypeOK, CloserLabels
<1>5. Roles BY DEF Init, Roles, Closers, WatcherLabels, CallerLabels
<1>6. Locked /\ Creating /\ Removals
  BY ReverseAssumption DEF Init, Locked, Creating, Removals, Removing, CloserLabels, Closers
<1>7. IndexAgrees /\ NoClientLeak BY DEF Init, IndexAgrees, NoClientLeak
<1>8. CloseInv BY <1>3 DEF Init, CloseInv, OneCloser, Past, CloserLabels, SessionClosesOnce
<1> QED BY <1>4, <1>5, <1>6, <1>7, <1>8 DEF IInv, RegInv, Init

\* Bridges and devices keep every type.
LEMMA BridgeTypes ==
    ASSUME TypeOK,
           \/ \E b \in Bridges : BridgeStep(b) \/ copyEnds(b)
           \/ \E e \in Sessions : deviceConnects(e) \/ deviceLost(e)
    PROVE  TypeOK'
<1> USE DEF TypeOK
<1>1. ASSUME NEW b \in Bridges, BridgeStep(b) \/ copyEnds(b) PROVE TypeOK'
  <2> USE DEF Step
  <2>1. UNCHANGED <<mu, bridgeFrame>>
    BY <1>1 DEF BridgeStep, startBridge, dial, bridgeError, recordReverseError, giveUp, addBridge, notifyActive,
                recordReverseActive, removeBridge, copyEnds
  <2>2. RegistryType' BY <2>1 DEF RegistryType, bridgeFrame, regVars
  <2>3. ProcType' /\ UNCHANGED <<pc, on>> BY <2>1 DEF ProcType, bridgeFrame, procVars, params, histVars
  <2>4. bridge[b] # "none" /\ owner[b] \in Sessions
    BY <1>1 DEF BridgeType, BridgeStep, startBridge, dial, bridgeError, recordReverseError, giveUp, addBridge,
                notifyActive, recordReverseActive, removeBridge, copyEnds
  <2>5. EntryType'
    BY <1>1, <2>1, <2>4 DEF EntryType, BridgeType, BridgeStep, startBridge, dial, bridgeError, recordReverseError,
                giveUp, addBridge, notifyActive, recordReverseActive, removeBridge, copyEnds, bridgeFrame
  <2>6. SessionType'
    BY <1>1, <2>1, <2>4 DEF SessionType, BridgeStep, startBridge, dial, bridgeError, recordReverseError,
                giveUp, addBridge, notifyActive, recordReverseActive, removeBridge, copyEnds, bridgeFrame
  <2>7. owner' = owner BY <2>1 DEF bridgeFrame
  <2>8. \E label \in BridgeLabels \ {"none"} : Step(b, label)
    BY <1>1 DEF BridgeLabels, BridgeStep, startBridge, dial, bridgeError, recordReverseError, giveUp, addBridge,
                notifyActive, recordReverseActive, removeBridge, copyEnds
  <2>9. conn' \in [Bridges -> BOOLEAN]
    BY <1>1 DEF BridgeType, BridgeStep, startBridge, dial, bridgeError, recordReverseError, giveUp, addBridge,
                notifyActive, recordReverseActive, removeBridge, copyEnds
  <2>10. count' \in [Bridges -> Nat]
    BY <1>1, <2>4 DEF SessionType, BridgeType, BridgeStep, startBridge, dial, bridgeError, recordReverseError, giveUp,
                addBridge, notifyActive, recordReverseActive, removeBridge, copyEnds
  <2>11. BridgeType' BY <2>4, <2>7, <2>8, <2>9, <2>10 DEF BridgeType
  <2> QED BY <2>2, <2>3, <2>5, <2>6, <2>11
<1>2. ASSUME NEW e \in Sessions, deviceConnects(e) PROVE TypeOK'
  <2>1. RegistryType' /\ EntryType' /\ SessionType' /\ ProcType' /\ UNCHANGED <<pc, on>>
    BY <1>2 DEF deviceConnects, RegistryType, EntryType, SessionType, ProcType, regVars, entryVars, sessionVars,
                procVars, params, histVars
  <2>2. BridgeType' BY <1>2 DEF deviceConnects, Step, BridgeType, BridgeLabels
  <2> QED BY <2>1, <2>2
<1>3. ASSUME NEW e \in Sessions, deviceLost(e) PROVE TypeOK'
  <2>1. RegistryType' /\ EntryType' /\ ProcType' /\ UNCHANGED <<pc, on>>
    BY <1>3 DEF deviceLost, RegistryType, EntryType, ProcType, regVars, entryVars, procVars, params, histVars
  <2>2. SessionType' /\ BridgeType' BY <1>3 DEF deviceLost, SessionType, BridgeType
  <2> QED BY <2>1, <2>2
<1> QED BY <1>1, <1>2, <1>3

\* Close, by whoever runs it, keeps every type.
LEMMA ClosingTypes ==
    ASSUME TypeOK, NEW g \in Closers, Closing(g)
    PROVE  TypeOK'
<1> USE DEF TypeOK, Goto
<1>g. on[g] \in Sessions /\ pc[g] \in CloserLabels
  BY DEF Closing, Close, RemoveOpenHandler, closeActive, removeReverse, bridgeWait, CloserLabels
<1>p. /\ UNCHANGED <<mu, regVars, dev, rem, activeConns, client, active, activeBridges, owner, bridge, count>>
      /\ UNCHANGED <<cur, on, next, todo, params, creates>>
  BY DEF Closing, Close, RemoveOpenHandler, closeActive, removeReverse, bridgeWait, entryVars, sessionVars, bridgeVars,
         histVars
<1>1. RegistryType' BY <1>p DEF RegistryType, regVars
<1>2. EntryType'
  BY <1>g, <1>p DEF EntryType, Closing, Close, RemoveOpenHandler, closeActive, removeReverse, bridgeWait, entryVars
<1>3. SessionType'
  BY <1>g, <1>p DEF SessionType, Closing, Close, RemoveOpenHandler, closeActive, removeReverse, bridgeWait, sessionVars
<1>4. BridgeType'
  BY <1>g, <1>p DEF BridgeType, Closing, Close, RemoveOpenHandler, closeActive, removeReverse, bridgeWait, bridgeVars
<1>5. \E label \in Past \cup {"closeClient", "off"} : Goto(g, label)
  BY DEF Closing, Close, RemoveOpenHandler, closeActive, removeReverse, bridgeWait, AfterClose, Past, CloserLabels
<1>6. kills' \in [Sessions -> Nat]
  BY <1>g DEF ProcType, Closing, Close, RemoveOpenHandler, closeActive, removeReverse, bridgeWait, histVars
<1>7. table' \in [Devices -> [Remotes -> Sessions \cup {0}]]
  <2>1. CASE UNCHANGED table BY <2>1 DEF ProcType
  <2>2. CASE table' = [table EXCEPT ![dev[on[g]]][rem[on[g]]] = 0]
    BY <1>g, <2>2 DEF ProcType, EntryType
  <2> QED BY <2>1, <2>2 DEF Closing, Close, RemoveOpenHandler, closeActive, removeReverse, bridgeWait
<1>8. ProcType'
  BY <1>p, <1>5, <1>6, <1>7 DEF ProcType, Past, CallerLabels, params
<1>9. \A h \in Closers : pc'[h] = pc[h] \/ h = g BY <1>5 DEF ProcType
<1>10. \A h \in Closers : pc'[h] \in CloserLabels \cup {"closeClient"} => on'[h] \in Sessions BY <1>p, <1>9, <1>g
<1> QED BY <1>1, <1>2, <1>3, <1>4, <1>8, <1>10

\* The start of removeLocked keeps every type.
LEMMA RemoveTypes ==
    ASSUME TypeOK, NEW p \in Callers, NEW e \in Sessions, NEW rest \in SUBSET Sessions,
           NEW then \in {"idle", "connect", "index"}, removeLocked(p, e, rest, then),
           cur' \in [Callers -> Sessions \cup {0}], creates' \in Nat, wantDev' \in [Callers -> Devices],
           wantRem' \in [Callers -> Remotes], norebind' \in [Callers -> BOOLEAN]
    PROVE  TypeOK'
<1> USE DEF TypeOK, Goto
<1>1. RegistryType' BY DEF RegistryType, EntryType, removeLocked, unindex
<1>2. EntryType' BY DEF EntryType, removeLocked
<1>3. SessionType' BY DEF SessionType, removeLocked
<1>4. BridgeType' BY DEF BridgeType, removeLocked, bridgeVars
<1>5. pc' = [pc EXCEPT ![p] = "close"] /\ on' = [on EXCEPT ![p] = e] BY DEF removeLocked
<1>c. p \in Closers BY DEF Closers
<1>6. ProcType'
  <2>1. pc' \in [Closers -> CallerLabels \cup {"off", "watch"}] BY <1>5, <1>c DEF ProcType, CallerLabels, CloserLabels
  <2>2. on' \in [Closers -> Sessions \cup {0}] BY <1>5, <1>c DEF ProcType
  <2>3. next' \in [Callers -> {"idle", "connect", "index"}] /\ todo' \in [Callers -> SUBSET Sessions]
    BY DEF ProcType, removeLocked
  <2> QED BY <2>1, <2>2, <2>3 DEF ProcType, removeLocked
<1>7. \A g \in Closers : g # p => pc'[g] = pc[g] /\ on'[g] = on[g] BY <1>5 DEF ProcType
<1>8. p \in Closers /\ on'[p] \in Sessions BY <1>5 DEF ProcType, Closers
<1> QED BY <1>1, <1>2, <1>3, <1>4, <1>6, <1>7, <1>8

-----------------------------------------------------------------------------
(* The registry.                                                           *)

\* The start of removeLocked, by a caller that has or gets r.mu, for an entry that
\* is indexed: the caller takes it over.
LEMMA RemoveReg ==
    ASSUME TypeOK, RegInv, NEW p \in Callers, NEW e \in byID, NEW rest \in SUBSET byID,
           NEW then \in {"idle", "connect", "index"}, removeLocked(p, e, rest, then),
           cur' = cur, mu \in {Free, p}, e \notin rest,
           \A q \in Callers : cur[q] # 0 \/ pc[q] = "index" => wantRem'[q] = wantRem[q],
           on[p] = 0 \/ client[on[p]] # "open", todo[p] \subseteq rest \cup {e},
           then # "index" => cur[p] = 0,
           then = "index" => cur[p] \in Sessions /\ rem[e] = wantRem[p],
           rest # {} => then = "idle"
    PROVE  RegInv'
<1> USE DEF RegInv, Goto
<1>t. /\ pc \in [Closers -> CallerLabels \cup {"off", "watch"}] /\ on \in [Closers -> Sessions \cup {0}]
      /\ todo \in [Callers -> SUBSET Sessions] /\ next \in [Callers -> {"idle", "connect", "index"}]
      /\ byRemote \in [Remotes -> Sessions \cup {0}] /\ rem \in [Sessions -> Remotes] /\ byID \subseteq Sessions
      /\ cur \in [Callers -> Sessions \cup {0}] /\ wantRem \in [Callers -> Remotes]
  BY DEF TypeOK, ProcType, RegistryType, EntryType
<1>c. p \in Closers /\ Callers \subseteq Closers /\ Sessions \subseteq Closers /\ p \notin Sessions
  BY SessionsNat DEF Closers
<1>1. /\ pc' = [pc EXCEPT ![p] = "close"] /\ on' = [on EXCEPT ![p] = e] /\ todo' = [todo EXCEPT ![p] = rest]
      /\ next' = [next EXCEPT ![p] = then] /\ mu' = p /\ byID' = byID \ {e}
      /\ byRemote' = [byRemote EXCEPT ![rem[e]] = 0] /\ UNCHANGED <<nextID, rem, client>>
  BY DEF removeLocked, unindex
<1>2. \A g \in Closers \ {p} : pc'[g] = pc[g] /\ on'[g] = on[g] BY <1>1, <1>t
<1>3. \A q \in Callers \ {p} : todo'[q] = todo[q] /\ next'[q] = next[q] BY <1>1, <1>t
<1>4. pc'[p] = "close" /\ on'[p] = e /\ todo'[p] = rest /\ next'[p] = then BY <1>1, <1>t, <1>c
<1>5. \A q \in Callers \ {p} : pc[q] \notin Removing \cup {"index"} BY ReverseAssumption DEF Locked
<1>6. Roles' BY <1>2, <1>4, <1>c DEF Roles, CallerLabels, CloserLabels
<1>7. Locked' BY <1>1, <1>2, <1>4, <1>5, <1>c DEF Locked, Removing, CloserLabels
<1>8. Creating'
  <2> SUFFICES ASSUME NEW q \in Callers PROVE Creating!(q)'
    BY DEF Creating
  <2>1. pc'[q] # "index" BY <1>2, <1>4, <1>5, <1>c
  <2>2. pc'[q] \in {"idle", "connect", "register", "publish"} => pc'[q] = pc[q] BY <1>2, <1>4, <1>c
  <2> QED BY <1>1, <2>1, <2>2 DEF Creating
<1>9. byRemote'[rem[e]] = 0 /\ e \in Sessions BY <1>1, <1>t
<1>10. Removals'
  <2> SUFFICES ASSUME NEW q \in Callers PROVE Removals!(q)'
    BY DEF Removals
  <2>1. CASE q # p BY <2>1, <1>1, <1>2, <1>3, <1>5, <1>c DEF Removals, Removing
  <2>2. CASE q = p
    <3>1. then = "index" => cur[p] # e BY SessionsNat DEF Creating
    <3>2. then = "index" => byRemote'[wantRem'[p]] = 0 BY <1>9, SessionsNat
    <3>3. pc'[p] \in Removing /\ pc'[p] # "removeNext" BY <1>4 DEF Removing, CloserLabels
    <3>4. e \notin byID' /\ rest \subseteq byID' BY <1>1
    <3>5. rest # {} => then = "idle" /\ cur[p] = 0 OBVIOUS
    <3> QED BY <2>2, <1>4, <1>9, <3>1, <3>2, <3>3, <3>4, <3>5
  <2> QED BY <2>1, <2>2
<1>11. IndexAgrees'
  <2>1. \A x \in byID' : byRemote'[rem'[x]] = x BY <1>1, <1>t DEF IndexAgrees
  <2>2. \A r \in Remotes : byRemote'[r] # 0 => byRemote'[r] = byRemote[r] /\ r # rem[e] BY <1>1, <1>t
  <2>3. \A r \in Remotes : byRemote[r] # 0 /\ r # rem[e] => byRemote[r] \in byID \ {e} /\ rem[byRemote[r]] = r
    BY DEF IndexAgrees
  <2> QED BY <1>1, <2>1, <2>2, <2>3 DEF IndexAgrees
<1>12. NoClientLeak'
  <2> SUFFICES ASSUME NEW x \in Sessions, client[x] = "open"
               PROVE  x \in byID' \/ \E q \in Callers : pc'[q] # "idle" /\ x \in {cur[q], on'[q]} \cup todo'[q]
    BY <1>1 DEF NoClientLeak
  <2>1. CASE x \in byID BY <2>1, <1>1, <1>4
  <2>2. ASSUME NEW q \in Callers, pc[q] # "idle", x \in {cur[q], on[q]} \cup todo[q]
        PROVE  pc'[q] # "idle" /\ x \in {cur[q], on'[q]} \cup todo'[q]
    BY <2>2, <1>2, <1>3, <1>4, <1>c, SessionsNat
  <2> QED BY <2>1, <2>2 DEF NoClientLeak
<1> QED BY <1>1, <1>6, <1>7, <1>8, <1>10, <1>11, <1>12

\* What the registry's invariant does not see: steps inside Close, of watchers, of
\* bridges and of devices.
LEMMA RegFrame ==
    ASSUME TypeOK, RegInv, UNCHANGED <<mu, nextID, byID, byRemote, rem, cur, on, next, todo, wantRem>>,
           \A e \in Sessions : client'[e] = "open" => client[e] = "open",
           \A e \in Sessions : pc'[e] \in WatcherLabels,
           \A p \in Callers : pc'[p] = pc[p] \/ {pc[p], pc'[p]} \subseteq CloserLabels \cup {"closeClient"}
    PROVE  RegInv'
<1> USE DEF RegInv
<1>1. \A p \in Callers : /\ pc'[p] \in Removing <=> pc[p] \in Removing
                         /\ pc'[p] \in {"idle", "connect", "register", "publish", "index", "removeNext"} => pc'[p] = pc[p]
                         /\ pc'[p] \in CallerLabels
  BY DEF Removing, CloserLabels, CallerLabels, Roles
<1>2. Roles' BY <1>1 DEF Roles
<1>3. Locked'
  <2>1. \A p \in Callers : pc'[p] = "index" <=> pc[p] = "index" BY DEF CloserLabels
  <2> QED BY <1>1, <2>1 DEF Locked
<1>4. Creating' BY <1>1 DEF Creating
<1>5. Removals' BY <1>1 DEF Removals, Removing
<1>6. IndexAgrees' BY DEF IndexAgrees
<1>7. NoClientLeak'
  <2>1. \A p \in Callers : pc[p] # "idle" => pc'[p] # "idle" BY DEF CloserLabels
  <2> QED BY <2>1 DEF NoClientLeak
<1> QED BY <1>2, <1>3, <1>4, <1>5, <1>6, <1>7

\* What a request removes is indexed, and it is the caller's turn to remove it.
LEMMA RequestRemoves ==
    ASSUME TypeOK, RegInv, NEW p \in Callers, remove(p) \/ removeAll(p) \/ removeNext(p)
    PROVE  \E e \in byID, rest \in SUBSET byID :
             /\ removeLocked(p, e, rest, "idle") /\ e \notin rest
             /\ cur[p] = 0 /\ mu \in {Free, p} /\ (on[p] = 0 \/ client[on[p]] # "open") /\ todo[p] \subseteq rest \cup {e}
<1>t. byID \subseteq Sessions /\ \A r \in Remotes : byRemote[r] \in Sessions \cup {0} BY DEF TypeOK, RegistryType
<1>1. CASE remove(p)
  <2>1. PICK e \in byID : removeLocked(p, e, {}, "idle") BY <1>1 DEF remove
  <2>2. pc[p] = "idle" /\ mu = Free BY <1>1 DEF remove
  <2>3. cur[p] = 0 /\ on[p] = 0 /\ todo[p] = {}
    BY <2>2 DEF RegInv, Creating, Removals, Removing, CloserLabels
  <2> QED BY <2>1, <2>2, <2>3
<1>2. CASE removeAll(p)
  <2>1. PICK e \in byID : removeLocked(p, e, byID \ {e}, "idle") BY <1>2 DEF removeAll
  <2>2. pc[p] = "idle" /\ mu = Free BY <1>2 DEF removeAll
  <2>3. cur[p] = 0 /\ on[p] = 0 /\ todo[p] = {}
    BY <2>2 DEF RegInv, Creating, Removals, Removing, CloserLabels
  <2> QED BY <2>1, <2>2, <2>3
<1>3. CASE removeNext(p)
  <2>1. PICK e \in todo[p] : removeLocked(p, e, todo[p] \ {e}, next[p]) BY <1>3 DEF removeNext
  <2>2. pc[p] = "removeNext" BY <1>3 DEF removeNext
  <2>3. todo[p] \subseteq byID /\ next[p] = "idle" /\ cur[p] = 0 /\ client[on[p]] # "open"
    BY <2>1, <2>2 DEF RegInv, Removals, Removing
  <2>4. mu = p BY <2>2 DEF RegInv, Locked, Removing
  <2> QED BY <2>1, <2>3, <2>4
<1> QED BY <1>1, <1>2, <1>3

\* remove, removeAll and its later rounds.
LEMMA RemoveInv ==
    ASSUME TypeOK, RegInv, NEW p \in Callers, remove(p) \/ removeAll(p) \/ removeNext(p)
    PROVE  TypeOK' /\ RegInv'
<1>1. PICK e \in byID, rest \in SUBSET byID :
        /\ removeLocked(p, e, rest, "idle") /\ e \notin rest
        /\ cur[p] = 0 /\ mu \in {Free, p} /\ (on[p] = 0 \/ client[on[p]] # "open") /\ todo[p] \subseteq rest \cup {e}
  BY RequestRemoves
<1>2. UNCHANGED <<cur, params, creates>> BY DEF remove, removeAll, removeNext
<1>3. byID \subseteq Sessions BY DEF TypeOK, RegistryType
<1>4. TypeOK' BY <1>1, <1>2, <1>3, RemoveTypes DEF params, TypeOK, ProcType
<1>5. RegInv' BY <1>1, <1>2, RemoveReg DEF params
<1> QED BY <1>4, <1>5

\* A request is answered: nothing of the other requests changes.
LEMMA ReturnParams ==
    ASSUME TypeOK, NEW p \in Callers, Return(p)
    PROVE  /\ pc' = [pc EXCEPT ![p] = "idle"]
           /\ next' \in [Callers -> {"idle", "connect", "index"}]
           /\ wantDev' \in [Callers -> Devices] /\ wantRem' \in [Callers -> Remotes]
           /\ norebind' \in [Callers -> BOOLEAN]
           /\ \A q \in Callers \ {p} : next'[q] = next[q] /\ wantRem'[q] = wantRem[q]
  BY Fillers DEF TypeOK, ProcType, Return, Goto

\* The first half of create.
LEMMA CreateInv ==
    ASSUME TypeOK, RegInv, NEW p \in Callers, create(p)
    PROVE  TypeOK' /\ RegInv'
<1>t. /\ pc \in [Closers -> CallerLabels \cup {"off", "watch"}] /\ on \in [Closers -> Sessions \cup {0}]
      /\ byRemote \in [Remotes -> Sessions \cup {0}] /\ byID \subseteq Sessions
      /\ cur \in [Callers -> Sessions \cup {0}] /\ wantRem \in [Callers -> Remotes]
      /\ wantDev \in [Callers -> Devices] /\ norebind \in [Callers -> BOOLEAN] /\ creates \in Nat
  BY DEF TypeOK, ProcType, RegistryType, EntryType
<1>c. p \in Closers /\ Callers \subseteq Closers /\ Sessions \subseteq Closers /\ p \notin Sessions
  BY SessionsNat DEF Closers
<1>0. pc[p] = "idle" /\ mu = Free /\ cur' = cur /\ creates' = creates + 1 BY DEF create
<1>1. cur[p] = 0 /\ on[p] = 0 /\ todo[p] = {} BY <1>0 DEF RegInv, Creating, Removals, Removing, CloserLabels
<1>2. PICK d \in Devices, r \in Remotes, nr \in BOOLEAN :
        /\ \/ UNCHANGED params
           \/ /\ wantDev' = [wantDev EXCEPT ![p] = d]
              /\ wantRem' = [wantRem EXCEPT ![p] = r]
              /\ norebind' = [norebind EXCEPT ![p] = nr]
        /\ \/ UNCHANGED <<mu, regVars, entryVars, sessionVars, bridgeVars, pc, on, next, todo, kills, table>>
           \/ byRemote[r] # 0 /\ removeLocked(p, byRemote[r], {}, "connect")
           \/ /\ Goto(p, "connect")
              /\ UNCHANGED <<mu, regVars, entryVars, sessionVars, bridgeVars, on, next, todo, kills, table>>
  BY DEF create
<1>3. /\ wantDev' \in [Callers -> Devices] /\ wantRem' \in [Callers -> Remotes] /\ norebind' \in [Callers -> BOOLEAN]
      /\ creates' \in Nat /\ cur' \in [Callers -> Sessions \cup {0}]
  BY <1>0, <1>2, <1>t DEF params
<1>4. \A q \in Callers \ {p} : wantRem'[q] = wantRem[q] BY <1>2, <1>t DEF params
<1>5. CASE byRemote[r] # 0 /\ removeLocked(p, byRemote[r], {}, "connect")
  <2>1. byRemote[r] \in byID BY <1>5 DEF RegInv, IndexAgrees
  <2>2. TypeOK' BY <1>3, <1>5, <1>t, <2>1, RemoveTypes
  <2>3. RegInv' BY <1>0, <1>1, <1>4, <1>5, <2>1, RemoveReg
  <2> QED BY <2>2, <2>3
<1>6. ASSUME UNCHANGED <<mu, regVars, entryVars, sessionVars, bridgeVars, on, next, todo, kills, table>>,
             \E label \in {"idle", "connect"} : Goto(p, label)
      PROVE  TypeOK' /\ RegInv'
  <2>1. PICK label \in {"idle", "connect"} : pc' = [pc EXCEPT ![p] = label] BY <1>6 DEF Goto
  <2>2. pc'[p] = label /\ \A g \in Closers \ {p} : pc'[g] = pc[g] BY <2>1, <1>t, <1>c
  <2>3. RegistryType' /\ EntryType' /\ SessionType' /\ BridgeType'
    BY <1>6 DEF TypeOK, RegistryType, EntryType, SessionType, BridgeType, regVars, entryVars, sessionVars, bridgeVars
  <2>4. ProcType' BY <1>3, <1>6, <2>1, <1>t, <1>c DEF TypeOK, ProcType, CallerLabels
  <2>5. TypeOK' BY <1>6, <2>2, <2>3, <2>4 DEF TypeOK, CloserLabels
  <2>6. UNCHANGED <<mu, nextID, byID, byRemote, rem, client, cur, on, next, todo>>
    BY <1>0, <1>6 DEF regVars, entryVars, sessionVars
  <2>7. Roles' BY <2>2, <2>6, <1>c DEF RegInv, Roles, CallerLabels
  <2>8. Locked' BY <1>0, <2>2, <2>6, <1>c, ReverseAssumption DEF RegInv, Locked, Removing, CloserLabels
  <2>9. Creating'
    <3>1. ASSUME NEW q \in Callers \ {p} PROVE Creating!(q)' BY <1>4, <2>2, <2>6, <1>c DEF RegInv, Creating
    <3>2. Creating!(p)' BY <1>1, <2>2, <2>6
    <3> QED BY <3>1, <3>2 DEF Creating
  <2>10. Removals'
    <3>1. ASSUME NEW q \in Callers \ {p} PROVE Removals!(q)'
      BY <1>4, <2>2, <2>6, <1>c DEF RegInv, Removals
    <3>2. Removals!(p)' BY <1>1, <2>2, <2>6 DEF Removing, CloserLabels
    <3> QED BY <3>1, <3>2 DEF Removals
  <2>11. IndexAgrees' BY <2>6 DEF RegInv, IndexAgrees
  <2>12. NoClientLeak' BY <1>0, <2>2, <2>6, <1>c DEF RegInv, NoClientLeak
  <2> QED BY <2>5, <2>6, <2>7, <2>8, <2>9, <2>10, <2>11, <2>12 DEF RegInv
<1>7. CASE UNCHANGED <<mu, regVars, entryVars, sessionVars, bridgeVars, pc, on, next, todo, kills, table>>
  <2>1. pc' = [pc EXCEPT ![p] = "idle"] BY <1>0, <1>7, <1>t
  <2> QED BY <1>6, <1>7, <2>1 DEF Goto
<1> QED BY <1>2, <1>5, <1>6, <1>7

\* ConnectTCP: a fresh session for the caller, or the end of the create.
LEMMA ConnectInv ==
    ASSUME TypeOK, RegInv, NEW p \in Callers, connect(p) \/ connectFails(p)
    PROVE  TypeOK' /\ RegInv'
<1>t. /\ pc \in [Closers -> CallerLabels \cup {"off", "watch"}] /\ cur \in [Callers -> Sessions \cup {0}]
      /\ rem \in [Sessions -> Remotes] /\ client \in [Sessions -> {"none", "open", "lost", "closed"}]
      /\ nextID \in Nat /\ byID \subseteq Sessions /\ wantRem \in [Callers -> Remotes]
  BY DEF TypeOK, ProcType, RegistryType, EntryType, SessionType
<1>c. p \in Closers /\ Callers \subseteq Closers /\ Sessions \subseteq Closers /\ p \notin Sessions
  BY SessionsNat DEF Closers
<1>0. pc[p] = "connect" BY DEF connect, connectFails
<1>1. cur[p] = 0 /\ on[p] = 0 /\ todo[p] = {} BY <1>0 DEF RegInv, Creating, Removals, Removing, CloserLabels
<1>3. CASE connectFails(p)
  <2>1. Return(p) /\ UNCHANGED <<mu, regVars, entryVars, sessionVars, bridgeVars, cur, on, todo, histVars, table>>
    BY <1>3 DEF connectFails
  <2>p. /\ pc' = [pc EXCEPT ![p] = "idle"]
        /\ next' \in [Callers -> {"idle", "connect", "index"}]
        /\ wantDev' \in [Callers -> Devices] /\ wantRem' \in [Callers -> Remotes] /\ norebind' \in [Callers -> BOOLEAN]
        /\ \A q \in Callers \ {p} : next'[q] = next[q] /\ wantRem'[q] = wantRem[q]
    BY <2>1, ReturnParams
  <2>2. pc'[p] = "idle" /\ \A g \in Closers \ {p} : pc'[g] = pc[g] BY <2>p, <1>t, <1>c
  <2>3. RegistryType' /\ EntryType' /\ SessionType' /\ BridgeType'
    BY <2>1 DEF TypeOK, RegistryType, EntryType, SessionType, BridgeType, regVars, entryVars, sessionVars, bridgeVars
  <2>4. ProcType' BY <2>1, <2>p, <1>t, <1>c DEF TypeOK, ProcType, CallerLabels, histVars
  <2>5. TypeOK' BY <2>1, <2>2, <2>3, <2>4 DEF TypeOK, CloserLabels
  <2>6. UNCHANGED <<mu, nextID, byID, byRemote, rem, client, cur, on, todo>>
    BY <2>1 DEF regVars, entryVars, sessionVars
  <2>7. Roles' BY <2>2, <2>6, <1>c DEF RegInv, Roles, CallerLabels
  <2>8. Locked' BY <1>0, <2>2, <2>6, <1>c DEF RegInv, Locked, Removing, CloserLabels
  <2>9. Creating'
    <3>1. ASSUME NEW q \in Callers \ {p} PROVE Creating!(q)' BY <2>2, <2>6, <2>p, <1>c DEF RegInv, Creating
    <3>2. Creating!(p)' BY <1>1, <2>2, <2>6
    <3> QED BY <3>1, <3>2 DEF Creating
  <2>10. Removals'
    <3>1. ASSUME NEW q \in Callers \ {p} PROVE Removals!(q)' BY <2>2, <2>6, <2>p, <1>c DEF RegInv, Removals
    <3>2. Removals!(p)' BY <1>1, <2>2, <2>6 DEF Removing, CloserLabels
    <3> QED BY <3>1, <3>2 DEF Removals
  <2>11. IndexAgrees' BY <2>6 DEF RegInv, IndexAgrees
  <2>12. NoClientLeak' BY <1>1, <2>2, <2>6, <1>c, SessionsNat DEF RegInv, NoClientLeak
  <2> QED BY <2>5, <2>6, <2>7, <2>8, <2>9, <2>10, <2>11, <2>12 DEF RegInv
<1>4. CASE connect(p)
  <2> DEFINE n == nextID + 1
  <2>u. UNCHANGED <<mu, byID, byRemote, on, next, todo, params>> BY <1>4 DEF connect
  <2>0. n \in Sessions /\ n \notin byID /\ (\A q \in Callers : cur[q] # n) /\ n # 0
    BY <1>4, <1>t, SessionsNat DEF connect, RegInv, Creating
  <2>1. /\ nextID' = n /\ cur' = [cur EXCEPT ![p] = n] /\ rem' = [rem EXCEPT ![n] = wantRem[p]]
        /\ client' = [client EXCEPT ![n] = "open"] /\ pc' = [pc EXCEPT ![p] = "register"]
    BY <1>4 DEF connect, Goto
  <2> HIDE DEF n
  <2>2. pc'[p] = "register" /\ \A g \in Closers \ {p} : pc'[g] = pc[g] BY <2>1, <1>t, <1>c
  <2>3. cur'[p] = n /\ \A q \in Callers \ {p} : cur'[q] = cur[q] BY <2>1, <1>t
  <2>4. \A e \in Sessions \ {n} : rem'[e] = rem[e] /\ client'[e] = client[e] BY <2>1, <1>t
  <2>5. rem'[n] = wantRem[p] BY <2>1, <2>0, <1>t
  <2>6. TypeOK'
    <3>1. RegistryType' BY <2>u, <2>0, <2>1, SessionsNat DEF TypeOK, RegistryType
    <3>2. EntryType' BY <1>4, <2>0 DEF connect, n, TypeOK, EntryType, ProcType
    <3>3. SessionType' BY <1>4, <2>0 DEF connect, n, TypeOK, SessionType
    <3>4. BridgeType' BY <1>4 DEF connect, TypeOK, BridgeType, bridgeVars
    <3>5. ProcType'
      <4>1. pc' \in [Closers -> CallerLabels \cup {"off", "watch"}] BY <2>1, <1>t, <1>c DEF CallerLabels
      <4>2. cur' \in [Callers -> Sessions \cup {0}] BY <2>0, <2>1, <1>t
      <4> QED BY <1>4, <4>1, <4>2 DEF connect, TypeOK, ProcType, params, histVars
    <3> QED BY <3>1, <3>2, <3>3, <3>4, <3>5, <2>u, <2>2 DEF TypeOK, CloserLabels
  <2>7. Roles' BY <2>2, <2>u, <1>c DEF RegInv, Roles, CallerLabels
  <2>8. Locked' BY <1>0, <2>2, <2>u, <1>c DEF RegInv, Locked, Removing, CloserLabels
  <2>9. n > nextID BY <1>t DEF n
  <2>10. Creating'
    <3>1. ASSUME NEW q \in Callers \ {p} PROVE Creating!(q)'
      <4>0. cur[q] # 0 => cur[q] <= nextID /\ cur[q] \in Nat BY <1>t, SessionsNat DEF RegInv, Creating
      <4>1. cur[q] # 0 => cur[q] <= n BY <4>0, <1>t DEF n
      <4>2. cur[q] # 0 => cur[q] \in Sessions /\ rem'[cur[q]] = rem[cur[q]] BY <2>0, <2>4, <1>t
      <4>3. cur'[q] = cur[q] /\ pc'[q] = pc[q] /\ wantRem' = wantRem BY <2>2, <2>3, <2>u, <1>c DEF params
      <4>4. cur[q] # 0 => \A x \in Callers \ {q} : cur'[x] # cur[q] BY <2>0, <2>3 DEF RegInv, Creating
      <4> QED BY <2>u, <2>1, <4>1, <4>2, <4>3, <4>4 DEF RegInv, Creating
    <3>2. Creating!(p)' BY <2>u, <2>0, <2>1, <2>2, <2>3, <2>5, SessionsNat DEF params
    <3> QED BY <3>1, <3>2 DEF Creating
  <2>11. Removals'
    <3>1. ASSUME NEW q \in Callers \ {p} PROVE Removals!(q)'
      <4>1. cur'[q] = cur[q] /\ pc'[q] = pc[q] /\ wantRem' = wantRem BY <2>2, <2>3, <2>u, <1>c DEF params
      <4>2. pc[q] = "removeNext" => mu = q BY DEF RegInv, Locked, Removing
      <4>3. pc[q] = "removeNext" => FALSE BY <1>4, <4>2, ReverseAssumption DEF connect
      <4> QED BY <2>u, <4>1, <4>3 DEF RegInv, Removals
    <3>2. Removals!(p)' BY <1>1, <2>u, <2>2 DEF Removing, CloserLabels
    <3> QED BY <3>1, <3>2 DEF Removals
  <2>12. IndexAgrees' BY <2>u, <1>t, <2>0, <2>4 DEF RegInv, IndexAgrees, TypeOK, RegistryType
  <2>13. NoClientLeak'
    <3> SUFFICES ASSUME NEW e \in Sessions, client'[e] = "open"
                 PROVE  e \in byID' \/ \E q \in Callers : pc'[q] # "idle" /\ e \in {cur'[q], on'[q]} \cup todo'[q]
      BY DEF NoClientLeak
    <3>1. CASE e = n BY <2>2, <2>3, <3>1
    <3>2. CASE e # n
      <4>1. client[e] = "open" BY <2>4, <3>2
      <4>2. ASSUME NEW q \in Callers, pc[q] # "idle", e \in {cur[q], on[q]} \cup todo[q]
            PROVE  pc'[q] # "idle" /\ e \in {cur'[q], on'[q]} \cup todo'[q]
        BY <4>2, <1>1, <2>u, <2>2, <2>3, <1>c, SessionsNat
      <4> QED BY <4>1, <4>2, <2>u DEF RegInv, NoClientLeak
    <3> QED BY <3>1, <3>2
  <2>14. \A e \in byID' : e <= nextID' BY <2>u, <1>t, <2>1, SessionsNat DEF RegInv, n
  <2> QED BY <2>6, <2>7, <2>8, <2>10, <2>11, <2>12, <2>13, <2>14 DEF RegInv
<1> QED BY <1>3, <1>4

\* ReverseTCPWithOptions, whether the device agrees or not.
LEMMA RegisterInv ==
    ASSUME TypeOK, RegInv, NEW p \in Callers, registerReverse(p) \/ registerFails(p)
    PROVE  TypeOK' /\ RegInv'
<1>t. /\ pc \in [Closers -> CallerLabels \cup {"off", "watch"}] /\ cur \in [Callers -> Sessions \cup {0}]
      /\ client \in [Sessions -> {"none", "open", "lost", "closed"}]
      /\ table \in [Devices -> [Remotes -> Sessions \cup {0}]] /\ dev \in [Sessions -> Devices] /\ rem \in [Sessions -> Remotes]
  BY DEF TypeOK, ProcType, EntryType, SessionType
<1>c. p \in Closers /\ Callers \subseteq Closers /\ Sessions \subseteq Closers /\ p \notin Sessions
  BY SessionsNat DEF Closers
<1>0. pc[p] = "register" BY DEF registerReverse, registerFails
<1>1. cur[p] \in Sessions /\ on[p] = 0 /\ todo[p] = {}
  BY <1>0 DEF RegInv, Creating, Removals, Removing, CloserLabels
<1>2. UNCHANGED <<mu, nextID, byID, byRemote, dev, rem, on, todo>> /\ UNCHANGED <<entryVars, bridgeVars, histVars>>
  BY DEF registerReverse, registerFails, regVars, entryVars
<1>3. RegistryType' /\ EntryType' /\ BridgeType'
  BY <1>2 DEF TypeOK, RegistryType, EntryType, BridgeType, entryVars, bridgeVars
<1>4. \A q \in Callers : q \notin Sessions /\ q # cur[p] BY <1>1, SessionsNat
<1>5. CASE registerReverse(p)
  <2>1. /\ handler' = [handler EXCEPT ![cur[p]] = TRUE] /\ table' = [table EXCEPT ![dev[cur[p]]][rem[cur[p]]] = cur[p]]
        /\ pc' = [pc EXCEPT ![p] = "publish", ![cur[p]] = "watch"]
        /\ UNCHANGED <<client, canceled, closed, active, activeBridges, done, cur, next, params>>
    BY <1>5 DEF registerReverse
  <2>2. pc'[p] = "publish" /\ pc'[cur[p]] = "watch" /\ \A g \in Closers \ {p, cur[p]} : pc'[g] = pc[g]
    BY <2>1, <1>t, <1>c, <1>1
  <2>3. SessionType' BY <2>1 DEF TypeOK, SessionType
  <2>4. table' \in [Devices -> [Remotes -> Sessions \cup {0}]] BY <2>1, <1>t, <1>1
  <2>5. pc' \in [Closers -> CallerLabels \cup {"off", "watch"}] BY <2>1, <1>t DEF CallerLabels
  <2>6. ProcType' BY <1>2, <2>1, <2>4, <2>5 DEF TypeOK, ProcType, params, histVars
  <2>7. TypeOK' BY <1>2, <1>3, <2>2, <2>3, <2>6 DEF TypeOK, CloserLabels
  <2>8. Roles' BY <1>2, <1>4, <2>2, <1>c DEF RegInv, Roles, CallerLabels, WatcherLabels
  <2>9. \A q \in Callers \ {p} : pc'[q] = pc[q] BY <1>4, <2>2, <1>c
  <2>10. Locked' BY <1>0, <1>2, <2>2, <2>9 DEF RegInv, Locked, Removing, CloserLabels
  <2>11. Creating' BY <1>1, <1>2, <2>1, <2>2, <2>9 DEF RegInv, Creating, params
  <2>12. Removals'
    <3>1. ASSUME NEW q \in Callers \ {p} PROVE Removals!(q)' BY <1>2, <2>1, <2>9 DEF RegInv, Removals, params
    <3>2. Removals!(p)' BY <1>1, <1>2, <2>2 DEF Removing, CloserLabels
    <3> QED BY <3>1, <3>2 DEF Removals
  <2>13. IndexAgrees' BY <1>2 DEF RegInv, IndexAgrees
  <2>14. NoClientLeak' BY <1>2, <2>1, <2>2, <2>9 DEF RegInv, NoClientLeak
  <2> QED BY <1>2, <2>7, <2>8, <2>10, <2>11, <2>12, <2>13, <2>14 DEF RegInv
<1>6. CASE registerFails(p)
  <2>1. /\ client' = [client EXCEPT ![cur[p]] = "closed"] /\ cur' = [cur EXCEPT ![p] = 0]
        /\ Return(p) /\ UNCHANGED <<handler, canceled, closed, active, activeBridges, done, table>>
    BY <1>6 DEF registerFails
  <2>p. /\ pc' = [pc EXCEPT ![p] = "idle"]
        /\ next' \in [Callers -> {"idle", "connect", "index"}]
        /\ wantDev' \in [Callers -> Devices] /\ wantRem' \in [Callers -> Remotes] /\ norebind' \in [Callers -> BOOLEAN]
        /\ \A q \in Callers \ {p} : next'[q] = next[q] /\ wantRem'[q] = wantRem[q]
    BY <2>1, ReturnParams
  <2>2. pc'[p] = "idle" /\ \A g \in Closers \ {p} : pc'[g] = pc[g] BY <2>p, <1>t, <1>c
  <2>3. cur'[p] = 0 /\ \A q \in Callers \ {p} : cur'[q] = cur[q] BY <2>1, <1>t
  <2>4. SessionType' BY <2>1 DEF TypeOK, SessionType
  <2>5. pc' \in [Closers -> CallerLabels \cup {"off", "watch"}] BY <2>p, <1>t DEF CallerLabels
  <2>6. ProcType' BY <1>2, <2>1, <2>p, <2>5, <1>t DEF TypeOK, ProcType, histVars
  <2>7. TypeOK' BY <1>2, <1>3, <2>2, <2>4, <2>6 DEF TypeOK, CloserLabels
  <2>8. Roles' BY <1>2, <2>2, <1>c DEF RegInv, Roles, CallerLabels
  <2>9. Locked' BY <1>0, <1>2, <2>2, <1>c DEF RegInv, Locked, Removing, CloserLabels
  <2>10. Creating'
    <3>1. ASSUME NEW q \in Callers \ {p} PROVE Creating!(q)'
      BY <1>2, <2>2, <2>3, <2>p, <1>c DEF RegInv, Creating
    <3>2. Creating!(p)' BY <2>2, <2>3
    <3> QED BY <3>1, <3>2 DEF Creating
  <2>11. \A e \in Sessions : client'[e] = "open" => client[e] = "open" /\ e # cur[p] BY <2>1, <1>t
  <2>12. Removals'
    <3>1. ASSUME NEW q \in Callers \ {p} PROVE Removals!(q)'
      <4>1. pc[q] = "removeNext" => client'[on[q]] # "open" BY <2>11 DEF RegInv, Removals, Removing
      <4> QED BY <1>2, <2>2, <2>3, <2>p, <4>1, <1>c DEF RegInv, Removals
    <3>2. Removals!(p)' BY <1>1, <1>2, <2>2 DEF Removing, CloserLabels
    <3> QED BY <3>1, <3>2 DEF Removals
  <2>13. IndexAgrees' BY <1>2 DEF RegInv, IndexAgrees
  <2>14. NoClientLeak' BY <1>1, <1>2, <2>2, <2>3, <2>11, <1>c, SessionsNat DEF RegInv, NoClientLeak
  <2> QED BY <1>2, <2>7, <2>8, <2>9, <2>10, <2>12, <2>13, <2>14 DEF RegInv
<1> QED BY <1>5, <1>6

\* The second lookup of create: nothing is there, or it is removed first, or the
\* new session is closed instead.
LEMMA PublishInv ==
    ASSUME TypeOK, RegInv, NEW p \in Callers, publish(p)
    PROVE  TypeOK' /\ RegInv'
<1> DEFINE old == byRemote[wantRem[p]]
<1>t. /\ pc \in [Closers -> CallerLabels \cup {"off", "watch"}] /\ on \in [Closers -> Sessions \cup {0}]
      /\ next \in [Callers -> {"idle", "connect", "index"}] /\ byRemote \in [Remotes -> Sessions \cup {0}]
      /\ byID \subseteq Sessions /\ wantRem \in [Callers -> Remotes]
  BY DEF TypeOK, ProcType, RegistryType
<1>c. p \in Closers /\ Callers \subseteq Closers /\ Sessions \subseteq Closers /\ p \notin Sessions
  BY SessionsNat DEF Closers
<1>0. pc[p] = "publish" /\ mu = Free /\ UNCHANGED <<cur, params, creates>> BY DEF publish
<1>1. cur[p] \in Sessions /\ on[p] = 0 /\ todo[p] = {}
  BY <1>0 DEF RegInv, Creating, Removals, Removing, CloserLabels
<1>2. cur[p] # 0 /\ cur[p] \notin byID BY <1>1, SessionsNat DEF RegInv, Creating
<1>3. \A q \in Callers \ {p} : pc[q] \notin Removing \cup {"index"} BY <1>0, ReverseAssumption DEF RegInv, Locked
<1>4. CASE old # 0 /\ removeLocked(p, old, {}, "index")
  <2>1. old \in byID /\ rem[old] = wantRem[p] BY <1>4, <1>t DEF RegInv, IndexAgrees
  <2>2. TypeOK' BY <1>0, <1>4, <1>t, <2>1, RemoveTypes DEF TypeOK, ProcType, params
  <2>3. RegInv' BY <1>0, <1>1, <1>4, <2>1, RemoveReg DEF params
  <2> QED BY <2>2, <2>3
<1>5. ASSUME UNCHANGED <<regVars, entryVars, client, handler, closed, active, activeBridges, done, bridgeVars>>,
             UNCHANGED <<todo, kills, table>>, mu' = p,
             UNCHANGED canceled \/ canceled' = [canceled EXCEPT ![cur[p]] = TRUE],
             \/ old = 0 /\ Goto(p, "index") /\ UNCHANGED <<on, next>>
             \/ /\ Goto(p, "close")
                /\ on' = [on EXCEPT ![p] = cur[p]] /\ next' = [next EXCEPT ![p] = "idle"]
      PROVE  TypeOK' /\ RegInv'
  <2>1. \A g \in Closers \ {p} : pc'[g] = pc[g] /\ on'[g] = on[g] BY <1>5, <1>t DEF Goto
  <2>2. \/ pc'[p] = "index" /\ old = 0 /\ on'[p] = 0
        \/ pc'[p] = "close" /\ on'[p] = cur[p] /\ next'[p] = "idle"
    BY <1>1, <1>5, <1>t, <1>c DEF Goto
  <2>3. RegistryType' /\ EntryType' /\ SessionType' /\ BridgeType'
    BY <1>1, <1>5 DEF TypeOK, RegistryType, EntryType, SessionType, BridgeType, regVars, entryVars, bridgeVars
  <2>4. pc' \in [Closers -> CallerLabels \cup {"off", "watch"}] /\ on' \in [Closers -> Sessions \cup {0}]
        /\ next' \in [Callers -> {"idle", "connect", "index"}]
    BY <1>1, <1>5, <1>t, <1>c DEF Goto, CallerLabels, CloserLabels
  <2>5. ProcType' BY <1>0, <1>5, <2>4 DEF TypeOK, ProcType, params
  <2>6. TypeOK' BY <1>1, <2>1, <2>2, <2>3, <2>5 DEF TypeOK, CloserLabels
  <2>7. UNCHANGED <<nextID, byID, byRemote, rem, client, cur, todo, wantRem>>
    BY <1>0, <1>5 DEF regVars, entryVars, params
  <2>8. \A q \in Callers \ {p} : next'[q] = next[q] BY <1>5, <1>t
  <2>9. Roles' BY <2>1, <2>2, <1>c DEF RegInv, Roles, CallerLabels, CloserLabels
  <2>10. Locked' BY <1>3, <1>5, <2>1, <2>2, <1>c DEF RegInv, Locked, Removing, CloserLabels
  <2>11. Creating'
    <3>1. ASSUME NEW q \in Callers \ {p} PROVE Creating!(q)' BY <2>1, <2>7, <1>c DEF RegInv, Creating
    <3>2. Creating!(p)' BY <1>1, <2>2, <2>7 DEF RegInv, Creating
    <3> QED BY <3>1, <3>2 DEF Creating
  <2>12. Removals'
    <3>1. ASSUME NEW q \in Callers \ {p} PROVE Removals!(q)'
      BY <2>1, <2>7, <2>8, <1>c DEF RegInv, Removals
    <3>2. Removals!(p)' BY <1>1, <1>2, <2>2, <2>7 DEF Removing, CloserLabels
    <3> QED BY <3>1, <3>2 DEF Removals
  <2>13. IndexAgrees' BY <2>7 DEF RegInv, IndexAgrees
  <2>14. NoClientLeak' BY <1>1, <2>1, <2>2, <2>7, <1>c, SessionsNat DEF RegInv, NoClientLeak
  <2> QED BY <2>6, <2>7, <2>9, <2>10, <2>11, <2>12, <2>13, <2>14 DEF RegInv
<1> QED BY <1>4, <1>5 DEF publish, sessionVars

\* The entry is indexed under a free endpoint.
LEMMA IndexInv ==
    ASSUME TypeOK, RegInv, NEW p \in Callers, index(p)
    PROVE  TypeOK' /\ RegInv'
<1>t. /\ pc \in [Closers -> CallerLabels \cup {"off", "watch"}] /\ cur \in [Callers -> Sessions \cup {0}]
      /\ rem \in [Sessions -> Remotes] /\ byRemote \in [Remotes -> Sessions \cup {0}] /\ byID \subseteq Sessions
  BY DEF TypeOK, ProcType, RegistryType, EntryType
<1>c. p \in Closers /\ Callers \subseteq Closers /\ Sessions \subseteq Closers /\ p \notin Sessions
  BY SessionsNat DEF Closers
<1>0. pc[p] = "index" BY DEF index
<1>1. cur[p] \in Sessions /\ on[p] = 0 /\ todo[p] = {}
  BY <1>0 DEF RegInv, Creating, Removals, Removing, CloserLabels
<1>2. /\ cur[p] # 0 /\ cur[p] \notin byID /\ cur[p] <= nextID
      /\ byRemote[rem[cur[p]]] = 0 /\ \A q \in Callers \ {p} : cur[q] # cur[p]
  BY <1>0, <1>1, SessionsNat DEF RegInv, Creating
<1>3. mu = p /\ \A q \in Callers \ {p} : pc[q] \notin Removing \cup {"index"} BY <1>0 DEF RegInv, Locked
<1>4. /\ byID' = byID \cup {cur[p]} /\ byRemote' = [byRemote EXCEPT ![rem[cur[p]]] = cur[p]] /\ mu' = Free
      /\ cur' = [cur EXCEPT ![p] = 0] /\ Return(p)
      /\ UNCHANGED <<nextID, entryVars, sessionVars, bridgeVars, on, todo, histVars, table>>
  BY DEF index
<1>p. /\ pc' = [pc EXCEPT ![p] = "idle"]
      /\ next' \in [Callers -> {"idle", "connect", "index"}]
      /\ wantDev' \in [Callers -> Devices] /\ wantRem' \in [Callers -> Remotes] /\ norebind' \in [Callers -> BOOLEAN]
      /\ \A q \in Callers \ {p} : next'[q] = next[q] /\ wantRem'[q] = wantRem[q]
  BY <1>4, ReturnParams
<1>5. UNCHANGED <<rem, client>> BY <1>4 DEF entryVars, sessionVars
<1>6. pc'[p] = "idle" /\ \A g \in Closers \ {p} : pc'[g] = pc[g] BY <1>p, <1>t, <1>c
<1>7. cur'[p] = 0 /\ \A q \in Callers \ {p} : cur'[q] = cur[q] BY <1>4, <1>t
<1>8. TypeOK'
  <2>1. RegistryType' BY <1>1, <1>4, <1>t DEF TypeOK, RegistryType
  <2>2. EntryType' /\ SessionType' /\ BridgeType'
    BY <1>4 DEF TypeOK, EntryType, SessionType, BridgeType, entryVars, sessionVars, bridgeVars
  <2>3. pc' \in [Closers -> CallerLabels \cup {"off", "watch"}] BY <1>p, <1>t DEF CallerLabels
  <2>4. ProcType' BY <1>4, <1>p, <1>t, <2>3 DEF TypeOK, ProcType, histVars
  <2> QED BY <1>4, <1>6, <2>1, <2>2, <2>4 DEF TypeOK, CloserLabels
<1>9. Roles' BY <1>4, <1>6, <1>c DEF RegInv, Roles, CallerLabels
<1>10. Locked' BY <1>3, <1>4, <1>6, <1>c, ReverseAssumption DEF Locked, Removing, CloserLabels
<1>11. Creating'
  <2>1. ASSUME NEW q \in Callers \ {p} PROVE Creating!(q)'
    <3>1. pc'[q] # "index" BY <1>3, <1>6, <1>c
    <3> QED BY <1>2, <1>4, <1>5, <1>6, <1>7, <1>p, <1>c, <3>1 DEF RegInv, Creating
  <2>2. Creating!(p)' BY <1>6, <1>7
  <2> QED BY <2>1, <2>2 DEF Creating
<1>12. Removals'
  <2>1. ASSUME NEW q \in Callers \ {p} PROVE Removals!(q)'
    BY <1>3, <1>4, <1>6, <1>c DEF RegInv, Removals, Removing
  <2>2. Removals!(p)' BY <1>1, <1>4, <1>6 DEF Removing, CloserLabels
  <2> QED BY <2>1, <2>2 DEF Removals
<1>13. IndexAgrees'
  <2>1. \A e \in byID : rem[e] # rem[cur[p]]
    BY <1>2, <1>t, SessionsNat DEF RegInv, IndexAgrees
  <2>2. \A e \in byID' : byRemote'[rem'[e]] = e BY <1>1, <1>4, <1>5, <1>t, <2>1 DEF RegInv, IndexAgrees
  <2>3. \A r \in Remotes : byRemote'[r] # 0 => byRemote'[r] \in byID' /\ rem'[byRemote'[r]] = r
    BY <1>1, <1>4, <1>5, <1>t DEF RegInv, IndexAgrees
  <2> QED BY <2>2, <2>3 DEF IndexAgrees
<1>14. NoClientLeak' BY <1>1, <1>4, <1>5, <1>6, <1>7, <1>c, SessionsNat DEF RegInv, NoClientLeak
<1>15. \A e \in byID' : e <= nextID' BY <1>2, <1>4 DEF RegInv
<1> QED BY <1>8, <1>9, <1>10, <1>11, <1>12, <1>13, <1>14, <1>15 DEF RegInv

\* The end of removeLocked: the next entry, or the end of the removal.
LEMMA CloseClientInv ==
    ASSUME TypeOK, RegInv, NEW p \in Callers, closeClient(p)
    PROVE  TypeOK' /\ RegInv'
<1>t. /\ pc \in [Closers -> CallerLabels \cup {"off", "watch"}] /\ on \in [Closers -> Sessions \cup {0}]
      /\ cur \in [Callers -> Sessions \cup {0}] /\ next \in [Callers -> {"idle", "connect", "index"}]
      /\ client \in [Sessions -> {"none", "open", "lost", "closed"}]
  BY DEF TypeOK, ProcType, SessionType
<1>c. p \in Closers /\ Callers \subseteq Closers /\ Sessions \subseteq Closers /\ p \notin Sessions
  BY SessionsNat DEF Closers
<1>0. pc[p] = "closeClient" BY DEF closeClient
<1>1. /\ on[p] \in Sessions /\ on[p] \notin byID /\ todo[p] \subseteq byID
      /\ todo[p] # {} => next[p] = "idle" /\ cur[p] = 0
      /\ next[p] = "idle" => cur[p] \in {0, on[p]}
      /\ next[p] = "connect" => cur[p] = 0
      /\ next[p] = "index" => cur[p] \in Sessions \ {on[p]} /\ byRemote[wantRem[p]] = 0
  BY <1>0 DEF RegInv, Removals, Removing
<1>2. mu = p /\ \A q \in Callers \ {p} : pc[q] \notin Removing \cup {"index"} BY <1>0 DEF RegInv, Locked, Removing
<1>3. /\ client' = [client EXCEPT ![on[p]] = "closed"]
      /\ UNCHANGED <<regVars, entryVars, handler, canceled, closed, active, activeBridges, done, owner, bridge, count,
                     todo, histVars, table>>
  BY DEF closeClient
<1>4. UNCHANGED <<nextID, byID, byRemote, rem>> BY <1>3 DEF regVars, entryVars
<1>5. client'[on[p]] # "open" /\ \A e \in Sessions : client'[e] = "open" => client[e] = "open" /\ e # on[p]
  BY <1>1, <1>3, <1>t
<1>6. RegistryType' => RegistryType' /\ EntryType' /\ SessionType' /\ BridgeType'
  <2>1. EntryType' BY <1>3 DEF TypeOK, EntryType, entryVars
  <2>2. SessionType' BY <1>1, <1>3 DEF TypeOK, SessionType
  <2>3. conn' \in [Bridges -> BOOLEAN] BY DEF closeClient, TypeOK, BridgeType
  <2>4. BridgeType' BY <1>3, <2>3 DEF TypeOK, BridgeType
  <2> QED BY <2>1, <2>2, <2>4
<1>7. CASE todo[p] # {} /\ Goto(p, "removeNext") /\ UNCHANGED <<mu, on, cur, next, params>>
  <2>1. pc'[p] = "removeNext" /\ \A g \in Closers \ {p} : pc'[g] = pc[g] BY <1>7, <1>t, <1>c DEF Goto
  <2>2. RegistryType' BY <1>4, <1>7 DEF TypeOK, RegistryType
  <2>3. pc' \in [Closers -> CallerLabels \cup {"off", "watch"}] BY <1>7, <1>t DEF Goto, CallerLabels
  <2>4. ProcType' BY <1>3, <1>7, <2>3 DEF TypeOK, ProcType, params, histVars
  <2>5. TypeOK' BY <1>6, <1>7, <2>1, <2>2, <2>4 DEF TypeOK, CloserLabels
  <2>6. Roles' BY <1>7, <2>1, <1>c DEF RegInv, Roles, CallerLabels
  <2>7. Locked' BY <1>0, <1>7, <2>1, <1>c DEF RegInv, Locked, Removing, CloserLabels
  <2>8. Creating' BY <1>0, <1>4, <1>7, <2>1, <1>c DEF RegInv, Creating, params
  <2>9. Removals'
    <3>1. ASSUME NEW q \in Callers \ {p} PROVE Removals!(q)'
      BY <1>2, <1>3, <1>4, <1>7, <2>1, <1>c DEF RegInv, Removals, Removing, params
    <3>2. Removals!(p)' BY <1>1, <1>3, <1>4, <1>5, <1>7, <2>1 DEF Removing, CloserLabels, params
    <3> QED BY <3>1, <3>2 DEF Removals
  <2>10. IndexAgrees' BY <1>4 DEF RegInv, IndexAgrees
  <2>11. NoClientLeak' BY <1>0, <1>3, <1>4, <1>5, <1>7, <2>1, <1>c DEF RegInv, NoClientLeak
  <2> QED BY <1>4, <2>5, <2>6, <2>7, <2>8, <2>9, <2>10, <2>11 DEF RegInv
<1>8. CASE /\ todo[p] = {} /\ AfterRemovals(p) /\ on' = [on EXCEPT ![p] = 0]
           /\ cur' = IF on[p] = cur[p] THEN [cur EXCEPT ![p] = 0] ELSE cur
           /\ mu' = IF next[p] = "index" THEN mu ELSE Free
  <2>p. /\ pc' = [pc EXCEPT ![p] = next[p]]
        /\ next' \in [Callers -> {"idle", "connect", "index"}]
        /\ wantDev' \in [Callers -> Devices] /\ wantRem' \in [Callers -> Remotes] /\ norebind' \in [Callers -> BOOLEAN]
        /\ \A q \in Callers \ {p} : next'[q] = next[q] /\ wantRem'[q] = wantRem[q]
    BY <1>8, ReturnParams DEF AfterRemovals, Goto, params, TypeOK, ProcType
  <2>w. next[p] # "idle" => wantRem' = wantRem BY <1>8 DEF AfterRemovals, params
  <2>1. pc'[p] = next[p] /\ on'[p] = 0 /\ \A g \in Closers \ {p} : pc'[g] = pc[g] /\ on'[g] = on[g]
    BY <1>8, <2>p, <1>t, <1>c
  <2>2. cur'[p] = (IF next[p] = "index" THEN cur[p] ELSE 0) /\ \A q \in Callers \ {p} : cur'[q] = cur[q]
    BY <1>1, <1>8, <1>t
  <2>3. RegistryType' BY <1>2, <1>4, <1>8 DEF TypeOK, RegistryType
  <2>4. pc' \in [Closers -> CallerLabels \cup {"off", "watch"}] /\ on' \in [Closers -> Sessions \cup {0}]
        /\ cur' \in [Callers -> Sessions \cup {0}]
    BY <1>8, <2>p, <1>t DEF CallerLabels
  <2>5. ProcType' BY <1>3, <2>4, <2>p DEF TypeOK, ProcType, histVars
  <2>n. next[p] \in {"idle", "connect", "index"} BY <1>t
  <2>6. TypeOK' BY <1>6, <2>1, <2>3, <2>5, <2>n DEF TypeOK, CloserLabels
  <2>7. Roles' BY <2>1, <2>n, <1>c DEF RegInv, Roles, CallerLabels
  <2>8. Locked' BY <1>2, <1>8, <2>1, <2>n, <1>c, ReverseAssumption DEF Locked, Removing, CloserLabels
  <2>9. Creating'
    <3>1. ASSUME NEW q \in Callers \ {p} PROVE Creating!(q)'
      BY <1>4, <2>1, <2>2, <2>p, <1>c DEF RegInv, Creating
    <3>2. Creating!(p)' BY <1>1, <1>4, <2>1, <2>2, <2>n, <2>w DEF RegInv, Creating
    <3> QED BY <3>1, <3>2 DEF Creating
  <2>10. Removals'
    <3>1. ASSUME NEW q \in Callers \ {p} PROVE Removals!(q)'
      BY <1>2, <1>3, <1>4, <2>1, <2>2, <2>p, <1>c DEF RegInv, Removals, Removing
    <3>2. Removals!(p)' BY <1>3, <1>8, <2>1, <2>n DEF Removing, CloserLabels
    <3> QED BY <3>1, <3>2 DEF Removals
  <2>11. IndexAgrees' BY <1>4 DEF RegInv, IndexAgrees
  <2>12. NoClientLeak'
    <3> SUFFICES ASSUME NEW e \in Sessions, client'[e] = "open"
                 PROVE  e \in byID' \/ \E q \in Callers : pc'[q] # "idle" /\ e \in {cur'[q], on'[q]} \cup todo'[q]
      BY DEF NoClientLeak
    <3>1. client[e] = "open" /\ e # on[p] /\ e # 0 BY <1>5, SessionsNat
    <3>2. ASSUME NEW q \in Callers, pc[q] # "idle", e \in {cur[q], on[q]} \cup todo[q]
          PROVE  pc'[q] # "idle" /\ e \in {cur'[q], on'[q]} \cup todo'[q]
      <4>1. CASE q # p BY <1>3, <2>1, <2>2, <3>2, <4>1, <1>c
      <4>2. CASE q = p
        <5>1. e = cur[p] /\ next[p] = "index" BY <1>1, <1>8, <2>n, <3>1, <3>2, <4>2
        <5> QED BY <2>1, <2>2, <4>2, <5>1
      <4> QED BY <4>1, <4>2
    <3> QED BY <1>4, <3>1, <3>2 DEF RegInv, NoClientLeak
  <2> QED BY <1>4, <2>6, <2>7, <2>8, <2>9, <2>10, <2>11, <2>12 DEF RegInv
<1> QED BY <1>7, <1>8 DEF closeClient

\* Every step keeps the types and the registry's invariant.
LEMMA NextReg == ASSUME TypeOK, RegInv, [Next]_vars PROVE TypeOK' /\ RegInv'
<1>t. pc \in [Closers -> CallerLabels \cup {"off", "watch"}] BY DEF TypeOK, ProcType
<1>c. Callers \subseteq Closers /\ Sessions \subseteq Closers BY DEF Closers
<1>1. ASSUME NEW p \in Callers, CallerStep(p) \/ Request(p) PROVE TypeOK' /\ RegInv'
  BY <1>1, CloseClientInv, RemoveInv, ConnectInv, RegisterInv, PublishInv, IndexInv, CreateInv DEF CallerStep, Request
<1>2. ASSUME NEW g \in Closers, Closing(g) PROVE TypeOK' /\ RegInv'
  <2>1. UNCHANGED <<mu, nextID, byID, byRemote, rem, client, cur, on, next, todo, wantRem>>
    BY <1>2 DEF Closing, Close, RemoveOpenHandler, closeActive, removeReverse, bridgeWait, regVars, entryVars,
                sessionVars, params
  <2>2. pc[g] \in CloserLabels
    BY <1>2 DEF Closing, Close, RemoveOpenHandler, closeActive, removeReverse, bridgeWait, CloserLabels
  <2>3. PICK label \in CloserLabels \cup {AfterClose(g)} : pc' = [pc EXCEPT ![g] = label]
    BY <1>2 DEF Closing, Close, RemoveOpenHandler, closeActive, removeReverse, bridgeWait, CloserLabels, Goto
  <2>4. pc'[g] = label /\ \A h \in Closers \ {g} : pc'[h] = pc[h] BY <2>3, <1>t
  <2>5. \A e \in Sessions : pc'[e] \in WatcherLabels
    BY <2>3, <2>4, <1>c, SessionsNat DEF RegInv, Roles, WatcherLabels, AfterClose
  <2>6. \A p \in Callers : pc'[p] = pc[p] \/ {pc[p], pc'[p]} \subseteq CloserLabels \cup {"closeClient"}
    BY <2>2, <2>3, <2>4, <1>c DEF AfterClose
  <2>7. RegInv' BY <2>1, <2>5, <2>6, RegFrame
  <2> QED BY <1>2, <2>7, ClosingTypes
<1>3. ASSUME NEW e \in Sessions, watch(e) PROVE TypeOK' /\ RegInv'
  <2>1. /\ pc' = [pc EXCEPT ![e] = "close"]
        /\ UNCHANGED <<mu, regVars, entryVars, sessionVars, bridgeVars, cur, on, next, todo, params, histVars, table>>
    BY <1>3 DEF watch, Goto
  <2>2. pc'[e] = "close" /\ \A g \in Closers \ {e} : pc'[g] = pc[g] BY <2>1, <1>t, <1>c
  <2>3. RegistryType' /\ EntryType' /\ SessionType' /\ BridgeType'
    BY <2>1 DEF TypeOK, RegistryType, EntryType, SessionType, BridgeType, regVars, entryVars, sessionVars, bridgeVars
  <2>4. ProcType' BY <2>1 DEF TypeOK, ProcType, params, histVars, CallerLabels, CloserLabels
  <2>5. on[e] \in Sessions BY DEF RegInv, Roles
  <2>6. TypeOK' BY <2>1, <2>2, <2>3, <2>4, <2>5 DEF TypeOK
  <2>7. UNCHANGED <<mu, nextID, byID, byRemote, rem, client, cur, on, next, todo, wantRem>>
    BY <2>1 DEF regVars, entryVars, sessionVars, params
  <2>8. \A x \in Sessions : pc'[x] \in WatcherLabels
    BY <2>2, <1>c DEF RegInv, Roles, WatcherLabels, CloserLabels
  <2>9. \A p \in Callers : pc'[p] = pc[p] BY <2>2, <1>c, SessionsNat
  <2> QED BY <2>6, <2>7, <2>8, <2>9, RegFrame
<1>4. ASSUME \/ \E b \in Bridges : BridgeStep(b) \/ copyEnds(b)
             \/ \E e \in Sessions : deviceConnects(e) \/ deviceLost(e)
      PROVE  TypeOK' /\ RegInv'
  <2>1. UNCHANGED <<mu, nextID, byID, byRemote, rem, pc, cur, on, next, todo, wantRem>>
    BY <1>4 DEF BridgeStep, startBridge, dial, bridgeError, recordReverseError, giveUp, addBridge, notifyActive,
                recordReverseActive, removeBridge, copyEnds, deviceConnects, deviceLost, bridgeFrame, regVars, entryVars,
                procVars, params
  <2>2. UNCHANGED client \/ \E e \in Sessions : client' = [client EXCEPT ![e] = "lost"]
    BY <1>4 DEF BridgeStep, startBridge, dial, bridgeError, recordReverseError, giveUp, addBridge, notifyActive,
                recordReverseActive, removeBridge, copyEnds, deviceConnects, deviceLost, bridgeFrame, sessionVars
  <2>3. \A e \in Sessions : client'[e] = "open" => client[e] = "open" BY <2>2 DEF TypeOK, SessionType
  <2>4. \A x \in Sessions : pc'[x] \in WatcherLabels BY <2>1 DEF RegInv, Roles
  <2> QED BY <1>4, <2>1, <2>3, <2>4, BridgeTypes, RegFrame
<1>5. CASE UNCHANGED vars
  <2>1. UNCHANGED <<mu, nextID, byID, byRemote, rem, pc, client, cur, on, next, todo, wantRem>>
    BY <1>5 DEF vars, regVars, entryVars, sessionVars, procVars, params
  <2>2. RegInv' BY <2>1, RegFrame DEF RegInv, Roles
  <2>3. TypeOK'
    BY <1>5 DEF vars, TypeOK, RegistryType, EntryType, SessionType, BridgeType, ProcType, regVars, entryVars, sessionVars,
                bridgeVars, procVars, params, histVars
  <2> QED BY <2>2, <2>3
<1> QED BY <1>1, <1>2, <1>3, <1>4, <1>5 DEF Next

-----------------------------------------------------------------------------
(* The sessions.                                                           *)

\* What the sessions' invariant does not see: nobody gets past the start of Close,
\* and no bridge of a closed session joins the wait group.
LEMMA CloseFrame ==
    ASSUME TypeOK, CloseInv, UNCHANGED <<closed, kills, done>>,
           \A g \in Closers : pc'[g] \in Past => pc'[g] = pc[g] /\ on'[g] = on[g],
           \A b \in Bridges : InWaitGroup(b)' =>
             owner'[b] \in Sessions /\ ((InWaitGroup(b) /\ owner'[b] = owner[b]) \/ ~closed[owner'[b]])
    PROVE  CloseInv'
<1> USE DEF CloseInv
<1>1. OneCloser' BY DEF OneCloser
<1>2. SessionClosesOnce' BY DEF SessionClosesOnce, OneCloser
<1> QED BY <1>1, <1>2

\* Steps of callers, of watchers that wake up, of bridges and of devices.
LEMMA OtherClose ==
    ASSUME TypeOK, RegInv, CloseInv,
           \/ \E p \in Callers : CallerStep(p) \/ Request(p)
           \/ \E e \in Sessions : watch(e) \/ deviceConnects(e) \/ deviceLost(e)
           \/ \E b \in Bridges : BridgeStep(b) \/ copyEnds(b)
           \/ UNCHANGED vars
    PROVE  CloseInv'
<1>t. /\ pc \in [Closers -> CallerLabels \cup {"off", "watch"}] /\ on \in [Closers -> Sessions \cup {0}]
      /\ next \in [Callers -> {"idle", "connect", "index"}] /\ owner \in [Bridges -> Sessions \cup {0}]
      /\ bridge \in [Bridges -> BridgeLabels]
  BY DEF TypeOK, ProcType, BridgeType
<1>w. \A b \in Bridges : InWaitGroup(b) => owner[b] \in Sessions BY DEF InWaitGroup, TypeOK, BridgeType
<1>1. ASSUME NEW p \in Callers, CallerStep(p) \/ Request(p) PROVE CloseInv'
  <2>1. UNCHANGED <<closed, kills, done, owner, bridge>>
    BY <1>1 DEF CallerStep, Request, closeClient, removeNext, connect, connectFails, registerReverse, registerFails,
                publish, index, create, remove, removeAll, removeLocked, sessionVars, bridgeVars, histVars
  <2>2. \/ UNCHANGED pc
        \/ \E label \in (CallerLabels \ Past) \cup {next[p]} : pc' = [pc EXCEPT ![p] = label]
        \/ \E e : pc' = [pc EXCEPT ![p] = "publish", ![e] = "watch"]
    BY <1>1 DEF CallerStep, Request, closeClient, removeNext, connect, connectFails, registerReverse, registerFails,
                publish, index, create, remove, removeAll, removeLocked, Return, AfterRemovals, Goto, CallerLabels, CloserLabels, Past
  <2>3. next[p] \notin Past BY <1>t DEF Past, CloserLabels
  <2>4. \A g \in Closers : pc'[g] \in Past => pc'[g] = pc[g] /\ (g = p => UNCHANGED pc)
    BY <2>2, <2>3, <1>t DEF Past, CloserLabels
  <2>5. UNCHANGED on \/ \E e : on' = [on EXCEPT ![p] = e]
    BY <1>1 DEF CallerStep, Request, closeClient, removeNext, connect, connectFails, registerReverse, registerFails,
                publish, index, create, remove, removeAll, removeLocked
  <2>6. UNCHANGED pc => UNCHANGED on \/ pc[p] \notin Past
    BY <1>1 DEF CallerStep, Request, closeClient, removeNext, connect, connectFails, registerReverse, registerFails,
                publish, index, create, remove, removeAll, removeLocked, Past, CloserLabels
  <2>7. \A g \in Closers : pc'[g] \in Past => pc'[g] = pc[g] /\ on'[g] = on[g] BY <2>4, <2>5, <2>6, <1>t
  <2>8. \A b \in Bridges : InWaitGroup(b)' => InWaitGroup(b) /\ owner'[b] = owner[b] BY <2>1 DEF InWaitGroup
  <2> QED BY <2>1, <2>7, <2>8, <1>w, CloseFrame
<1>2. ASSUME NEW e \in Sessions, watch(e) PROVE CloseInv'
  <2>1. UNCHANGED <<closed, kills, done, owner, bridge, on>> /\ pc' = [pc EXCEPT ![e] = "close"]
    BY <1>2 DEF watch, Goto, sessionVars, bridgeVars, histVars
  <2>2. \A g \in Closers : pc'[g] \in Past => pc'[g] = pc[g] BY <2>1, <1>t DEF Past
  <2>3. \A b \in Bridges : InWaitGroup(b)' => InWaitGroup(b) /\ owner'[b] = owner[b] BY <2>1 DEF InWaitGroup
  <2> QED BY <2>1, <2>2, <2>3, <1>w, CloseFrame
<1>3. ASSUME NEW e \in Sessions, deviceConnects(e) \/ deviceLost(e) PROVE CloseInv'
  <2>1. UNCHANGED <<closed, kills, done, pc, on>>
    BY <1>3 DEF deviceConnects, deviceLost, sessionVars, procVars, histVars
  <2>2. \/ UNCHANGED <<owner, bridge>>
        \/ \E b \in Bridges : owner' = [owner EXCEPT ![b] = e] /\ bridge' = [bridge EXCEPT ![b] = "start"]
    BY <1>3 DEF deviceConnects, deviceLost, Step
  <2>3. \A b \in Bridges : InWaitGroup(b)' => InWaitGroup(b) /\ owner'[b] = owner[b]
    BY <2>2, <1>t DEF InWaitGroup
  <2> QED BY <2>1, <2>3, <1>w, CloseFrame
<1>4. ASSUME NEW b \in Bridges, BridgeStep(b) \/ copyEnds(b) PROVE CloseInv'
  <2>1. UNCHANGED <<closed, kills, done, pc, on, owner>>
    BY <1>4 DEF BridgeStep, startBridge, dial, bridgeError, recordReverseError, giveUp, addBridge, notifyActive,
                recordReverseActive, removeBridge, copyEnds, bridgeFrame, procVars, histVars
  <2>2. PICK label : bridge' = [bridge EXCEPT ![b] = label]
    BY <1>4 DEF BridgeStep, startBridge, dial, bridgeError, recordReverseError, giveUp, addBridge, notifyActive,
                recordReverseActive, removeBridge, copyEnds, Step
  <2>3. InWaitGroup(b) \/ startBridge(b)
    BY <1>4 DEF BridgeStep, dial, bridgeError, recordReverseError, giveUp, addBridge, notifyActive,
                recordReverseActive, removeBridge, copyEnds, InWaitGroup
  <2>4. startBridge(b) => bridge'[b] = "done" \/ ~closed[owner[b]]
    BY <1>t DEF startBridge, Step
  <2>5. startBridge(b) => owner[b] \in Sessions BY DEF startBridge, TypeOK, BridgeType
  <2>6. \A x \in Bridges \ {b} : bridge'[x] = bridge[x] BY <2>2, <1>t
  <2>7. \A x \in Bridges : InWaitGroup(x)' =>
          owner'[x] \in Sessions /\ ((InWaitGroup(x) /\ owner'[x] = owner[x]) \/ ~closed[owner'[x]])
    BY <2>1, <2>3, <2>4, <2>5, <2>6, <1>w DEF InWaitGroup
  <2> QED BY <2>1, <2>7, CloseFrame
<1>5. CASE UNCHANGED vars
  <2>1. UNCHANGED <<closed, kills, done, pc, on, owner, bridge>>
    BY <1>5 DEF vars, sessionVars, bridgeVars, procVars, histVars
  <2>2. \A b \in Bridges : InWaitGroup(b)' => InWaitGroup(b) /\ owner'[b] = owner[b] BY <2>1 DEF InWaitGroup
  <2> QED BY <2>1, <2>2, <1>w, CloseFrame
<1> QED BY <1>1, <1>2, <1>3, <1>4, <1>5

\* The steps of Close itself: the first call marks the session and is alone from
\* then on; it sends killforward, then waits for the bridges.
LEMMA ClosingClose ==
    ASSUME TypeOK, CloseInv, NEW g \in Closers, Closing(g)
    PROVE  CloseInv'
<1> USE DEF CloseInv
<1> DEFINE e == on[g]
<1>t. /\ pc \in [Closers -> CallerLabels \cup {"off", "watch"}] /\ closed \in [Sessions -> BOOLEAN]
      /\ done \in [Sessions -> BOOLEAN] /\ kills \in [Sessions -> Nat]
  BY DEF TypeOK, ProcType, SessionType
<1>w. \A b \in Bridges : InWaitGroup(b) => owner[b] \in Sessions BY DEF InWaitGroup, TypeOK, BridgeType
<1>e. e \in Sessions
  BY DEF TypeOK, Closing, Close, RemoveOpenHandler, closeActive, removeReverse, bridgeWait, CloserLabels
<1>o. \A h \in Closers : pc[h] \in Past => on[h] \in Sessions BY DEF TypeOK, Past
<1>p. UNCHANGED <<on, owner, bridge>>
  BY DEF Closing, Close, RemoveOpenHandler, closeActive, removeReverse, bridgeWait, bridgeVars
<1>b. \A b \in Bridges : InWaitGroup(b)' <=> InWaitGroup(b) BY <1>p DEF InWaitGroup
<1>a. AfterClose(g) \notin Past BY DEF AfterClose, Past, CloserLabels
<1>1. CASE Close(g)
  <2>1. /\ closed' = [closed EXCEPT ![e] = TRUE] /\ UNCHANGED <<kills, done>>
        /\ pc' = [pc EXCEPT ![g] = IF closed[e] THEN AfterClose(g) ELSE "unhandle"]
    BY <1>1 DEF Close, Goto, histVars
  <2>2. pc'[g] = (IF closed[e] THEN AfterClose(g) ELSE "unhandle") /\ \A h \in Closers \ {g} : pc'[h] = pc[h]
    BY <2>1, <1>t
  <2>3. CASE closed[e]
    <3>1. closed' = closed BY <2>1, <2>3, <1>t
    <3>2. \A h \in Closers : pc'[h] \in Past => pc'[h] = pc[h] BY <2>2, <2>3, <1>a
    <3> QED BY <2>1, <3>1, <3>2, <1>p, <1>b, <1>w, CloseFrame
  <2>4. CASE ~closed[e]
    <3>1. closed'[e] /\ \A x \in Sessions : closed[x] => closed'[x] BY <2>1, <1>t, <1>e
    <3>2. \A h \in Closers \ {g} : pc[h] \in Past => on[h] # e BY <2>4 DEF OneCloser
    <3>3. pc'[g] = "unhandle" /\ kills[e] = 0 BY <2>2, <2>4, <1>e DEF OneCloser
    <3>4. OneCloser'
      <4>1. \A x \in Sessions : ~closed'[x] => kills'[x] = 0 /\ ~done'[x] BY <2>1, <3>1 DEF OneCloser
      <4>2. ASSUME NEW h \in Closers, pc'[h] \in Past
            PROVE  /\ closed'[on'[h]]
                   /\ pc'[h] # "wait" => kills'[on'[h]] = 0
                   /\ \A k \in Closers \ {h} : pc'[k] \in Past => on'[k] # on'[h]
        BY <2>1, <2>2, <3>1, <3>2, <3>3, <4>2, <1>p, <1>o DEF OneCloser
      <4> QED BY <4>1, <4>2 DEF OneCloser
    <3>5. SessionClosesOnce' BY <2>1, <1>p, <1>b DEF SessionClosesOnce
    <3> QED BY <3>4, <3>5
  <2> QED BY <2>3, <2>4
<1>2. CASE RemoveOpenHandler(g) \/ closeActive(g)
  <2>1. UNCHANGED <<closed, kills, done>> /\ pc[g] \in {"unhandle", "closeActive"}
        /\ \E label \in {"closeActive", "killforward"} : pc' = [pc EXCEPT ![g] = label]
    BY <1>2 DEF RemoveOpenHandler, closeActive, Goto, sessionVars, histVars
  <2>2. pc'[g] \in {"closeActive", "killforward"} /\ \A h \in Closers \ {g} : pc'[h] = pc[h] BY <2>1, <1>t
  <2>3. \A h \in Closers : pc'[h] \in Past => pc[h] \in Past /\ (pc'[h] # "wait" => pc[h] # "wait")
    BY <2>1, <2>2 DEF Past, CloserLabels
  <2>4. OneCloser' BY <2>1, <2>3, <1>p DEF OneCloser
  <2>5. SessionClosesOnce' BY <2>1, <1>p, <1>b DEF SessionClosesOnce
  <2> QED BY <2>4, <2>5
<1>3. CASE removeReverse(g)
  <2>1. /\ UNCHANGED <<closed, done>> /\ pc[g] = "killforward" /\ pc' = [pc EXCEPT ![g] = "wait"]
        /\ kills' = [kills EXCEPT ![e] = @ + 1]
    BY <1>3 DEF removeReverse, Goto, sessionVars
  <2>2. pc'[g] = "wait" /\ \A h \in Closers \ {g} : pc'[h] = pc[h] BY <2>1, <1>t
  <2>3. /\ closed[e] /\ kills[e] = 0 /\ \A h \in Closers \ {g} : pc[h] \in Past => on[h] # e
    BY <2>1 DEF OneCloser, Past, CloserLabels
  <2>4. kills'[e] = 1 /\ \A x \in Sessions \ {e} : kills'[x] = kills[x] BY <2>1, <2>3, <1>t, <1>e
  <2>5. OneCloser'
    <3>1. \A x \in Sessions : ~closed'[x] => kills'[x] = 0 /\ ~done'[x] BY <2>1, <2>3, <2>4 DEF OneCloser
    <3>2. ASSUME NEW h \in Closers, pc'[h] \in Past
          PROVE  /\ closed'[on'[h]]
                 /\ pc'[h] # "wait" => kills'[on'[h]] = 0
                 /\ \A k \in Closers \ {h} : pc'[k] \in Past => on'[k] # on'[h]
      BY <2>1, <2>2, <2>3, <2>4, <3>2, <1>p, <1>o DEF OneCloser
    <3> QED BY <3>1, <3>2 DEF OneCloser
  <2>6. SessionClosesOnce' BY <2>1, <2>4, <1>p, <1>b DEF SessionClosesOnce
  <2> QED BY <2>5, <2>6
<1>4. CASE bridgeWait(g)
  <2>1. /\ UNCHANGED <<closed, kills>> /\ pc[g] = "wait" /\ pc' = [pc EXCEPT ![g] = AfterClose(g)]
        /\ done' = [done EXCEPT ![e] = TRUE] /\ \A b \in Bridges : owner[b] = e => ~InWaitGroup(b)
    BY <1>4 DEF bridgeWait, Goto, histVars
  <2>2. pc'[g] = AfterClose(g) /\ \A h \in Closers \ {g} : pc'[h] = pc[h] BY <2>1, <1>t
  <2>3. closed[e] BY <2>1 DEF OneCloser, Past, CloserLabels
  <2>4. \A x \in Sessions \ {e} : done'[x] = done[x] BY <2>1, <1>t
  <2>5. \A h \in Closers : pc'[h] \in Past => pc'[h] = pc[h] BY <2>2, <1>a
  <2>6. OneCloser' BY <2>1, <2>3, <2>4, <2>5, <1>p DEF OneCloser
  <2>7. SessionClosesOnce' BY <2>1, <2>4, <1>p, <1>b DEF SessionClosesOnce
  <2> QED BY <2>6, <2>7
<1> QED BY <1>1, <1>2, <1>3, <1>4 DEF Closing

\* The invariant is inductive.
LEMMA NextInv == ASSUME IInv, [Next]_vars PROVE IInv'
<1>1. TypeOK' /\ RegInv' BY NextReg DEF IInv
<1>2. CloseInv' BY OtherClose, ClosingClose DEF IInv, Next
<1> QED BY <1>1, <1>2 DEF IInv

-----------------------------------------------------------------------------
(* What holds in every reachable state.                                    *)

\* The inductive invariant holds throughout.
THEOREM ReverseInvariant == Spec => []IInv
<1>1. IInv /\ [Next]_vars => IInv' BY NextInv
<1> QED BY <1>1, InitInv, PTL DEF Spec

\* reverseRegistry and its sessions keep their types: every goroutine inside
\* Reverse.Close has a session.
THEOREM ReverseTypeCorrect == Spec => []TypeOK
<1>1. IInv => TypeOK BY DEF IInv
<1> QED BY <1>1, ReverseInvariant, PTL

\* byID and byRemote agree, although create unlocks between its two lookups.
THEOREM IndexesAgree == Spec => []IndexAgrees
<1>1. IInv => IndexAgrees BY DEF IInv, RegInv
<1> QED BY <1>1, ReverseInvariant, PTL

\* No ADB client stays open without an entry or a request that owns it.
THEOREM ClientsOwned == Spec => []NoClientLeak
<1>1. IInv => NoClientLeak BY DEF IInv, RegInv
<1> QED BY <1>1, ReverseInvariant, PTL

\* Of all the Closes of a session one sends killforward, and the wait of a
\* finished one has missed no bridge.
THEOREM SessionsCloseOnce == Spec => []SessionClosesOnce
<1>1. IInv => SessionClosesOnce BY DEF IInv, CloseInv
<1> QED BY <1>1, ReverseInvariant, PTL
-----------------------------------------------------------------------------
(* The refinement.  Creating makes it hold: the id a create publishes is in *)
(* nobody else's hands, and its endpoint is free by then.                   *)

\* Ids that are handed out and that no create has.
HandedOut == {e \in Sessions : e <= nextID /\ \A p \in Callers : cur[p] # e}

\* An idle caller has no session, so pc is not needed to tell what is spent.
LEMMA SpentHandedOut == (Creating => Spent = HandedOut) /\ (Creating' => Spent' = HandedOut')
<1>1. Creating => Spent = HandedOut BY SessionsNat DEF Creating, Spent, HandedOut
<1>2. Creating' => Spent' = HandedOut' BY SessionsNat DEF Creating, Spent, HandedOut
<1> QED BY <1>1, <1>2

\* removeLocked withdraws the endpoint of the entry it removes.
LEMMA RemoveWithdraws ==
    ASSUME IInv, IInv', NEW p \in Callers, NEW e \in Sessions, NEW rest, NEW then,
           removeLocked(p, e, rest, then), cur' = cur
    PROVE  Table!Next
<1>1. nextID' = nextID /\ byRemote' = [byRemote EXCEPT ![rem[e]] = 0] BY DEF removeLocked, unindex
<1>2. Spent' = Spent BY <1>1, SpentHandedOut DEF HandedOut, IInv, RegInv
<1>3. rem[e] \in Remotes /\ byRemote \in [Remotes -> Sessions \cup {0}] BY DEF IInv, TypeOK, EntryType, RegistryType
<1>4. byRemote' = [r \in Remotes |-> IF r \in {rem[e]} THEN 0 ELSE byRemote[r]] BY <1>1, <1>3
<1>5. {rem[e]} \in SUBSET Remotes BY <1>3
<1> QED BY <1>2, <1>4, <1>5 DEF Table!Next, Table!Withdraw

\* index publishes the session of a create under an endpoint that is free.
LEMMA IndexPublishes ==
    ASSUME IInv, IInv', NEW p \in Callers, index(p)
    PROVE  Table!Next
<1>p. pc[p] = "index" BY DEF index
<1>n. PICK n \in Sessions : n = cur[p] /\ n <= nextID /\ rem[n] = wantRem[p] /\ byRemote[rem[n]] = 0
                            /\ \A q \in Callers \ {p} : cur[q] # n
  BY <1>p, SessionsNat DEF IInv, RegInv, Creating
<1>t. cur \in [Callers -> Sessions \cup {0}] /\ rem[n] \in Remotes BY DEF IInv, TypeOK, ProcType, EntryType
<1>1. nextID' = nextID /\ byRemote' = [byRemote EXCEPT ![rem[n]] = n] /\ cur' = [cur EXCEPT ![p] = 0]
  BY <1>n DEF index
<1>2. cur'[p] = 0 /\ \A q \in Callers \ {p} : cur'[q] = cur[q] BY <1>1, <1>t
<1>3. \A e \in Sessions : (\A q \in Callers : cur'[q] # e) <=> (e = n \/ \A q \in Callers : cur[q] # e)
  BY <1>n, <1>2, SessionsNat
<1>4. HandedOut' = HandedOut \cup {n} /\ n \notin HandedOut BY <1>n, <1>1, <1>3 DEF HandedOut
<1>5. Spent' = Spent \cup {n} /\ n \notin Spent BY <1>4, SpentHandedOut DEF IInv, RegInv
<1>6. \E id \in Sessions \ Spent, k \in Remotes :
        byRemote[k] = 0 /\ byRemote' = [byRemote EXCEPT ![k] = id] /\ Spent' = Spent \cup {id}
  BY <1>n, <1>t, <1>1, <1>5
<1> QED BY <1>6 DEF Table!Next, Table!Publish

\* A create that gives its session up discards its id.
LEMMA FailureDiscards ==
    ASSUME IInv, IInv', NEW p \in Callers, cur[p] \in Sessions, cur' = [cur EXCEPT ![p] = 0],
           UNCHANGED <<nextID, byRemote>>
    PROVE  Table!Next
<1> DEFINE n == cur[p]
<1>t. cur \in [Callers -> Sessions \cup {0}] BY DEF IInv, TypeOK, ProcType
<1>1. n \in Sessions /\ n <= nextID /\ \A q \in Callers \ {p} : cur[q] # n
  BY SessionsNat DEF IInv, RegInv, Creating
<1>2. cur'[p] = 0 /\ \A q \in Callers \ {p} : cur'[q] = cur[q] BY <1>t
<1>3. \A e \in Sessions : (\A q \in Callers : cur'[q] # e) <=> (e = n \/ \A q \in Callers : cur[q] # e)
  BY <1>1, <1>2, SessionsNat
<1>4. HandedOut' = HandedOut \cup {n} /\ n \notin HandedOut BY <1>1, <1>3 DEF HandedOut
<1>5. Spent' = Spent \cup {n} /\ n \notin Spent BY <1>4, SpentHandedOut DEF IInv, RegInv
<1> QED BY <1>1, <1>5 DEF Table!Next, Table!Discard

\* A fresh id is in the hands of its create at once.
LEMMA ConnectStutters ==
    ASSUME IInv, IInv', NEW p \in Callers, connect(p)
    PROVE  UNCHANGED <<byRemote, Spent>>
<1>t. cur \in [Callers -> Sessions \cup {0}] /\ nextID \in Nat BY DEF IInv, TypeOK, ProcType, RegistryType
<1>1. nextID' = nextID + 1 /\ cur' = [cur EXCEPT ![p] = nextID + 1] /\ byRemote' = byRemote BY DEF connect
<1>2. cur[p] = 0 BY DEF connect, IInv, RegInv, Creating
<1>3. cur'[p] = nextID + 1 /\ \A q \in Callers \ {p} : cur'[q] = cur[q] BY <1>1, <1>t
<1>4. \A e \in Sessions : (e <= nextID' <=> e <= nextID \/ e = nextID + 1) /\ (e <= nextID => e # nextID + 1) /\ e # 0
  BY <1>1, <1>t, SessionsNat
<1>5. HandedOut' = HandedOut BY <1>2, <1>3, <1>4 DEF HandedOut
<1> QED BY <1>1, <1>5, SpentHandedOut DEF IInv, RegInv

\* A step that leaves the index, the ids and what creates hold alone.
LEMMA StutterTable ==
    ASSUME IInv, IInv', UNCHANGED <<nextID, byRemote, cur>>
    PROVE  UNCHANGED <<byRemote, Spent>>
  BY SpentHandedOut DEF IInv, RegInv, HandedOut

\* Every step of the registry is a step of the table or leaves it alone.
LEMMA StepTable ==
    ASSUME IInv, IInv', [Next]_vars
    PROVE  [Table!Next]_<<byRemote, Spent>>
<1>1. ASSUME NEW p \in Callers, CallerStep(p) \/ Request(p) PROVE [Table!Next]_<<byRemote, Spent>>
  <2>t. /\ byID \subseteq Sessions /\ byRemote \in [Remotes -> Sessions \cup {0}] /\ wantRem[p] \in Remotes
        /\ cur \in [Callers -> Sessions \cup {0}]
    BY DEF IInv, TypeOK, RegistryType, ProcType
  <2>1. CASE remove(p) \/ removeAll(p) \/ removeNext(p)
    <3>1. cur' = cur BY <2>1 DEF remove, removeAll, removeNext
    <3>2. \E e \in byID, rest \in SUBSET byID : removeLocked(p, e, rest, "idle") BY <2>1, RequestRemoves DEF IInv
    <3> QED BY <3>1, <3>2, <2>t, RemoveWithdraws
  <2>2. CASE create(p)
    <3>1. cur' = cur BY <2>2 DEF create
    <3>2. \/ UNCHANGED <<nextID, byRemote>>
          \/ \E r \in Remotes : byRemote[r] # 0 /\ removeLocked(p, byRemote[r], {}, "connect")
      BY <2>2 DEF create, regVars
    <3> QED BY <3>1, <3>2, <2>t, StutterTable, RemoveWithdraws
  <2>3. CASE publish(p)
    <3>1. cur' = cur BY <2>3 DEF publish
    <3>2. \/ UNCHANGED <<nextID, byRemote>>
          \/ byRemote[wantRem[p]] # 0 /\ removeLocked(p, byRemote[wantRem[p]], {}, "index")
      BY <2>3 DEF publish, regVars
    <3> QED BY <3>1, <3>2, <2>t, StutterTable, RemoveWithdraws
  <2>4. CASE closeClient(p)
    <3>1. UNCHANGED <<nextID, byRemote>> /\ pc[p] = "closeClient" BY <2>4 DEF closeClient, regVars
    <3>2. cur' = cur \/ (cur[p] = on[p] /\ cur' = [cur EXCEPT ![p] = 0]) BY <2>4 DEF closeClient
    <3>3. on[p] \in Sessions BY <3>1 DEF IInv, RegInv, Removals, Removing
    <3> QED BY <3>1, <3>2, <3>3, StutterTable, FailureDiscards
  <2>5. CASE registerFails(p)
    <3>1. UNCHANGED <<nextID, byRemote>> /\ cur' = [cur EXCEPT ![p] = 0] /\ pc[p] = "register"
      BY <2>5 DEF registerFails, regVars
    <3>2. cur[p] \in Sessions BY <3>1 DEF IInv, RegInv, Creating
    <3> QED BY <3>1, <3>2, FailureDiscards
  <2>6. CASE connectFails(p) \/ registerReverse(p)
    BY <2>6, StutterTable DEF connectFails, registerReverse, regVars
  <2> QED BY <1>1, <2>1, <2>2, <2>3, <2>4, <2>5, <2>6, ConnectStutters, IndexPublishes DEF CallerStep, Request
<1>2. ASSUME NEW g \in Closers, Closing(g) PROVE UNCHANGED <<nextID, byRemote, cur>>
  BY <1>2 DEF Closing, Close, RemoveOpenHandler, closeActive, removeReverse, bridgeWait, regVars
<1>3. ASSUME NEW e \in Sessions, watch(e) \/ deviceConnects(e) \/ deviceLost(e) PROVE UNCHANGED <<nextID, byRemote, cur>>
  BY <1>3 DEF watch, deviceConnects, deviceLost, regVars, procVars
<1>4. ASSUME NEW b \in Bridges, BridgeStep(b) \/ copyEnds(b) PROVE UNCHANGED <<nextID, byRemote, cur>>
  BY <1>4 DEF BridgeStep, startBridge, dial, bridgeError, recordReverseError, giveUp, addBridge, notifyActive,
              recordReverseActive, removeBridge, copyEnds, bridgeFrame, regVars, procVars
<1>5. CASE UNCHANGED vars BY <1>5, StutterTable DEF vars, regVars, procVars
<1> QED BY <1>1, <1>2, <1>3, <1>4, <1>5, StutterTable DEF Next

\* reverseRegistry implements the table of mappings, for any number of requests,
\* endpoints and sessions: a create lists a fresh id under a free endpoint, and a
\* listed reverse goes only by being removed.
THEOREM ReverseImplementsTable == Spec => ImplementsTable
<1>1. Init => Table!Init
  <2> SUFFICES ASSUME Init PROVE Table!Init OBVIOUS
  <2>1. \A e \in Sessions : ~(e <= 0) BY SessionsNat
  <2> QED BY <2>1 DEF Init, Table!Init, Spent
<1>2. IInv /\ IInv' /\ [Next]_vars => [Table!Next]_<<byRemote, Spent>> BY StepTable
<1> QED BY <1>1, <1>2, ReverseInvariant, PTL DEF Spec, ImplementsTable, Table!Spec
==============================================================================

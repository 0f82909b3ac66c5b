------------------------ MODULE ServerLifecycleProofs ------------------------
(***************************************************************************)
(* Proofs about ServerLifecycle.  For any number of processes and requests, *)
(* a server with an open listener is the one at the socket path as long as  *)
(* no start has been contended.  The argument: of two live processes, one   *)
(* is starting and the other serves and is not shutting down (Pairs), and a *)
(* process that is about to remove or to bind has seen that nobody serves   *)
(* (Clear); so neither a start nor a shutdown touches another's socket.     *)
(***************************************************************************)
EXTENDS ServerLifecycle, TLAPS

\* No process has been started: everything is well typed.
LEMMA InitType == Init => TypeOK
<1> SUFFICES ASSUME Init PROVE TypeOK OBVIOUS
<1> USE DEF Init
<1>1. ProcessType BY DEF ProcessType, MainLabels, DownLabels
<1>2. RegistryType BY DEF RegistryType
<1>3. RequestType BY DEF RequestType
<1> QED BY <1>1, <1>2, <1>3 DEF TypeOK

\* Listen, Serve and the end of a process keep every type.
LEMMA MainType ==
    ASSUME TypeOK, NEW p \in Servers,
           MainStep(p) \/ start(p) \/ acceptFails(p) \/ crash(p) \/ interrupt(p)
    PROVE  TypeOK'
<1> USE DEF TypeOK, ProcessType, RegistryType, RequestType, MainLabels, DownLabels,
            registries, requestVars, shutdownVars
<1>1. CASE start(p) BY <1>1 DEF start, Goto
<1>2. CASE lstat(p) BY <1>2 DEF lstat, Goto
<1>3. CASE ping(p) BY <1>3 DEF ping, Goto
<1>4. CASE removeStale(p) BY <1>4 DEF removeStale, Goto
<1>5. CASE bind(p) BY <1>5 DEF bind, Goto
<1>6. CASE serveReturns(p) BY <1>6 DEF serveReturns, Die, Goto
<1>7. CASE acceptFails(p) BY <1>7 DEF acceptFails, Die, Goto
<1>8. CASE crash(p) BY <1>8 DEF crash, Die, Goto
<1>9. CASE interrupt(p) BY <1>9 DEF interrupt
<1> QED BY <1>1, <1>2, <1>3, <1>4, <1>5, <1>6, <1>7, <1>8, <1>9 DEF MainStep

\* The body of Shutdown keeps every type.
LEMMA ShutdownType ==
    ASSUME TypeOK, NEW p \in Servers, ShutdownStep(p) \/ closeReverses(p)
    PROVE  TypeOK'
<1> USE DEF TypeOK, ProcessType, RegistryType, RequestType, DownLabels, registries, requestVars, NextDown
<1>1. CASE Shutdown(p) BY <1>1 DEF Shutdown
<1>2. CASE closeListener(p) BY <1>2 DEF closeListener
<1>3. CASE closeForwards(p) BY <1>3 DEF closeForwards
<1>4. CASE closeReverses(p) BY <1>4 DEF closeReverses
<1>5. CASE removeSocket(p) BY <1>5 DEF removeSocket
<1>6. CASE closeDone(p) BY <1>6 DEF closeDone
<1> QED BY <1>1, <1>2, <1>3, <1>4, <1>5, <1>6 DEF ShutdownStep

\* Requests keep every type.
LEMMA RequestStepType ==
    ASSUME TypeOK, NEW r \in Requests, RequestStep(r) \/ accept(r) \/ mapRace(r)
    PROVE  TypeOK'
<1> USE DEF TypeOK, ProcessType, RegistryType, RequestType, Commands, registries, requestVars, shutdownVars, Reply
<1>1. CASE handleShutdown(r) BY <1>1 DEF handleShutdown
<1>2. CASE reverseRegister(r) BY <1>2 DEF reverseRegister
<1>3. CASE reversePublish(r) BY <1>3 DEF reversePublish
<1>4. CASE reverseRemoveAll(r) BY <1>4 DEF reverseRemoveAll
<1>5. CASE useDevices(r) BY <1>5 DEF useDevices
<1>6. CASE leaveDevices(r) BY <1>6 DEF leaveDevices
<1>7. CASE accept(r) BY <1>7 DEF accept, Answers
<1>8. CASE mapRace(r) BY <1>8 DEF mapRace, Die, Goto, MainLabels
<1>9. CASE reverseRemove(r) BY <1>9 DEF reverseRemove
<1> QED BY <1>1, <1>2, <1>3, <1>4, <1>5, <1>6, <1>7, <1>8, <1>9 DEF RequestStep

\* Every step keeps every type.
LEMMA NextType == ASSUME TypeOK, [Next]_vars PROVE TypeOK'
<1>1. CASE UNCHANGED vars
  BY <1>1 DEF TypeOK, ProcessType, RegistryType, RequestType, vars, registries, requestVars, shutdownVars
<1>2. CASE Next BY <1>2, MainType, ShutdownType, RequestStepType DEF Next
<1> QED BY <1>1, <1>2

\* The processes, their shutdowns and their requests are well typed in every
\* reachable state.
THEOREM LifecycleTypeCorrect == Spec => []TypeOK
<1>1. Init => TypeOK BY InitType
<1>2. TypeOK /\ [Next]_vars => TypeOK' BY NextType
<1> QED BY <1>1, <1>2, PTL DEF Spec

-----------------------------------------------------------------------------
(* The inductive invariant.                                                *)

Serving(p) == main[p] = "serve" /\ listener[p] = "open"

\* Where a process is in Listen, Serve and Shutdown.
Phases ==
    \A p \in Servers :
      /\ Starting(p) => listener[p] = "none" /\ down[p] = "none" /\ calls[p] = 0
      /\ main[p] = "off" => down[p] = "none" /\ calls[p] = 0 /\ listener[p] = "none"
      /\ main[p] = "serve" => (listener[p] = "open" <=> down[p] \in {"none", "listener"})
      /\ down[p] # "done" => doneCloses[p] = 0
      /\ doneCloses[p] <= 1

\* Of two live processes one is starting and the other serves.
Pairs ==
    \A p \in Servers : \A q \in Servers \ {p} : Live(p) /\ Live(q) =>
      /\ down[p] = "none" /\ down[q] = "none"
      /\ Starting(p) # Starting(q)

\* Nobody serves when a start removes the socket or binds its own.
Clear ==
    \A p \in Servers : main[p] \in {"remove", "bind"} => \A q \in Servers : ~Serving(q)

Owned == \A p \in Servers : Serving(p) => path = p

IInv == TypeOK /\ Phases /\ (~contended => Pairs /\ Clear /\ Owned)

\* Nothing runs at first.
LEMMA InitInv == Init => IInv
  BY InitType DEF Init, IInv, Phases, Pairs, Clear, Owned, Serving, Live, Starting

\* Every step of Listen and Serve keeps the invariant.
LEMMA MainInv ==
    ASSUME IInv, TypeOK', NEW p \in Servers,
           MainStep(p) \/ start(p) \/ acceptFails(p) \/ crash(p) \/ interrupt(p)
    PROVE  IInv'
<1> USE DEF TypeOK, ProcessType, IInv, Live, Starting, Serving, shutdownVars
<1>1. CASE start(p)
  <2>1. Phases' BY <1>1 DEF Phases, start, Goto
  <2>2. ~contended' => Pairs'
    <3> SUFFICES ASSUME ~contended' PROVE Pairs' OBVIOUS
    <3>1. ~contended /\ \A q \in Servers : Live(q) => ~Starting(q) /\ down[q] = "none"
      BY <1>1 DEF start
    <3>2. main[p] = "off" /\ main' = [main EXCEPT ![p] = "lstat"] /\ UNCHANGED down BY <1>1 DEF start, Goto
    <3>3. down[p] = "none" BY <3>2 DEF Phases
    <3> QED BY <3>1, <3>2, <3>3 DEF Pairs
  <2>3. ~contended' => Clear' /\ Owned' BY <1>1 DEF Clear, Owned, start, Goto
  <2> QED BY <2>1, <2>2, <2>3
<1>2. CASE lstat(p)
  <2>1. Phases' BY <1>2 DEF Phases, lstat, Goto
  <2>2. ~contended' => Pairs' BY <1>2 DEF Pairs, lstat, Goto
  <2>3. ~contended' => Clear' /\ Owned'
    BY <1>2, LifecycleAssumption DEF Clear, Owned, lstat, Goto
  <2> QED BY <2>1, <2>2, <2>3
<1>3. CASE ping(p)
  <2>1. Phases' BY <1>3 DEF Phases, ping, Goto
  <2>2. ~contended' => Pairs' BY <1>3 DEF Pairs, ping, Goto
  <2>3. ~contended' => Clear' /\ Owned' BY <1>3 DEF Clear, Owned, ping, Goto, Answers
  <2> QED BY <2>1, <2>2, <2>3
<1>4. CASE removeStale(p)
  <2>1. Phases' BY <1>4 DEF Phases, removeStale, Goto
  <2>2. ~contended' => Pairs' BY <1>4 DEF Pairs, removeStale, Goto
  <2>3. ~contended' => Clear' /\ Owned' BY <1>4 DEF Clear, Owned, removeStale, Goto
  <2> QED BY <2>1, <2>2, <2>3
<1>5. CASE bind(p)
  <2>1. Phases' BY <1>5 DEF Phases, bind, Goto
  <2>2. ~contended' => Pairs' BY <1>5 DEF Phases, Pairs, Clear, bind, Goto
  <2>3. ~contended' => Clear' /\ Owned' BY <1>5 DEF Pairs, Clear, Owned, bind, Goto
  <2> QED BY <2>1, <2>2, <2>3
<1>6. CASE serveReturns(p) \/ acceptFails(p) \/ crash(p)
  <2>1. main' = [main EXCEPT ![p] = main'[p]] /\ main'[p] \in {"exited", "failed", "crashed"}
    BY <1>6 DEF serveReturns, acceptFails, crash, Die, Goto
  <2>2. UNCHANGED <<path, listener, down, calls, doneCloses, contended>>
    BY <1>6 DEF serveReturns, acceptFails, crash
  <2>3. Phases' BY <2>1, <2>2 DEF Phases
  <2>4. ~contended' => Pairs' /\ Clear' /\ Owned' BY <2>1, <2>2 DEF Pairs, Clear, Owned
  <2> QED BY <2>3, <2>4
<1>7. CASE interrupt(p)
  BY <1>7 DEF Phases, Pairs, Clear, Owned, interrupt
<1> QED BY <1>1, <1>2, <1>3, <1>4, <1>5, <1>6, <1>7 DEF MainStep

\* The body of Shutdown keeps the invariant: only its own socket is at the path.
LEMMA ShutdownInv ==
    ASSUME IInv, TypeOK', NEW p \in Servers, ShutdownStep(p) \/ closeReverses(p)
    PROVE  IInv'
<1> USE DEF TypeOK, ProcessType, IInv, Live, Starting, Serving, NextDown
<1>1. CASE Shutdown(p)
  <2>1. Phases' BY <1>1 DEF Phases, Shutdown
  <2>2. ~contended' => Pairs'
    <3> SUFFICES ASSUME ~contended' PROVE Pairs' OBVIOUS
    <3>1. ~contended /\ \A q \in Servers : ~Starting(q) BY <1>1 DEF Shutdown
    <3>2. Live(p) /\ UNCHANGED main /\ down' = [down EXCEPT ![p] = "listener"] BY <1>1 DEF Shutdown
    <3>3. \A q \in Servers \ {p} : ~Live(q) BY <3>1, <3>2 DEF Pairs
    <3> QED BY <3>2, <3>3 DEF Pairs
  <2>3. ~contended' => Clear' /\ Owned' BY <1>1 DEF Clear, Owned, Shutdown
  <2> QED BY <2>1, <2>2, <2>3
<1>2. CASE closeListener(p)
  <2>1. Phases' BY <1>2 DEF Phases, closeListener
  <2>2. ~contended' => Pairs' BY <1>2 DEF Pairs, closeListener
  <2>3. ~contended' => Clear' /\ Owned' BY <1>2 DEF Clear, Owned, Pairs, closeListener
  <2> QED BY <2>1, <2>2, <2>3
<1>3. CASE closeForwards(p) BY <1>3 DEF closeForwards, Phases, Pairs, Clear, Owned
<1>4. CASE closeReverses(p) BY <1>4 DEF closeReverses, Phases, Pairs, Clear, Owned
<1>5. CASE removeSocket(p)
  <2>1. Phases' BY <1>5 DEF Phases, removeSocket
  <2>2. ~contended' => Pairs' BY <1>5 DEF Pairs, removeSocket
  <2>3. ~contended' => \A q \in Servers : ~Serving(q)
    <3> SUFFICES ASSUME ~contended', NEW q \in Servers, Serving(q) PROVE FALSE OBVIOUS
    <3>1. Live(p) /\ down[p] = "socket" /\ ~contended BY <1>5 DEF removeSocket
    <3>2. CASE q = p BY <3>1, <3>2 DEF Phases
    <3>3. CASE q # p BY <3>1, <3>3 DEF Pairs
    <3> QED BY <3>2, <3>3
  <2>4. ~contended' => Clear' /\ Owned' BY <1>5, <2>3 DEF Clear, Owned, removeSocket
  <2> QED BY <2>1, <2>2, <2>4
<1>6. CASE closeDone(p)
  <2>1. Phases' BY <1>6 DEF Phases, closeDone
  <2>2. ~contended' => Pairs' /\ Clear' /\ Owned' BY <1>6 DEF Pairs, Clear, Owned, closeDone
  <2> QED BY <2>1, <2>2
<1> QED BY <1>1, <1>2, <1>3, <1>4, <1>5, <1>6 DEF ShutdownStep

\* Requests keep the invariant.
LEMMA RequestInv ==
    ASSUME IInv, TypeOK', NEW r \in Requests, RequestStep(r) \/ accept(r) \/ mapRace(r)
    PROVE  IInv'
<1> USE DEF TypeOK, ProcessType, RequestType, IInv, Live, Starting, Serving, shutdownVars
<1>1. CASE handleShutdown(r)
  <2>1. server[r] \in Servers /\ main[server[r]] = "serve" BY <1>1 DEF handleShutdown
  <2>2. UNCHANGED <<path, main, listener, down, doneCloses, contended>> BY <1>1 DEF handleShutdown
  <2>3. Phases' BY <1>1, <2>1, <2>2 DEF Phases, handleShutdown
  <2> QED BY <2>2, <2>3 DEF Pairs, Clear, Owned
<1>2. CASE mapRace(r)
  <2>1. PICK p \in Servers : main' = [main EXCEPT ![p] = "crashed"] BY <1>2 DEF mapRace, Die, Goto
  <2>2. UNCHANGED <<path, listener, down, calls, doneCloses, contended>> BY <1>2 DEF mapRace
  <2>3. Phases' BY <2>1, <2>2 DEF Phases
  <2>4. ~contended' => Pairs' /\ Clear' /\ Owned' BY <2>1, <2>2 DEF Pairs, Clear, Owned
  <2> QED BY <2>3, <2>4
<1>3. CASE UNCHANGED <<path, main, listener, down, calls, doneCloses, contended>>
  BY <1>3 DEF Phases, Pairs, Clear, Owned
<1> QED
  BY <1>1, <1>2, <1>3 DEF RequestStep, reverseRegister, reversePublish, reverseRemove, reverseRemoveAll,
     useDevices, leaveDevices, accept

\* Every step keeps the invariant.
LEMMA NextInv == ASSUME IInv, [Next]_vars PROVE IInv'
<1>1. TypeOK' BY NextType DEF IInv
<1>2. CASE UNCHANGED vars
  BY <1>1, <1>2 DEF IInv, Phases, Pairs, Clear, Owned, Serving, Live, Starting, vars, shutdownVars
<1>3. CASE Next BY <1>1, <1>3, MainInv, ShutdownInv, RequestInv DEF Next
<1> QED BY <1>2, <1>3

\* The invariant of the socket path and of Shutdown holds in every reachable
\* state.
THEOREM LifecycleInvariant == Spec => []IInv
<1>1. Init => IInv BY InitInv
<1>2. IInv /\ [Next]_vars => IInv' BY NextInv
<1> QED BY <1>1, <1>2, PTL DEF Spec

\* Without a contended start, a server with an open listener owns the socket
\* path: prepareSocketPath and Shutdown remove no running server's socket.
THEOREM SocketIsOwned == Spec => []SocketOwned
<1>1. IInv => SocketOwned BY DEF IInv, Owned, Serving, SocketOwned
<1> QED BY <1>1, LifecycleInvariant, PTL

\* shutdownOnce: s.done is closed at most once, whatever calls Shutdown.
THEOREM DoneClosedOnce == Spec => []DoneOnce
<1>1. IInv => DoneOnce BY DEF IInv, Phases, DoneOnce
<1> QED BY <1>1, LifecycleInvariant, PTL
=============================================================================

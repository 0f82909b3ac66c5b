------------------------- MODULE ServerCommandsProofs -------------------------
(***************************************************************************)
(* Proofs about ServerCommands, for any number of shells, endpoints,       *)
(* devices and ids.                                                        *)
(*                                                                         *)
(* Everything rests on ids: a server never hands one out twice, an id is    *)
(* listed once, under one endpoint, or never, and a removal that goes by id *)
(* therefore means the mapping that its listing showed, however long ago    *)
(* that was, as long as the server is the same (Tracks).                    *)
(* RInv adds which requests wait where, and which creates hold which ids:   *)
(* with it a command that waits has a way out, and the table is the         *)
(* MappingTable that the registries implement.                              *)
(***************************************************************************)
EXTENDS ServerCommands, FiniteSetTheorems, TLAPS

RequestType ==
    [step : {"unsent", "handle", "setup", "publish", "stuck", "closing"},
     name : {"none", "ping", "status", "shutdown", "device_list", "list", "create", "remove", "remove_all"},
     endpoint : Endpoints \cup {None}, id : 0 .. MaxIds, device : Devices \cup {None}, norebind : BOOLEAN]

\* The endpoint e has a mapping.
Used(e) == table[e] # NoMapping
IsListed(i) == \E e \in Endpoints : Used(e) /\ table[e].id = i
\* The create of p has an id that is not listed yet.
Publishing(p) == job[p].step = "publish"
\* The id is handed out and will not be listed from now on, unless it is now.
Settled(i) == i \in 0 .. nextID /\ \A q \in Clients : Publishing(q) => job[q].id # i

\* A shell has at most one request at a time, and only a create has norebind.
Requests ==
    /\ job \in [Clients -> RequestType]
    /\ \A p \in Clients : /\ client[p].pc = "probe" => job[p] = NoRequest
                          /\ job[p].norebind => job[p].name = "create"

\* Ids are handed out once and listed once.
OneListing ==
    /\ \A e \in Endpoints : Used(e) => table[e].id \in 1 .. nextID
    /\ \A e, f \in Endpoints : Used(e) /\ Used(f) /\ table[e].id = table[f].id => e = f
    /\ \A p \in Clients : Publishing(p) =>
         /\ job[p].id \in 1 .. nextID /\ ~IsListed(job[p].id)
         /\ \A q \in Clients \ {p} : Publishing(q) => job[q].id # job[p].id
    /\ \A i \in gone : Settled(i) /\ ~IsListed(i)

\* A mapping listed under id i is one that command c is for.
For(c, i) ==
    \A e \in Endpoints : Used(e) /\ table[e].id = i =>
      table[e].device = c.device /\ (c.verb = "remove" => e = c.endpoint)

\* A compat removal whose listing this server made: the ids of the listing mean
\* what they meant then, and those whose turn is over are not listed any more.
Tracks(c, j) ==
    /\ c.ask = "remove" /\ c.todo \subseteq c.ids
    /\ c.pc = "exited" => c.ids = {}
    /\ j # NoRequest => j.name = "remove" /\ j.id # 0
    /\ \A i \in c.ids \cup {j.id} : Settled(i) /\ For(c, i)
    /\ \A i \in c.ids \ (c.todo \cup {j.id}) : ~IsListed(i)

Tracking == \A p \in Clients : client[p].same => Tracks(client[p], job[p])

IInv == TypeOK /\ Requests /\ OneListing /\ Tracking

-----------------------------------------------------------------------------
(* Commands and requests.                                                  *)

\* A command that has ended is well typed and expects nothing.
LEMMA EndedType ==
    ASSUME NEW code \in {0, 1, 2}
    PROVE  Ended(code) \in CommandType /\ Ended(code).pc = "exited" /\ Ended(code).same = FALSE
  BY DEF Ended, NoCommand, Command, CommandType

\* The request of a shell that has none is well typed.
LEMMA NoRequestType ==
    /\ NoRequest \in RequestType
    /\ NoRequest.step = "unsent" /\ NoRequest.id = 0 /\ NoRequest.norebind = FALSE /\ NoRequest.name = "none"
  BY CommandsAssumption DEF NoRequest, Request, RequestType

\* A command with its next request is well typed, and what it tracks stays.
LEMMA AskType ==
    ASSUME NEW c \in CommandType, NEW name \in {"none", "device_list", "list", "create", "remove"}
    PROVE  /\ Ask(c, name) \in CommandType
           /\ Ask(c, name).pc = "probe" /\ Ask(c, name).ask = name
           /\ Ask(c, name).same = c.same /\ Ask(c, name).ids = c.ids /\ Ask(c, name).todo = c.todo
           /\ Ask(c, name).device = c.device /\ Ask(c, name).verb = c.verb /\ Ask(c, name).endpoint = c.endpoint
  BY ZenonT(60) DEF Ask, CommandType

\* The rows of a listing are the endpoints in use.
LEMMA RowsUsed ==
    /\ \A i : i \in IdsOf(Rows) <=> IsListed(i)
    /\ \A r \in Rows : r.endpoint \in Endpoints /\ Used(r.endpoint) /\ r = Row(r.endpoint)
    /\ \A e \in Endpoints : Used(e) => Row(e) \in Rows
    /\ \A e \in Endpoints : Row(e).id = table[e].id /\ Row(e).device = table[e].device /\ Row(e).endpoint = e
<1>1. \A e \in Endpoints : Row(e).id = table[e].id /\ Row(e).device = table[e].device /\ Row(e).endpoint = e BY DEF Row
<1>2. \A r \in Rows : r.endpoint \in Endpoints /\ Used(r.endpoint) /\ r = Row(r.endpoint) BY <1>1 DEF Rows, Used
<1>3. \A e \in Endpoints : Used(e) => Row(e) \in Rows BY DEF Rows, Used
<1>4. \A i : i \in IdsOf(Rows) <=> IsListed(i) BY <1>1, <1>2, <1>3 DEF IdsOf, IsListed
<1> QED BY <1>1, <1>2, <1>3, <1>4

\* There is no server, or it has just come.
LEMMA InitInv == Init => IInv
<1> SUFFICES ASSUME Init PROVE IInv OBVIOUS
<1> USE DEF Init
<1>1. NoMapping \in [id : 0 .. MaxIds, device : Devices \cup {None}] BY CommandsAssumption DEF NoMapping
<1>2. NoCommand \in CommandType /\ NoCommand.pc = "exited" /\ NoCommand.same = FALSE
  BY DEF NoCommand, Command, CommandType
<1>3. \A e \in Endpoints : ~Used(e) BY DEF Used, Empty
<1>4. Rows = {} BY <1>3 DEF Rows, Used
<1>5. TypeOK BY <1>1, <1>2, <1>4, NoRequestType, CommandsAssumption DEF TypeOK, Empty, RequestType
<1>6. Requests BY <1>2, NoRequestType DEF Requests
<1>7. OneListing BY <1>3, NoRequestType DEF OneListing, Publishing
<1>8. Tracking BY <1>2 DEF Tracking
<1> QED BY <1>5, <1>6, <1>7, <1>8 DEF IInv

\* The server goes, and every id with it.
LEMMA GoneInv == ASSUME IInv, Gone PROVE IInv'
<1> USE DEF Gone
<1>1. NoMapping \in [id : 0 .. MaxIds, device : Devices \cup {None}] BY CommandsAssumption DEF NoMapping
<1>c. client \in [Clients -> CommandType] BY DEF IInv, TypeOK
<1>d. \A c \in CommandType : [c EXCEPT !.same = FALSE] \in CommandType /\ [c EXCEPT !.same = FALSE].same = FALSE
  BY DEF CommandType
<1>2. client' \in [Clients -> CommandType] /\ \A p \in Clients : client'[p].same = FALSE
  BY <1>c, <1>d
<1>3. \A e \in Endpoints : ~Used(e)' BY DEF Used, Empty
<1>4. Rows' = {} BY <1>3 DEF Rows, Used
<1>5. TypeOK' BY <1>1, <1>2, <1>4, NoRequestType, CommandsAssumption DEF TypeOK, Empty, RequestType
<1>6. Requests' BY <1>2, NoRequestType DEF Requests
<1>7. OneListing' BY <1>3, NoRequestType DEF OneListing, Publishing
<1>8. Tracking' BY <1>2 DEF Tracking
<1> QED BY <1>5, <1>6, <1>7, <1>8 DEF IInv

\* What a step of shell p, or of its goroutine in the server, may do to its
\* command, its request and the registry without listing anything: mappings
\* may go, and ids that are reported as removed are.
LEMMA StepInv ==
    ASSUME IInv, NEW p \in Clients, NEW c \in CommandType, NEW j \in RequestType,
           job' = [job EXCEPT ![p] = j], client' = [client EXCEPT ![p] = c],
           up' = up, up \/ j = NoRequest, devices' \in SUBSET Devices, stuck' \in BOOLEAN,
           nextID' \in {nextID, nextID + 1}, nextID' \in 0 .. MaxIds,
           table' \in [Endpoints -> [id : 0 .. MaxIds, device : Devices \cup {None}]],
           \A e \in Endpoints : table'[e] \in {table[e], NoMapping},
           gone' \in SUBSET Ids, \A i \in gone' \ gone : Settled(i) /\ ~IsListed(i)',
           c.pc = "probe" => j = NoRequest,
           j.norebind => j.name = "create",
           j.step = "publish" => j = job[p] \/ (nextID' = nextID + 1 /\ j.id = nextID + 1),
           c.same =>
             /\ c.ask = "remove" /\ c.todo \subseteq c.ids
             /\ c.pc = "exited" => c.ids = {}
             /\ j # NoRequest => j.name = "remove" /\ j.id # 0
             /\ \A i \in c.ids \cup {j.id} : Settled(i) /\ For(c, i)
             /\ \A i \in c.ids \ (c.todo \cup {j.id}) : ~IsListed(i)'
    PROVE  IInv'
<1>t. /\ client \in [Clients -> CommandType] /\ job \in [Clients -> RequestType]
      /\ nextID \in Nat /\ MaxIds \in Nat /\ gone \in SUBSET Ids
  BY CommandsAssumption DEF IInv, TypeOK, Requests
<1>j. job'[p] = j /\ \A q \in Clients \ {p} : job'[q] = job[q] BY <1>t
<1>c. client'[p] = c /\ \A q \in Clients \ {p} : client'[q] = client[q] BY <1>t
<1>u. \A e \in Endpoints : Used(e)' => Used(e) /\ table'[e] = table[e] BY DEF Used
<1>l. \A i : IsListed(i)' => IsListed(i) BY <1>u DEF IsListed
<1>p. \A q \in Clients : Publishing(q)' => (Publishing(q) /\ job'[q] = job[q]) \/ (nextID' = nextID + 1 /\ job'[q].id = nextID + 1 /\ q = p)
  BY <1>j DEF Publishing
<1>s. \A i : Settled(i) => Settled(i)'
  <2> SUFFICES ASSUME NEW i, Settled(i) PROVE Settled(i)' OBVIOUS
  <2>1. i \in 0 .. nextID' BY <1>t DEF Settled
  <2>2. \A q \in Clients : Publishing(q)' => job'[q].id # i BY <1>p, <1>t DEF Settled
  <2> QED BY <2>1, <2>2 DEF Settled
<1>1. TypeOK'
  <2>1. ~up' => Rows' = {} /\ \A q \in Clients : job'[q] = NoRequest
    BY <1>j, <1>u DEF IInv, TypeOK, Rows, Used
  <2>2. client' \in [Clients -> CommandType] BY <1>t
  <2>3. \A q \in Clients : job'[q].step \in {"unsent", "handle", "setup", "publish", "stuck", "closing"}
    BY <1>j DEF IInv, TypeOK, RequestType
  <2> QED BY <2>1, <2>2, <2>3 DEF IInv, TypeOK
<1>2. Requests' BY <1>t, <1>j, <1>c DEF IInv, Requests
<1>3. OneListing'
  <2>1. \A e \in Endpoints : Used(e)' => table'[e].id \in 1 .. nextID' BY <1>u, <1>t DEF IInv, OneListing
  <2>2. \A e, f \in Endpoints : Used(e)' /\ Used(f)' /\ table'[e].id = table'[f].id => e = f
    BY <1>u DEF IInv, OneListing
  <2>3. ASSUME NEW q \in Clients, Publishing(q)'
        PROVE  /\ job'[q].id \in 1 .. nextID' /\ ~IsListed(job[q].id)'
               /\ \A r \in Clients \ {q} : Publishing(r)' => job'[r].id # job'[q].id
    <3>1. CASE Publishing(q) /\ job'[q] = job[q]
      <4>1. job'[q].id \in 1 .. nextID /\ ~IsListed(job[q].id) BY <3>1 DEF IInv, OneListing
      <4>2. ~(\E e \in Endpoints : Used(e)' /\ table'[e].id = job'[q].id) BY <3>1, <4>1, <1>u DEF IsListed
      <4>3. \A r \in Clients \ {q} : Publishing(r)' => job'[r].id # job'[q].id
        BY <3>1, <4>1, <1>p, <1>t DEF IInv, OneListing
      <4> QED BY <4>1, <4>2, <4>3, <1>t DEF IsListed
    <3>2. CASE nextID' = nextID + 1 /\ job'[q].id = nextID + 1 /\ q = p
      <4>1. \A e \in Endpoints : Used(e)' => table'[e].id \in 1 .. nextID BY <1>u DEF IInv, OneListing
      <4>2. ~(\E e \in Endpoints : Used(e)' /\ table'[e].id = job'[q].id) BY <3>2, <4>1, <1>t
      <4>3. \A r \in Clients \ {q} : Publishing(r)' => job'[r].id \in 1 .. nextID
        BY <3>2, <1>p DEF IInv, OneListing
      <4> QED BY <3>2, <4>2, <4>3, <1>t DEF IsListed
    <3> QED BY <2>3, <3>1, <3>2, <1>p
  <2>4. \A i \in gone' : Settled(i)' /\ ~IsListed(i)' BY <1>s, <1>l DEF IInv, OneListing
  <2> QED BY <2>1, <2>2, <2>3, <2>4 DEF OneListing
<1>4. Tracking'
  <2>1. \A k \in CommandType : \A i : For(k, i) => For(k, i)' BY <1>u DEF For
  <2>2. c.same => Tracks(client[p], job[p])'
    <3>1. SUFFICES ASSUME c.same PROVE Tracks(client[p], job[p])' OBVIOUS
    <3>2. \A i \in c.ids \cup {j.id} : Settled(i)' /\ For(c, i)' BY <3>1, <1>s, <2>1
    <3> QED BY <3>1, <3>2, <1>j, <1>c DEF Tracks, For, Settled, IsListed
  <2>3. ASSUME NEW q \in Clients \ {p}, client'[q].same PROVE Tracks(client[q], job[q])'
    <3>1. Tracks(client[q], job[q]) /\ client[q] \in CommandType BY <2>3, <1>c, <1>t DEF IInv, Tracking
    <3>2. client'[q] = client[q] /\ job'[q] = job[q] BY <1>c, <1>j
    <3>3. \A i \in client[q].ids \cup {job[q].id} : Settled(i)' /\ For(client[q], i)'
      BY <3>1, <3>2, <1>s, <2>1 DEF Tracks
    <3>4. \A i \in client[q].ids \ (client[q].todo \cup {job[q].id}) : ~IsListed(i)' BY <3>1, <1>l DEF Tracks
    <3> QED BY <3>1, <3>2, <3>3, <3>4 DEF Tracks, For, Settled, IsListed
  <2> QED BY <2>2, <2>3, <1>c DEF Tracking
<1> QED BY <1>1, <1>2, <1>3, <1>4 DEF IInv

-----------------------------------------------------------------------------
(* Steps of the server.                                                    *)

\* A request that is being served, of a command that tracks ids, is a removal by id.
LEMMA TrackedServed ==
    ASSUME IInv, NEW p \in Clients, client[p].same, job[p].step # "unsent"
    PROVE  /\ job[p].name = "remove" /\ job[p].id # 0 /\ client[p].ask = "remove"
           /\ job[p] # NoRequest /\ client[p].pc # "probe"
  BY NoRequestType DEF IInv, Tracking, Tracks, Requests

\* The registry is left alone and shell p gets command c and request j.
LEMMA PairInv ==
    ASSUME IInv, NEW p \in Clients, NEW c \in CommandType, NEW j \in RequestType,
           job' = [job EXCEPT ![p] = j], client' = [client EXCEPT ![p] = c], UNCHANGED serverVars,
           up \/ j = NoRequest,
           c.pc = "probe" => j = NoRequest, j.norebind => j.name = "create", j.step = "publish" => j = job[p],
           c.same => Tracks(c, j)
    PROVE  IInv'
<1>1. UNCHANGED <<up, devices, table, nextID, stuck, gone>> BY DEF serverVars, processVars, registryVars
<1>2. devices \in SUBSET Devices /\ stuck \in BOOLEAN /\ nextID \in 0 .. MaxIds /\ gone \in SUBSET Ids
      /\ table \in [Endpoints -> [id : 0 .. MaxIds, device : Devices \cup {None}]]
  BY DEF IInv, TypeOK
<1>3. c.same =>
             /\ c.ask = "remove" /\ c.todo \subseteq c.ids
             /\ c.pc = "exited" => c.ids = {}
             /\ j # NoRequest => j.name = "remove" /\ j.id # 0
             /\ \A i \in c.ids \cup {j.id} : Settled(i) /\ For(c, i)
             /\ \A i \in c.ids \ (c.todo \cup {j.id}) : ~IsListed(i)'
  BY <1>1 DEF Tracks, IsListed, Used
<1>4. \A i \in gone' \ gone : Settled(i) /\ ~IsListed(i)' BY <1>1
<1>5. up' = up /\ devices' \in SUBSET Devices /\ stuck' \in BOOLEAN /\ nextID' \in {nextID, nextID + 1} /\ nextID' \in 0 .. MaxIds
  BY <1>1, <1>2
<1>6. /\ table' \in [Endpoints -> [id : 0 .. MaxIds, device : Devices \cup {None}]]
      /\ gone' \in SUBSET Ids /\ \A e \in Endpoints : table'[e] \in {table[e], NoMapping}
  BY <1>1, <1>2
<1> QED BY <1>3, <1>4, <1>5, <1>6, StepInv

\* An answer that leaves the registry alone.
LEMMA AnswerInv ==
    ASSUME IInv, NEW p \in Clients, NEW commands, Answer(p, commands), UNCHANGED serverVars, job[p].step # "unsent",
           \A c \in commands : c \in CommandType /\ (c.same => Tracks(c, NoRequest))
    PROVE  IInv'
<1>t. client \in [Clients -> CommandType] BY DEF IInv, TypeOK
<1>1. job' = [job EXCEPT ![p] = NoRequest] BY DEF Answer
<1>2. CASE client[p].pc = "await"
  <2>1. PICK c \in commands : client' = [client EXCEPT ![p] = c] BY <1>2 DEF Answer, Set
  <2> QED BY <1>1, <2>1, PairInv, NoRequestType
<1>3. CASE client[p].pc # "await"
  <2>1. client' = [client EXCEPT ![p] = client[p]] BY <1>3, <1>t DEF Answer
  <2>2. client[p].pc = "exited"
    BY <1>3, <1>t, NoRequestType DEF IInv, Requests, CommandType
  <2>3. client[p].same => Tracks(client[p], NoRequest)
    <3>1. SUFFICES ASSUME client[p].same PROVE Tracks(client[p], NoRequest) OBVIOUS
    <3>2. Tracks(client[p], job[p]) BY <3>1 DEF IInv, Tracking
    <3>3. Settled(0) /\ For(client[p], 0)
      BY CommandsAssumption DEF IInv, TypeOK, OneListing, Settled, For
    <3> QED BY <3>2, <3>3, <2>2, NoRequestType DEF Tracks
  <2> QED BY <1>1, <1>t, <2>1, <2>2, <2>3, PairInv, NoRequestType
<1> QED BY <1>2, <1>3

\* A command that has ended needs nothing of the registry.
LEMMA EndedAnswer ==
    \A code \in {0, 1, 2} : \A c \in {Ended(code)} : c \in CommandType /\ (c.same => Tracks(c, NoRequest))
  BY EndedType

\* Without a listing nothing is tracked.
LEMMA DevicesAnswer ==
    ASSUME NEW c \in CommandType, ~c.same, NEW targets, NEW offline
    PROVE  \A k \in AfterDevices(c, targets, offline) : k \in CommandType /\ ~k.same
<1>1. \A d \in Devices : /\ [c EXCEPT !.device = d, !.selector = "any"] \in CommandType
                         /\ [c EXCEPT !.device = d, !.selector = "any"].same = c.same
  BY DEF CommandType
<1>2. Usable(targets, offline) => targets \subseteq Devices BY DEF Usable
<1>u. \A k \in USBFailure(c) : k \in CommandType /\ ~k.same BY EndedType DEF USBFailure
<1>3. CASE c.verb \in {"devices", "get_state", "list"} \/ ~Usable(targets, offline)
  <2>1. \E code \in {0, 1} : AfterDevices(c, targets, offline) = USBFailure(c) \cup {Ended(code)} BY <1>3 DEF AfterDevices
  <2> QED BY <1>u, <2>1, EndedType
<1>4. CASE c.verb \notin {"devices", "get_state", "list"} /\ Usable(targets, offline)
  <2>1. AfterDevices(c, targets, offline) = USBFailure(c) \cup
          {Ask([c EXCEPT !.device = d, !.selector = "any"], IF c.verb = "create" THEN "create" ELSE "list") : d \in targets}
    BY <1>4 DEF AfterDevices
  <2>2. ASSUME NEW d \in targets, NEW name \in {"create", "list"}
        PROVE  /\ Ask([c EXCEPT !.device = d, !.selector = "any"], name) \in CommandType
               /\ ~Ask([c EXCEPT !.device = d, !.selector = "any"], name).same
    <3>1. d \in Devices BY <1>2, <1>4
    <3> DEFINE k == [c EXCEPT !.device = d, !.selector = "any"]
    <3>2. k \in CommandType /\ k.same = c.same BY <1>1, <3>1
    <3> HIDE DEF k
    <3>3. Ask(k, name) \in CommandType /\ Ask(k, name).same = k.same BY <3>2, AskType
    <3> QED BY <3>2, <3>3 DEF k
  <2>3. (IF c.verb = "create" THEN "create" ELSE "list") \in {"create", "list"} OBVIOUS
  <2> QED BY <1>u, <2>1, <2>2, <2>3
<1> QED BY <1>3, <1>4

\* What the listing shows is what a removal tracks from then on.
LEMMA ListAnswer ==
    ASSUME IInv, NEW c \in CommandType, ~c.same
    PROVE  \A k \in AfterList(c) : k \in CommandType /\ (k.same => Tracks(k, NoRequest))
<1>1. CASE c.verb = "list"
  <2>1. AfterList(c) = {IF c.selector = "any" THEN Ended(0) ELSE Ask(c, "device_list")} BY <1>1 DEF AfterList
  <2>2. Ended(0) \in CommandType /\ ~Ended(0).same BY EndedType
  <2>3. Ask(c, "device_list") \in CommandType /\ ~Ask(c, "device_list").same BY AskType
  <2> QED BY <2>1, <2>2, <2>3
<1>2. CASE c.verb # "list" /\ Chosen(c) = {}
  <2>1. AfterList(c) \subseteq {Ended(0), Ended(1)} BY <1>2 DEF AfterList
  <2> QED BY <2>1, EndedType
<1>3. CASE c.verb # "list" /\ Chosen(c) # {}
  <2> DEFINE l == [c EXCEPT !.todo = Chosen(c), !.ids = Chosen(c), !.same = TRUE]
             k == Ask(l, "remove")
  <2>1. AfterList(c) = {k} BY <1>3 DEF AfterList
  <2>2. \A i \in Chosen(c) : \E e \in Endpoints : Used(e) /\ table[e].id = i /\ table[e].device = c.device
                                                /\ (c.verb = "remove" => e = c.endpoint)
    BY RowsUsed DEF Chosen, IdsOf
  <2>3. \A i \in Chosen(c) : i \in 1 .. nextID /\ Settled(i) /\ For(c, i)
    <3> SUFFICES ASSUME NEW i \in Chosen(c) PROVE i \in 1 .. nextID /\ Settled(i) /\ For(c, i) OBVIOUS
    <3>1. PICK e \in Endpoints : Used(e) /\ table[e].id = i /\ table[e].device = c.device
                                 /\ (c.verb = "remove" => e = c.endpoint) BY <2>2
    <3>2. i \in 1 .. nextID BY <3>1 DEF IInv, OneListing
    <3>3. Settled(i) BY <3>1, <3>2 DEF IInv, OneListing, Settled, IsListed
    <3>4. For(c, i) BY <3>1 DEF IInv, OneListing, For
    <3> QED BY <3>2, <3>3, <3>4
  <2>4. Chosen(c) \in SUBSET Ids BY <2>3, CommandsAssumption DEF Ids, IInv, TypeOK
  <2>5. /\ l \in CommandType /\ l.todo = Chosen(c) /\ l.ids = Chosen(c) /\ l.same = TRUE
        /\ l.device = c.device /\ l.verb = c.verb /\ l.endpoint = c.endpoint
    BY <2>4 DEF CommandType
  <2> HIDE DEF l
  <2>6. /\ k \in CommandType /\ k.pc = "probe" /\ k.ask = "remove" /\ k.todo = Chosen(c) /\ k.ids = Chosen(c)
        /\ k.device = c.device /\ k.verb = c.verb /\ k.endpoint = c.endpoint
    BY <2>5, AskType
  <2> HIDE DEF k
  <2>7. \A i : For(c, i) => For(k, i) BY <2>6 DEF For
  <2>8. Settled(0) /\ For(k, 0) BY CommandsAssumption DEF IInv, TypeOK, OneListing, Settled, For
  <2>9. Tracks(k, NoRequest) BY <2>3, <2>6, <2>7, <2>8, NoRequestType DEF Tracks
  <2> QED BY <2>1, <2>6, <2>9
<1> QED BY <1>1, <1>2, <1>3

\* Requests that only read.
LEMMA ReadInv ==
    ASSUME IInv, NEW p \in Clients,
           \/ handlePing(p) \/ handleStatus(p) \/ handleDeviceList(p) \/ handleList(p)
           \/ validateForwardCreateParams(p) \/ validateReverseCreateParams(p)
    PROVE  IInv'
<1>t. client[p] \in CommandType BY DEF IInv, TypeOK
<1>1. UNCHANGED serverVars /\ job[p].step # "unsent" /\ job[p].name # "remove"
  BY DEF handlePing, handleStatus, handleDeviceList, handleList, validateForwardCreateParams, validateReverseCreateParams, At
<1>2. ~client[p].same BY <1>1, TrackedServed
<1>3. \/ Answer(p, {Ended(0)}) \/ Answer(p, {Ended(1)})
      \/ \E targets, offline : Answer(p, AfterDevices(client[p], targets, offline))
      \/ Answer(p, AfterList(client[p]))
  BY DEF handlePing, handleStatus, handleDeviceList, handleList, validateForwardCreateParams, validateReverseCreateParams, Refuse
<1>4. CASE Answer(p, {Ended(0)}) \/ Answer(p, {Ended(1)}) BY <1>1, <1>4, EndedAnswer, AnswerInv
<1>5. CASE \E targets, offline : Answer(p, AfterDevices(client[p], targets, offline))
  BY <1>t, <1>1, <1>2, <1>5, DevicesAnswer, AnswerInv
<1>6. CASE Answer(p, AfterList(client[p])) BY <1>t, <1>1, <1>2, <1>6, ListAnswer, AnswerInv
<1> QED BY <1>3, <1>4, <1>5, <1>6

\* Rows that are removed leave their endpoints free and the others alone.
LEMMA WithoutRows ==
    ASSUME TypeOK, NEW rows \in SUBSET Rows
    PROVE  /\ Without(rows) \in [Endpoints -> [id : 0 .. MaxIds, device : Devices \cup {None}]]
           /\ \A e \in Endpoints : Without(rows)[e] \in {table[e], NoMapping}
           /\ \A e \in Endpoints : Row(e) \in rows => Without(rows)[e] = NoMapping
           /\ \A e \in Endpoints : Without(rows)[e] # table[e] => Row(e) \in rows
<1>1. NoMapping \in [id : 0 .. MaxIds, device : Devices \cup {None}] BY CommandsAssumption DEF NoMapping
<1>2. \A e \in Endpoints : Without(rows)[e] = IF \E r \in rows : r.endpoint = e THEN NoMapping ELSE table[e] BY DEF Without
<1>3. \A e \in Endpoints : (\E r \in rows : r.endpoint = e) <=> Row(e) \in rows BY RowsUsed
<1>4. table \in [Endpoints -> [id : 0 .. MaxIds, device : Devices \cup {None}]] BY DEF TypeOK
<1>5. Without(rows) \in [Endpoints -> [id : 0 .. MaxIds, device : Devices \cup {None}]] BY <1>1, <1>4 DEF Without
<1> QED BY <1>2, <1>3, <1>5

\* A request goes on to another of its steps, with some rows removed.
LEMMA LabelInv ==
    ASSUME IInv, NEW p \in Clients, NEW label \in {"setup", "stuck", "closing"}, NEW rows \in SUBSET Rows,
           up, job[p].step # "unsent", Step(p, label), table' = Without(rows), stuck' \in BOOLEAN,
           UNCHANGED <<processVars, devices, nextID, gone>>
    PROVE  IInv'
<1> DEFINE j == [job[p] EXCEPT !.step = label]
<1>t. /\ client \in [Clients -> CommandType] /\ job \in [Clients -> RequestType]
      /\ devices \in SUBSET Devices /\ gone \in SUBSET Ids /\ nextID \in 0 .. MaxIds
  BY DEF IInv, TypeOK, Requests
<1>1. job' = [job EXCEPT ![p] = j] /\ client' = [client EXCEPT ![p] = client[p]] BY <1>t DEF Step
<1>2. /\ j \in RequestType /\ j.step = label /\ j.id = job[p].id /\ j.name = job[p].name /\ j.norebind = job[p].norebind
  BY <1>t DEF RequestType
<1> HIDE DEF j
<1>3. UNCHANGED <<up, devices, nextID, gone>> BY DEF processVars
<1>4. /\ table' \in [Endpoints -> [id : 0 .. MaxIds, device : Devices \cup {None}]]
      /\ \A e \in Endpoints : table'[e] \in {table[e], NoMapping}
  BY WithoutRows DEF IInv
<1>5. job[p] # NoRequest /\ client[p].pc # "probe" BY NoRequestType DEF IInv, Requests
<1>6. j.norebind => j.name = "create" BY <1>2 DEF IInv, Requests
<1>7. \A i : IsListed(i)' => IsListed(i) BY <1>4 DEF IsListed, Used
<1>8. client[p].same =>
             /\ client[p].ask = "remove" /\ client[p].todo \subseteq client[p].ids
             /\ client[p].pc = "exited" => client[p].ids = {}
             /\ j # NoRequest => j.name = "remove" /\ j.id # 0
             /\ \A i \in client[p].ids \cup {j.id} : Settled(i) /\ For(client[p], i)
             /\ \A i \in client[p].ids \ (client[p].todo \cup {j.id}) : ~IsListed(i)'
  BY <1>2, <1>5, <1>7 DEF IInv, Tracking, Tracks
<1>9. devices' \in SUBSET Devices /\ nextID' \in {nextID, nextID + 1} /\ nextID' \in 0 .. MaxIds /\ gone' \in SUBSET Ids
  BY <1>3, <1>t
<1>10. client[p] \in CommandType /\ up' = up /\ j.step # "publish" /\ gone' \ gone = {} BY <1>t, <1>2, <1>3
<1> QED BY <1>1, <1>2, <1>4, <1>5, <1>6, <1>8, <1>9, <1>10, StepInv

\* A removal that never returns.
LEMMA StuckInv ==
    ASSUME IInv, NEW p \in Clients, NEW rows \in SUBSET Rows, NeverReturns(p, rows), up, job[p].step # "unsent",
           UNCHANGED <<processVars, devices, nextID, gone>>
    PROVE  IInv'
<1>1. PICK some \in (SUBSET rows) \ {{}} : table' = Without(some) BY DEF NeverReturns
<1>2. stuck' \in BOOLEAN /\ Step(p, "stuck") BY DEF NeverReturns
<1>3. some \in SUBSET Rows OBVIOUS
<1> QED BY <1>1, <1>2, <1>3, LabelInv

\* The server is asked to shut down.
LEMMA ShutdownInv == ASSUME IInv, NEW p \in Clients, handleShutdown(p) PROVE IInv'
<1> DEFINE j == [job[p] EXCEPT !.step = "closing"]
<1>t. client \in [Clients -> CommandType] /\ job \in [Clients -> RequestType] BY DEF IInv, TypeOK, Requests
<1>1. job' = [job EXCEPT ![p] = j] /\ up /\ job[p].step = "handle" /\ job[p].name = "shutdown" /\ UNCHANGED serverVars
  BY DEF handleShutdown, At
<1>2. j \in RequestType /\ j.step = "closing" /\ j.norebind = job[p].norebind /\ j.name = job[p].name
  BY <1>t DEF RequestType
<1> HIDE DEF j
<1>3. ~client[p].same BY <1>1, TrackedServed
<1>4. client[p].pc # "probe" BY <1>1, NoRequestType DEF IInv, Requests
<1>5. j.norebind => j.name = "create" BY <1>2 DEF IInv, Requests
<1>6. PICK c \in CommandType : client' = [client EXCEPT ![p] = c] /\ ~c.same /\ c.pc # "probe"
  <2>1. CASE client[p].pc = "await" BY <2>1, EndedType DEF handleShutdown, Set
  <2>2. CASE client[p].pc # "await"
    <3>1. client' = [client EXCEPT ![p] = client[p]] BY <2>2, <1>t DEF handleShutdown
    <3> QED BY <3>1, <1>t, <1>3, <1>4
  <2> QED BY <2>1, <2>2
<1> QED BY <1>1, <1>2, <1>5, <1>6, PairInv

\* Removing all that is left, or the next mapping.
LEMMA RemoveAnswer ==
    ASSUME NEW c \in CommandType
    PROVE  /\ c.todo # {} => AfterRemove(c) = {Ask(c, "remove")} /\ AfterRemove(c) # {Ended(0)}
           /\ c.todo = {} => AfterRemove(c) = {Ended(0)}
<1>1. Ask(c, "remove").pc = "probe" /\ Ended(0).pc = "exited" BY AskType, EndedType
<1>2. Ask(c, "remove") # Ended(0) BY <1>1
<1> QED BY <1>2 DEF AfterRemove

\* A removal that succeeds: the mapping is gone for good, and so are those that
\* the same command removed before.
LEMMA RemovedInv ==
    ASSUME IInv, NEW p \in Clients, At(p, "handle", "remove"), Answer(p, AfterRemove(client[p])),
           table' = Without(Named(p)), gone' = gone \cup Reported(p, IdsOf(Named(p))),
           UNCHANGED <<processVars, devices, nextID, stuck>>
    PROVE  IInv'
<1> DEFINE c == client[p]
<1>t. /\ client \in [Clients -> CommandType] /\ c \in CommandType /\ job \in [Clients -> RequestType]
      /\ devices \in SUBSET Devices /\ gone \in SUBSET Ids /\ nextID \in 0 .. MaxIds /\ stuck \in BOOLEAN
  BY DEF IInv, TypeOK, Requests
<1>0. job' = [job EXCEPT ![p] = NoRequest] /\ up /\ job[p].step = "handle" /\ UNCHANGED <<up, devices, nextID, stuck>>
  BY DEF Answer, At, processVars
<1>n. Named(p) \in SUBSET Rows BY DEF Named
<1>w. /\ table' \in [Endpoints -> [id : 0 .. MaxIds, device : Devices \cup {None}]]
      /\ \A e \in Endpoints : table'[e] \in {table[e], NoMapping}
      /\ \A e \in Endpoints : Row(e) \in Named(p) => table'[e] = NoMapping
  BY <1>n, WithoutRows DEF IInv
<1>u. \A e \in Endpoints : Used(e)' => Used(e) /\ table'[e] = table[e] BY <1>w DEF Used
<1>l. \A i : IsListed(i)' => IsListed(i) BY <1>u DEF IsListed
<1>s. Settled(0) /\ For(c, 0) BY CommandsAssumption DEF IInv, TypeOK, OneListing, Settled, For
<1>1. \A i \in IdsOf(Named(p)) : i \in 1 .. nextID /\ Settled(i) /\ ~IsListed(i)'
  <2> SUFFICES ASSUME NEW i \in IdsOf(Named(p)) PROVE i \in 1 .. nextID /\ Settled(i) /\ ~IsListed(i)' OBVIOUS
  <2>1. PICK f \in Endpoints : Used(f) /\ table[f].id = i /\ Row(f) \in Named(p) BY <1>n, RowsUsed DEF IdsOf
  <2>2. i \in 1 .. nextID BY <2>1 DEF IInv, OneListing
  <2>3. Settled(i) BY <2>1, <2>2 DEF IInv, OneListing, Settled, IsListed
  <2>4. ~Used(f)' BY <2>1, <1>w DEF Used
  <2>5. \A e \in Endpoints : Used(e)' /\ table'[e].id = i => e = f BY <2>1, <1>u DEF IInv, OneListing
  <2> QED BY <2>2, <2>3, <2>4, <2>5 DEF IsListed
<1>2. c.same =>
        /\ c.ask = "remove" /\ c.todo \subseteq c.ids /\ (c.pc = "exited" => c.ids = {})
        /\ \A i \in c.ids : Settled(i) /\ For(c, i)
        /\ \A i \in c.ids \ c.todo : ~IsListed(i)'
  <2> SUFFICES ASSUME c.same
               PROVE  /\ c.ask = "remove" /\ c.todo \subseteq c.ids /\ (c.pc = "exited" => c.ids = {})
                      /\ \A i \in c.ids : Settled(i) /\ For(c, i)
                      /\ \A i \in c.ids \ c.todo : ~IsListed(i)'
    OBVIOUS
  <2>1. Tracks(c, job[p]) /\ job[p].id # 0 BY <1>0, TrackedServed DEF IInv, Tracking
  <2>2. \A e \in Endpoints : Used(e) /\ table[e].id = job[p].id => Row(e) \in Named(p) BY <2>1, RowsUsed DEF Named
  <2>3. \A i : i = job[p].id => ~IsListed(i)' BY <2>2, <1>w, <1>u DEF IsListed, Used
  <2> QED BY <2>1, <2>3, <1>l DEF Tracks
<1>3. \A i \in gone' \ gone : i \in Ids /\ Settled(i) /\ ~IsListed(i)'
  <2>1. CASE c.pc = "await" /\ c.tool = "custom"
    <3>1. Reported(p, IdsOf(Named(p))) = IdsOf(Named(p)) BY <2>1 DEF Reported
    <3> QED BY <3>1, <1>1, <1>t, CommandsAssumption DEF Ids
  <2>2. CASE c.pc = "await" /\ c.tool # "custom" /\ c.same /\ AfterRemove(c) = {Ended(0)}
    <3>1. Reported(p, IdsOf(Named(p))) = c.ids BY <2>2 DEF Reported
    <3>2. c.todo = {} /\ c.ids \subseteq Ids BY <2>2, <1>t, RemoveAnswer DEF CommandType
    <3> QED BY <2>2, <3>1, <3>2, <1>2
  <2>3. CASE ~(c.pc = "await" /\ c.tool = "custom") /\ ~(c.pc = "await" /\ c.tool # "custom" /\ c.same /\ AfterRemove(c) = {Ended(0)})
    <3>1. Reported(p, IdsOf(Named(p))) = {} BY <2>3 DEF Reported
    <3> QED BY <3>1
  <2> QED BY <2>1, <2>2, <2>3
<1>4. gone' \in SUBSET Ids BY <1>3, <1>t
<1>5. PICK k \in CommandType :
        /\ client' = [client EXCEPT ![p] = k]
        /\ k.same => /\ k.ask = "remove" /\ k.todo \subseteq k.ids
                     /\ k.pc = "exited" => k.ids = {}
                     /\ \A i \in k.ids \cup {0} : Settled(i) /\ For(k, i)
                     /\ \A i \in k.ids \ (k.todo \cup {0}) : ~IsListed(i)'
  <2>1. CASE c.pc = "await" /\ c.todo = {}
    <3>1. client' = [client EXCEPT ![p] = Ended(0)] BY <2>1, <1>t, RemoveAnswer DEF Answer, Set
    <3> QED BY <3>1, EndedType
  <2>2. CASE c.pc = "await" /\ c.todo # {}
    <3> DEFINE k == Ask(c, "remove")
    <3>1. client' = [client EXCEPT ![p] = k] BY <2>2, <1>t, RemoveAnswer DEF Answer, Set
    <3>2. /\ k \in CommandType /\ k.pc = "probe" /\ k.ask = "remove" /\ k.same = c.same /\ k.ids = c.ids /\ k.todo = c.todo
          /\ k.device = c.device /\ k.verb = c.verb /\ k.endpoint = c.endpoint
      BY <1>t, AskType
    <3> HIDE DEF k
    <3>3. \A i : For(c, i) => For(k, i) BY <3>2 DEF For
    <3> QED BY <3>1, <3>2, <3>3, <1>2, <1>s
  <2>3. CASE c.pc # "await"
    <3>1. client' = [client EXCEPT ![p] = c] BY <2>3, <1>t DEF Answer
    <3>2. c.pc = "exited" BY <2>3, <1>0, <1>t, NoRequestType DEF IInv, Requests, CommandType
    <3> QED BY <3>1, <3>2, <1>2, <1>s, <1>t
  <2> QED BY <2>1, <2>2, <2>3
<1>6. /\ NoRequest \in RequestType /\ NoRequest.norebind = FALSE /\ NoRequest.step # "publish" /\ NoRequest.id = 0
  BY NoRequestType
<1>7. /\ up' = up /\ devices' \in SUBSET Devices /\ stuck' \in BOOLEAN
      /\ nextID' \in {nextID, nextID + 1} /\ nextID' \in 0 .. MaxIds
  BY <1>0, <1>t
<1> HIDE DEF c
<1> QED BY <1>0, <1>w, <1>3, <1>4, <1>5, <1>6, <1>7, StepInv

\* An answer that ends a command which tracks nothing: rows may have been removed
\* and an id taken.
LEMMA EndedInv ==
    ASSUME IInv, NEW p \in Clients, NEW code \in {0, 1}, NEW rows \in SUBSET Rows, Answer(p, {Ended(code)}),
           up, job[p].step # "unsent", ~client[p].same, table' = Without(rows),
           UNCHANGED <<processVars, devices, stuck>>, nextID' \in {nextID, nextID + 1}, nextID' \in 0 .. MaxIds,
           gone' \in SUBSET Ids, \A i \in gone' \ gone : Settled(i) /\ ~IsListed(i)'
    PROVE  IInv'
<1>t. /\ client \in [Clients -> CommandType] /\ devices \in SUBSET Devices /\ stuck \in BOOLEAN BY DEF IInv, TypeOK
<1>0. job' = [job EXCEPT ![p] = NoRequest] /\ UNCHANGED <<up, devices, stuck>> BY DEF Answer, processVars
<1>w. /\ table' \in [Endpoints -> [id : 0 .. MaxIds, device : Devices \cup {None}]]
      /\ \A e \in Endpoints : table'[e] \in {table[e], NoMapping}
  BY WithoutRows DEF IInv
<1>1. PICK c \in CommandType : client' = [client EXCEPT ![p] = c] /\ ~c.same
  <2>1. CASE client[p].pc = "await" BY <2>1, EndedType DEF Answer, Set
  <2>2. CASE client[p].pc # "await"
    <3>1. client' = [client EXCEPT ![p] = client[p]] BY <2>2, <1>t DEF Answer
    <3> QED BY <3>1, <1>t
  <2> QED BY <2>1, <2>2
<1>2. NoRequest \in RequestType /\ NoRequest.norebind = FALSE /\ NoRequest.step # "publish" BY NoRequestType
<1>3. up' = up /\ devices' \in SUBSET Devices /\ stuck' \in BOOLEAN BY <1>0, <1>t
<1> QED BY <1>0, <1>w, <1>1, <1>2, <1>3, StepInv

\* Without the rows of none the table is what it was.
LEMMA WithoutNone == ASSUME TypeOK PROVE Without({}) = table /\ {} \in SUBSET Rows
  BY DEF Without, TypeOK

\* Requests that remove.
LEMMA RemoveInv == ASSUME IInv, NEW p \in Clients, handleRemove(p) \/ handleRemoveAll(p) PROVE IInv'
<1>t. /\ gone \in SUBSET Ids /\ nextID \in 0 .. MaxIds /\ TypeOK BY DEF IInv, TypeOK
<1>1. CASE handleRemove(p)
  <2>0. At(p, "handle", "remove") /\ up /\ job[p].step # "unsent" /\ UNCHANGED <<processVars, devices, nextID>>
    BY <1>1 DEF handleRemove, At
  <2>1. CASE Named(p) = {} /\ Refuse(p) /\ UNCHANGED <<table, stuck, gone>>
    <3>1. UNCHANGED serverVars BY <2>0, <2>1 DEF serverVars, registryVars
    <3> QED BY <2>0, <2>1, <3>1, EndedAnswer, AnswerInv DEF Refuse
  <2>2. CASE /\ Named(p) # {} /\ Answer(p, AfterRemove(client[p]))
             /\ table' = Without(Named(p)) /\ gone' = gone \cup Reported(p, IdsOf(Named(p))) /\ UNCHANGED stuck
    BY <2>0, <2>2, RemovedInv
  <2>3. CASE NeverReturns(p, Named(p)) /\ UNCHANGED gone
    <3>1. Named(p) \in SUBSET Rows BY DEF Named
    <3> QED BY <2>0, <2>3, <3>1, StuckInv
  <2> QED BY <1>1, <2>1, <2>2, <2>3 DEF handleRemove
<1>2. CASE handleRemoveAll(p)
  <2>0. up /\ job[p].step # "unsent" /\ job[p].name = "remove_all" /\ UNCHANGED <<processVars, devices, nextID>>
    BY <1>2 DEF handleRemoveAll, At
  <2>1. ~client[p].same BY <2>0, TrackedServed
  <2>2. CASE Answer(p, {Ended(0)}) /\ table' = Empty /\ gone' = gone \cup Reported(p, IdsOf(Rows)) /\ UNCHANGED stuck
    <3>1. Without(Rows) = Empty
      <4>1. \A e \in Endpoints : ~Used(e) => table[e] = NoMapping BY DEF Used
      <4>2. \A e \in Endpoints : Used(e) => \E r \in Rows : r.endpoint = e BY RowsUsed
      <4> QED BY <4>1, <4>2 DEF Without, Empty
    <3>2. \A i : ~IsListed(i)' BY <2>2 DEF IsListed, Used, Empty
    <3>3. Reported(p, IdsOf(Rows)) \subseteq IdsOf(Rows) BY <2>1 DEF Reported
    <3>4. \A i \in gone' \ gone : IsListed(i) BY <2>2, <3>3, RowsUsed
    <3>5. \A i \in gone' \ gone : i \in 1 .. nextID /\ Settled(i)
      BY <3>4 DEF IInv, OneListing, Settled, IsListed
    <3>6. gone' \in SUBSET Ids
      <4>1. \A i \in 1 .. nextID : i \in Ids BY <1>t, CommandsAssumption DEF Ids
      <4> QED BY <3>5, <4>1, <1>t
    <3>7. Rows \in SUBSET Rows /\ nextID' \in {nextID, nextID + 1} /\ nextID' \in 0 .. MaxIds BY <2>0, <1>t
    <3> QED BY <2>0, <2>1, <2>2, <3>1, <3>2, <3>5, <3>6, <3>7, EndedInv
  <2>3. CASE NeverReturns(p, Rows) /\ UNCHANGED gone BY <2>0, <2>3, StuckInv
  <2> QED BY <1>2, <2>2, <2>3 DEF handleRemoveAll
<1> QED BY <1>1, <1>2

\* A create lists its id: nobody else has it and nobody has reported it.
LEMMA ListingInv ==
    ASSUME IInv, NEW p \in Clients, At(p, "publish", "create"), Answer(p, {Ended(0)}), table' = Listing(p),
           UNCHANGED <<processVars, devices, nextID, stuck, gone>>
    PROVE  IInv'
<1> DEFINE n == job[p].id
<1>t. /\ client \in [Clients -> CommandType] /\ job \in [Clients -> RequestType] /\ nextID \in Nat
      /\ table \in [Endpoints -> [id : 0 .. MaxIds, device : Devices \cup {None}]]
  BY CommandsAssumption DEF IInv, TypeOK, Requests
<1>0. job' = [job EXCEPT ![p] = NoRequest] /\ up /\ UNCHANGED <<up, devices, nextID, stuck, gone>>
      /\ job[p].step = "publish" /\ job[p].name = "create"
  BY DEF Answer, At, processVars
<1>s. ~client[p].same BY <1>0, TrackedServed
<1>j. job'[p] = NoRequest /\ \A q \in Clients \ {p} : job'[q] = job[q] BY <1>0, <1>t
<1>c. client' \in [Clients -> CommandType] /\ ~client'[p].same /\ client'[p].pc # "probe"
      /\ \A q \in Clients \ {p} : client'[q] = client[q]
  <2>1. CASE client[p].pc = "await" BY <2>1, <1>t, EndedType DEF Answer, Set
  <2>2. CASE client[p].pc # "await"
    <3>1. client[p].pc # "probe" BY <1>0, NoRequestType DEF IInv, Requests
    <3> QED BY <2>2, <3>1, <1>t, <1>s DEF Answer
  <2> QED BY <2>1, <2>2
<1>n. /\ n \in 1 .. nextID /\ n \in 0 .. MaxIds /\ ~IsListed(n)
      /\ \A q \in Clients \ {p} : Publishing(q) => job[q].id # n
      /\ \A i : Settled(i) => i # n
  BY <1>0, <1>t DEF IInv, OneListing, Publishing, RequestType, Settled
<1>m. [id |-> n, device |-> job[p].device] \in [id : 0 .. MaxIds, device : Devices \cup {None}]
  BY <1>n, <1>t DEF RequestType
<1>1. table' \in [Endpoints -> [id : 0 .. MaxIds, device : Devices \cup {None}]]
  BY <1>m, <1>t DEF Listing
<1>e. \A e \in Endpoints : table'[e] = table[e] \/ (e = job[p].endpoint /\ table'[e].id = n) BY <1>t DEF Listing
<1>u. \A e \in Endpoints : Used(e)' => (Used(e) /\ table'[e] = table[e]) \/ (e = job[p].endpoint /\ table'[e].id = n)
  BY <1>e DEF Used
<1>l. \A i : IsListed(i)' => IsListed(i) \/ i = n BY <1>u DEF IsListed
<1>p. \A q \in Clients : Publishing(q)' => Publishing(q) /\ q # p /\ job'[q] = job[q]
  BY <1>j, NoRequestType DEF Publishing
<1>r. \A i : Settled(i) => Settled(i)' BY <1>0, <1>p DEF Settled
<1>2. TypeOK'
  <2>1. \A q \in Clients : job'[q].step \in {"unsent", "handle", "setup", "publish", "stuck", "closing"}
    BY <1>j, NoRequestType DEF IInv, TypeOK
  <2> QED BY <1>0, <1>1, <1>c, <2>1 DEF IInv, TypeOK
<1>3. Requests' BY <1>j, <1>c, <1>t, <1>0, NoRequestType DEF IInv, Requests
<1>4. OneListing'
  <2>1. \A e \in Endpoints : Used(e)' => table'[e].id \in 1 .. nextID' BY <1>u, <1>n, <1>0 DEF IInv, OneListing
  <2>2. \A e, f \in Endpoints : Used(e)' /\ Used(f)' /\ table'[e].id = table'[f].id => e = f
    BY <1>u, <1>n DEF IInv, OneListing, IsListed
  <2>3. ASSUME NEW q \in Clients, Publishing(q)'
        PROVE  /\ job'[q].id \in 1 .. nextID' /\ ~IsListed(job[q].id)'
               /\ \A r \in Clients \ {q} : Publishing(r)' => job'[r].id # job'[q].id
    <3>1. Publishing(q) /\ q # p /\ job'[q] = job[q] BY <2>3, <1>p
    <3>2. job[q].id \in 1 .. nextID /\ ~IsListed(job[q].id) /\ job[q].id # n BY <3>1, <1>n DEF IInv, OneListing
    <3>3. \A i : i = job[q].id => ~IsListed(i)' BY <3>2, <1>l
    <3>4. \A r \in Clients \ {q} : Publishing(r)' => job'[r].id # job'[q].id BY <3>1, <1>p DEF IInv, OneListing
    <3> QED BY <3>1, <3>2, <3>3, <3>4, <1>0 DEF IsListed
  <2>4. \A i \in gone' : Settled(i)' /\ ~IsListed(i)' BY <1>r, <1>l, <1>n, <1>0 DEF IInv, OneListing
  <2> QED BY <2>1, <2>2, <2>3, <2>4 DEF OneListing
<1>5. Tracking'
  <2>1. ASSUME NEW q \in Clients, client'[q].same PROVE Tracks(client[q], job[q])'
    <3>1. q # p /\ client'[q] = client[q] /\ job'[q] = job[q] BY <2>1, <1>c, <1>j
    <3>2. Tracks(client[q], job[q]) BY <2>1, <3>1 DEF IInv, Tracking
    <3>3. \A i \in client[q].ids \cup {job[q].id} : i # n /\ Settled(i)' BY <3>2, <1>n, <1>r DEF Tracks
    <3>4. \A i \in client[q].ids \cup {job[q].id}, e \in Endpoints :
            Used(e)' /\ table'[e].id = i =>
              table'[e].device = client[q].device /\ (client[q].verb = "remove" => e = client[q].endpoint)
      BY <3>2, <3>3, <1>u DEF Tracks, For
    <3>5. \A i \in client[q].ids \ (client[q].todo \cup {job[q].id}) : ~IsListed(i)' BY <3>2, <3>3, <1>l DEF Tracks
    <3> QED BY <3>1, <3>2, <3>3, <3>4, <3>5 DEF Tracks, For, Settled, IsListed
  <2> QED BY <2>1 DEF Tracking
<1> QED BY <1>2, <1>3, <1>4, <1>5 DEF IInv

\* A fresh id goes to the create that took it.
LEMMA TakeIdInv ==
    ASSUME IInv, NEW p \in Clients, At(p, "setup", "create"), nextId \in Ids, nextID' = nextId,
           job' = [job EXCEPT ![p].id = nextId, ![p].step = "publish"],
           UNCHANGED <<processVars, devices, table, stuck, gone, client>>
    PROVE  IInv'
<1> DEFINE j == [job[p] EXCEPT !.id = nextId, !.step = "publish"]
<1>t. /\ client \in [Clients -> CommandType] /\ job \in [Clients -> RequestType] /\ nextID \in 0 .. MaxIds
      /\ devices \in SUBSET Devices /\ stuck \in BOOLEAN /\ gone \in SUBSET Ids
      /\ table \in [Endpoints -> [id : 0 .. MaxIds, device : Devices \cup {None}]]
  BY DEF IInv, TypeOK, Requests
<1>0. up /\ job[p].step = "setup" /\ job[p].name = "create" /\ UNCHANGED up BY DEF At, processVars
<1>1. job' = [job EXCEPT ![p] = j] /\ client' = [client EXCEPT ![p] = client[p]] BY <1>t
<1>2. nextId = nextID + 1 /\ nextId \in 0 .. MaxIds BY <1>t DEF nextId, Ids
<1>3. j \in RequestType /\ j.id = nextID + 1 /\ j.name = "create" BY <1>0, <1>2, <1>t DEF RequestType
<1> HIDE DEF j
<1>4. ~client[p].same /\ client[p].pc # "probe" BY <1>0, TrackedServed, NoRequestType DEF IInv, Requests
<1>5. \A e \in Endpoints : table'[e] \in {table[e], NoMapping} OBVIOUS
<1>6. /\ nextID' \in {nextID, nextID + 1} /\ nextID' \in 0 .. MaxIds /\ nextID' = nextID + 1
      /\ gone' \ gone = {} /\ client[p] \in CommandType
      /\ devices' \in SUBSET Devices /\ stuck' \in BOOLEAN /\ gone' \in SUBSET Ids
      /\ table' \in [Endpoints -> [id : 0 .. MaxIds, device : Devices \cup {None}]]
  BY <1>2, <1>t
<1> QED BY <1>0, <1>1, <1>3, <1>4, <1>5, <1>6, StepInv, ZenonT(60)

\* The three steps of a create.
LEMMA CreateInv == ASSUME IInv, NEW p \in Clients, handleCreate(p) \/ setUp(p) \/ publish(p) PROVE IInv'
<1>t. gone \in SUBSET Ids /\ nextID \in 0 .. MaxIds /\ TypeOK BY DEF IInv, TypeOK
<1>0. up /\ job[p].step # "unsent" /\ job[p].name = "create" /\ UNCHANGED <<processVars, devices, gone>>
  BY DEF handleCreate, setUp, publish, At
<1>s. ~client[p].same BY <1>0, TrackedServed
<1>e. Existing(p) \in SUBSET Rows BY DEF Existing
<1>r. ASSUME Refuse(p), UNCHANGED <<table, stuck>>, nextID' \in {nextID, nextID + 1}, nextID' \in 0 .. MaxIds PROVE IInv'
  BY <1>0, <1>r, <1>s, <1>t, WithoutNone, EndedInv DEF Refuse
<1>n. UNCHANGED nextID => nextID' \in {nextID, nextID + 1} /\ nextID' \in 0 .. MaxIds BY <1>t
<1>1. CASE handleCreate(p)
  <2>0. UNCHANGED nextID BY <1>1 DEF handleCreate
  <2>1. CASE Refuse(p) /\ UNCHANGED <<table, stuck>> BY <2>0, <2>1, <1>n, <1>r
  <2>2. CASE table' = Without(Existing(p)) /\ UNCHANGED stuck /\ Step(p, "setup")
    <3>1. stuck' \in BOOLEAN BY <2>2, <1>t DEF TypeOK
    <3> QED BY <2>0, <2>2, <3>1, <1>0, <1>e, LabelInv
  <2>3. CASE NeverReturns(p, Existing(p)) BY <2>0, <2>3, <1>0, <1>e, StuckInv
  <2> QED BY <1>1, <2>1, <2>2, <2>3 DEF handleCreate
<1>2. CASE setUp(p)
  <2>0. At(p, "setup", "create") /\ UNCHANGED <<table, stuck>> BY <1>2 DEF setUp
  <2>1. CASE Refuse(p) /\ nextID' \in {nextID} \cup ({nextId} \cap IF registry = "reverse" THEN Ids ELSE {})
    <3>1. nextID' = nextID \/ (nextID' = nextID + 1 /\ nextID' \in Ids) BY <2>1 DEF nextId
    <3>2. nextID' \in {nextID, nextID + 1} /\ nextID' \in 0 .. MaxIds BY <3>1, <1>t DEF Ids
    <3> QED BY <2>0, <2>1, <3>2, <1>r
  <2>2. CASE nextId \in Ids /\ nextID' = nextId /\ UNCHANGED client
             /\ job' = [job EXCEPT ![p].id = nextId, ![p].step = "publish"]
    BY <2>0, <2>2, <1>0, TakeIdInv
  <2> QED BY <1>2, <2>1, <2>2 DEF setUp
<1>3. CASE publish(p)
  <2>0. At(p, "publish", "create") /\ UNCHANGED nextID BY <1>3 DEF publish
  <2>1. CASE Refuse(p) /\ UNCHANGED <<table, stuck>> BY <2>0, <2>1, <1>n, <1>r
  <2>2. CASE table' = Listing(p) /\ UNCHANGED stuck /\ Answer(p, {Ended(0)}) BY <2>0, <2>2, <1>0, ListingInv
  <2>3. CASE NeverReturns(p, Existing(p)) BY <2>0, <2>3, <1>0, <1>e, StuckInv
  <2> QED BY <1>3, <2>1, <2>2, <2>3 DEF publish
<1> QED BY <1>1, <1>2, <1>3

-----------------------------------------------------------------------------
(* Steps of the commands.                                                  *)

\* Only the command of shell p changes.
LEMMA CommandInv ==
    ASSUME IInv, NEW p \in Clients, NEW c \in CommandType, client' = [client EXCEPT ![p] = c],
           UNCHANGED <<serverVars, job>>, c.pc = "probe" => job[p] = NoRequest, c.same => Tracks(c, job[p])
    PROVE  IInv'
<1>t. job \in [Clients -> RequestType] BY DEF IInv, Requests
<1>1. job' = [job EXCEPT ![p] = job[p]] /\ job[p] \in RequestType BY <1>t
<1>2. (up \/ job[p] = NoRequest) /\ (job[p].norebind => job[p].name = "create") BY DEF IInv, TypeOK, Requests
<1> QED BY <1>1, <1>2, PairInv

\* The command of shell p ends.
LEMMA ExitInv ==
    ASSUME IInv, NEW p \in Clients, NEW code \in {0, 1, 2}, Exit(p, code), UNCHANGED <<serverVars, job>>
    PROVE  IInv'
  BY EndedType, CommandInv DEF Exit, Set

\* The request of a create is well typed.
LEMMA MadeCreate ==
    ASSUME NEW e \in Endpoints \cup {None}, NEW d \in Devices \cup {None}, NEW n \in BOOLEAN
    PROVE  Request("create", e, 0, d, n) \in RequestType /\ Request("create", e, 0, d, n).name = "create"
  BY CommandsAssumption DEF Request, RequestType

\* A new command is well typed and tracks nothing.
LEMMA MadeCommand ==
    ASSUME NEW tool \in {"custom", "compat"},
           NEW verb \in {"create", "list", "remove", "remove_all", "start_server", "kill_server", "devices", "get_state",
                         "server", "doctor"},
           NEW e \in Endpoints \cup {None}, NEW s \in Selectors \cup {"any"}, NEW n \in BOOLEAN
    PROVE  Command(tool, verb, e, s, n) \in CommandType /\ Command(tool, verb, e, s, n).same = FALSE
  BY DEF Command, CommandType

\* Command c sends request r, or finds no server.
LEMMA SendInv ==
    ASSUME IInv, NEW p \in Clients, NEW c \in CommandType, NEW r \in RequestType, NEW code \in {0, 1, 2},
           Send(p, c, r, code), UNCHANGED serverVars, job[p] = NoRequest, r.norebind => r.name = "create",
           c.same => /\ c.ask = "remove" /\ c.todo \subseteq c.ids /\ r.name = "remove" /\ r.id # 0
                     /\ \A i \in c.ids \cup {r.id} : Settled(i) /\ For(c, i)
                     /\ \A i \in c.ids \ (c.todo \cup {r.id}) : ~IsListed(i)
    PROVE  IInv'
<1>1. CASE ~up /\ Set(p, Ended(code)) /\ UNCHANGED job BY <1>1, ExitInv DEF Exit
<1>2. CASE up /\ Set(p, [c EXCEPT !.pc = "await"]) /\ job' = [job EXCEPT ![p] = [r EXCEPT !.step = "handle"]]
  <2> DEFINE k == [c EXCEPT !.pc = "await"]
             j == [r EXCEPT !.step = "handle"]
  <2>1. client' = [client EXCEPT ![p] = k] /\ job' = [job EXCEPT ![p] = j] BY <1>2 DEF Set
  <2>2. /\ k \in CommandType /\ k.pc = "await" /\ k.same = c.same /\ k.ask = c.ask /\ k.todo = c.todo /\ k.ids = c.ids
        /\ k.device = c.device /\ k.verb = c.verb /\ k.endpoint = c.endpoint
    BY DEF CommandType
  <2>3. j \in RequestType /\ j.step = "handle" /\ j.name = r.name /\ j.id = r.id /\ j.norebind = r.norebind
    BY DEF RequestType
  <2> HIDE DEF k, j
  <2>4. \A i : For(c, i) => For(k, i) BY <2>2 DEF For
  <2>5. k.same => Tracks(k, j) BY <2>2, <2>3, <2>4 DEF Tracks
  <2> QED BY <1>2, <2>1, <2>2, <2>3, <2>5, PairInv, ZenonT(60)
<1> QED BY <1>1, <1>2 DEF Send

\* A custom command is sent with its request.
LEMMA CustomInv ==
    ASSUME IInv, NEW p \in Clients,
           NEW verb \in {"create", "list", "remove", "remove_all", "devices", "server", "doctor"}, NEW code \in {0, 1},
           NEW r \in RequestType, r.norebind => r.name = "create",
           Send(p, Command("custom", verb, None, "any", FALSE), r, code), UNCHANGED serverVars, job[p] = NoRequest
    PROVE  IInv'
  BY MadeCommand, SendInv

\* A compat command begins.
LEMMA FirstInv ==
    ASSUME IInv, NEW p \in Clients,
           NEW verb \in {"create", "list", "remove", "remove_all", "start_server", "devices", "get_state"},
           NEW e \in Endpoints \cup {None}, NEW s \in Selectors \cup {"any"}, NEW n \in BOOLEAN,
           NEW name \in {"none", "device_list", "list"},
           First(p, Compat(verb, e, s, n), name), UNCHANGED <<serverVars, job>>, job[p] = NoRequest
    PROVE  IInv'
<1> DEFINE c == Command("compat", verb, e, s, n)
<1>1. c \in CommandType /\ c.same = FALSE BY DEF Command, CommandType
<1>2. client' = [client EXCEPT ![p] = Ask(c, name)] BY DEF First, Compat, Set
<1> HIDE DEF c
<1>3. Ask(c, name) \in CommandType /\ Ask(c, name).same = FALSE BY <1>1, AskType
<1> QED BY <1>2, <1>3, CommandInv

\* The commands start.
LEMMA RunInv == ASSUME IInv, NEW p \in Clients, Run(p) PROVE IInv'
<1>0. job[p] = NoRequest /\ UNCHANGED serverVars
  BY DEF Run, runForwardWithOptions, runReverseWithOptions, runServerWithJSON, runDevicesWithJSON, runStartServer,
         runKillServer, runDevices, runGetState, runReverse, CanRun
<1>i. 0 \in 0 .. MaxIds /\ \A i \in Ids : i \in 0 .. MaxIds BY CommandsAssumption DEF Ids
<1>c. \A r \in CreateRequests \cup RemoveRequests : r \in RequestType /\ (r.norebind => r.name = "create")
  <2>1. \A e \in Endpoints, d \in Devices, n \in BOOLEAN :
          Request("create", e, 0, d, n) \in RequestType /\ Request("create", e, 0, d, n).name = "create"
    BY MadeCreate
  <2>2. \A e \in Endpoints \cup {None}, i \in Ids \cup {0} :
          Request("remove", e, i, None, FALSE) \in RequestType /\ Request("remove", e, i, None, FALSE).norebind = FALSE
    BY <1>i DEF Request, RequestType
  <2>3. \A r \in CreateRequests : \E e \in Endpoints, d \in Devices, n \in BOOLEAN : r = Request("create", e, 0, d, n)
    BY DEF CreateRequests
  <2>4. \A r \in RemoveRequests : \E e \in Endpoints \cup {None}, i \in Ids \cup {0} : r = Request("remove", e, i, None, FALSE)
    BY DEF RemoveRequests
  <2>5. \A r \in CreateRequests : r \in RequestType /\ r.name = "create" BY <2>1, <2>3
  <2>6. \A r \in RemoveRequests : r \in RequestType /\ r.norebind = FALSE BY <2>2, <2>4
  <2> QED BY <2>5, <2>6
<1>s. \A name \in {"ping", "status", "shutdown", "device_list", "list", "remove_all"} :
        Request(name, None, 0, None, FALSE) \in RequestType /\ Request(name, None, 0, None, FALSE).norebind = FALSE
  BY <1>i DEF Request, RequestType
<1>1. CASE UsageError(p) BY <1>0, <1>1, ExitInv DEF UsageError
<1>2. CASE \/ runForwardServerCreate(p) \/ runForwardServerRemove(p)
           \/ runReverseServerCreate(p) \/ runReverseServerRemove(p)
  <2>1. \E r \in CreateRequests \cup RemoveRequests, verb \in {"create", "remove"} :
          Send(p, Command("custom", verb, None, "any", FALSE), r, 1)
    BY <1>2 DEF runForwardServerCreate, runForwardServerRemove, runReverseServerCreate, runReverseServerRemove, SendCustom
  <2> QED BY <2>1, <1>0, <1>c, CustomInv
<1>3. CASE \/ runForwardServerList(p) \/ runForwardServerRemoveAll(p)
           \/ runReverseServerList(p) \/ runReverseServerRemoveAll(p)
  <2>1. \E verb \in {"list", "remove_all"} :
          Send(p, Command("custom", verb, None, "any", FALSE), Request(verb, None, 0, None, FALSE), 1)
    BY <1>3 DEF runForwardServerList, runForwardServerRemoveAll, runReverseServerList, runReverseServerRemoveAll, SendCustom
  <2> QED BY <2>1, <1>0, <1>s, CustomInv
<1>4. CASE runServerWithJSON(p)
  <2>1. CASE \E name \in {"ping", "status", "shutdown"} : SendCustom(p, "server", Request(name, None, 0, None, FALSE))
    BY <2>1, <1>0, <1>s, CustomInv DEF SendCustom
  <2>2. CASE runServerDoctorWithJSON(p) BY <2>2, <1>0, <1>s, CustomInv DEF runServerDoctorWithJSON
  <2> QED BY <1>1, <1>4, <2>1, <2>2 DEF runServerWithJSON
<1>5. CASE runDevicesWithJSON(p)
  <2>1. CASE SendCustom(p, "devices", Request("device_list", None, 0, None, FALSE))
    BY <2>1, <1>0, <1>s, CustomInv DEF SendCustom
  <2> QED BY <1>1, <1>5, <2>1 DEF runDevicesWithJSON
<1>6. CASE runStartServer(p) \/ runDevices(p) \/ runGetState(p)
  <2>1. UNCHANGED job BY <1>6 DEF runStartServer, runDevices, runGetState
  <2>2. PICK verb \in {"start_server", "devices", "get_state"}, e \in Endpoints \cup {None}, s \in Selectors \cup {"any"},
           n \in BOOLEAN, name \in {"none", "device_list"} : First(p, Compat(verb, e, s, n), name)
    BY <1>6 DEF runStartServer, runDevices, runGetState
  <2>3. job[p] = NoRequest /\ UNCHANGED <<serverVars, job>> BY <2>1, <1>0
  <2> QED BY <2>2, <2>3, FirstInv
<1>7. CASE runKillServer(p)
  <2>1. Send(p, Command("compat", "kill_server", None, "any", FALSE), Request("shutdown", None, 0, None, FALSE), 0)
    BY <1>7 DEF runKillServer, Compat
  <2> QED BY <2>1, <1>0, <1>s, MadeCommand, SendInv
<1>8. CASE runReverse(p)
  <2>1. UNCHANGED job BY <1>8 DEF runReverse
  <2>2. CASE Exit(p, 1) BY <2>1, <2>2, <1>0, ExitInv
  <2>3. CASE \E s \in Selectors :
               runReverseCreate(p, s) \/ runReverseList(p, s) \/ runReverseRemove(p, s) \/ runReverseRemoveAll(p, s)
    <3>1. PICK verb \in {"create", "list", "remove", "remove_all"}, e \in Endpoints \cup {None}, s \in Selectors \cup {"any"},
             n \in BOOLEAN, name \in {"list", "device_list"} : First(p, Compat(verb, e, s, n), name)
      BY <2>3 DEF runReverseCreate, runReverseList, runReverseRemove, runReverseRemoveAll
    <3>2. job[p] = NoRequest /\ UNCHANGED <<serverVars, job>> BY <2>1, <1>0
    <3> QED BY <3>1, <3>2, FirstInv
  <2> QED BY <1>8, <2>2, <2>3 DEF runReverse
<1> QED BY <1>1, <1>2, <1>3, <1>4, <1>5, <1>6, <1>7, <1>8 DEF Run, runForwardWithOptions, runReverseWithOptions

\* A compat command goes on, or gives up.
LEMMA ContinueInv == ASSUME IInv, NEW p \in Clients, Continue(p) PROVE IInv'
<1> DEFINE c == client[p]
<1>t. c \in CommandType BY DEF IInv, TypeOK
<1>i. 0 \in 0 .. MaxIds /\ \A i \in Ids : i \in 0 .. MaxIds /\ i # 0 BY CommandsAssumption DEF Ids
<1>e. ErrorCode(p) \in {0, 1, 2} BY DEF ErrorCode
<1>1. CASE connectionLost(p) BY <1>1, <1>e, ExitInv DEF connectionLost
<1>2. CASE deadline(p)
  <2>0. UNCHANGED <<serverVars, job>> BY <1>2 DEF deadline
  <2>1. CASE c.ask # "remove" BY <1>2, <2>0, <2>1, <1>e, ExitInv DEF deadline, GiveUp, Exit
  <2>2. CASE c.ask = "remove"
    <3> DEFINE k == [c EXCEPT !.pc = "exited", !.exit = 1, !.todo = {}, !.ids = {}]
    <3>1. client' = [client EXCEPT ![p] = k] BY <1>2, <2>2 DEF deadline, GiveUp, Set
    <3>2. /\ k \in CommandType /\ k.pc = "exited" /\ k.same = c.same /\ k.ask = c.ask /\ k.todo = {} /\ k.ids = {}
          /\ k.device = c.device /\ k.verb = c.verb /\ k.endpoint = c.endpoint
      BY <1>t DEF CommandType
    <3> HIDE DEF k
    <3>3. \A i : For(c, i) => For(k, i) BY <3>2 DEF For
    <3>4. k.same => Tracks(k, job[p]) BY <3>2, <3>3 DEF IInv, Tracking, Tracks
    <3> QED BY <2>0, <3>1, <3>2, <3>4, CommandInv
  <2> QED BY <2>1, <2>2
<1>3. CASE ensureServer(p)
  <2>0. UNCHANGED serverVars /\ c.pc = "probe" /\ job[p] = NoRequest BY <1>3 DEF ensureServer, IInv, Requests
  <2>1. CASE \E code \in {0, 1} : Exit(p, code) /\ UNCHANGED job BY <2>0, <2>1, ExitInv
  <2>2. CASE c.ask \in {"device_list", "list"} /\ Send(p, c, Request(c.ask, None, 0, None, FALSE), 1)
    <3>1. ~c.same BY <2>2 DEF IInv, Tracking, Tracks
    <3>2. Request(c.ask, None, 0, None, FALSE) \in RequestType /\ Request(c.ask, None, 0, None, FALSE).norebind = FALSE
      BY <2>2, <1>i DEF Request, RequestType
    <3> QED BY <2>0, <2>2, <3>1, <3>2, <1>t, SendInv
  <2>3. CASE c.ask = "create" /\ Send(p, c, Request("create", c.endpoint, 0, c.device, c.norebind), 1)
    <3>1. ~c.same BY <2>3 DEF IInv, Tracking, Tracks
    <3>2. c.endpoint \in Endpoints \cup {None} /\ c.device \in Devices \cup {None} /\ c.norebind \in BOOLEAN
      BY <1>t DEF CommandType
    <3>3. /\ Request("create", c.endpoint, 0, c.device, c.norebind) \in RequestType
          /\ Request("create", c.endpoint, 0, c.device, c.norebind).name = "create"
      BY <3>2, MadeCreate
    <3> QED BY <2>0, <2>3, <3>1, <3>3, <1>t, SendInv
  <2>4. ASSUME c.ask = "remove", NEW i \in c.todo,
               Send(p, [c EXCEPT !.todo = @ \ {i}], Request("remove", None, i, None, FALSE), 1)
        PROVE  IInv'
    <3> DEFINE k == [c EXCEPT !.todo = @ \ {i}]
               r == Request("remove", None, i, None, FALSE)
    <3>1. /\ k \in CommandType /\ k.same = c.same /\ k.ask = c.ask /\ k.todo = c.todo \ {i} /\ k.ids = c.ids
          /\ k.device = c.device /\ k.verb = c.verb /\ k.endpoint = c.endpoint
      BY <1>t DEF CommandType
    <3>2. i \in Ids BY <1>t DEF CommandType
    <3>3. r \in RequestType /\ r.name = "remove" /\ r.norebind = FALSE /\ r.id = i /\ r.id # 0 BY <3>2, <1>i DEF Request, RequestType
    <3>4. Send(p, k, r, 1) BY <2>4
    <3> HIDE DEF k, r
    <3>5. \A n : For(c, n) => For(k, n) BY <3>1 DEF For
    <3>6. c.same => /\ c.todo \subseteq c.ids /\ (\A n \in c.ids : Settled(n) /\ For(c, n))
                    /\ \A n \in c.ids \ c.todo : n # 0 => ~IsListed(n)
      BY <2>0, NoRequestType DEF IInv, Tracking, Tracks
    <3>7. \A n \in c.ids : n # 0 BY <1>t, <1>i DEF CommandType
    <3>8. k.same => /\ k.ask = "remove" /\ k.todo \subseteq k.ids /\ r.name = "remove" /\ r.id # 0
                    /\ \A n \in k.ids \cup {r.id} : Settled(n) /\ For(k, n)
                    /\ \A n \in k.ids \ (k.todo \cup {r.id}) : ~IsListed(n)
      BY <2>4, <3>1, <3>3, <3>5, <3>6, <3>7
    <3> QED BY <2>0, <3>1, <3>3, <3>4, <3>8, SendInv
  <2>5. \/ \E code \in {0, 1} : Exit(p, code) /\ UNCHANGED job
        \/ SendNext(p)
    BY <1>3 DEF ensureServer, Ready, NoServer
  <2> QED BY <2>1, <2>2, <2>3, <2>4, <2>5 DEF SendNext
<1> QED BY <1>1, <1>2, <1>3 DEF Continue

-----------------------------------------------------------------------------
(* What holds in every reachable state.                                    *)

\* A server comes, or a device is registered: nothing is listed or asked.
LEMMA ServerInv ==
    ASSUME IInv, up' = TRUE, devices' \in SUBSET Devices, UNCHANGED <<registryVars, job, client>>
    PROVE  IInv'
<1>1. UNCHANGED <<table, nextID, stuck, gone, job, client>> BY DEF registryVars
<1>2. TypeOK' BY <1>1 DEF IInv, TypeOK
<1>3. Requests' BY <1>1 DEF IInv, Requests
<1>4. OneListing' BY <1>1 DEF IInv, OneListing, IsListed, Used, Publishing, Settled
<1>5. Tracking' BY <1>1 DEF IInv, Tracking, Tracks, IsListed, Used, Publishing, Settled, For
<1> QED BY <1>2, <1>3, <1>4, <1>5 DEF IInv

\* The invariant is inductive.
LEMMA NextInv == ASSUME IInv, [Next]_vars PROVE IInv'
<1>1. CASE becomeReady
  <2>1. up' = TRUE /\ devices' = devices /\ UNCHANGED <<registryVars, job, client>> BY <1>1 DEF becomeReady
  <2>2. devices' \in SUBSET Devices BY <2>1 DEF IInv, TypeOK
  <2> QED BY <2>1, <2>2, ServerInv
<1>2. ASSUME NEW d \in Devices, register(d) PROVE IInv'
  <2>1. up' = TRUE /\ UNCHANGED <<registryVars, job, client>> BY <1>2 DEF register, processVars, IInv, TypeOK
  <2>2. devices' \in SUBSET Devices BY <1>2 DEF register, IInv, TypeOK
  <2> QED BY <2>1, <2>2, ServerInv
<1>3. CASE serverDies BY <1>3, GoneInv DEF serverDies
<1>4. ASSUME NEW p \in Clients, Serve(p) PROVE IInv'
  BY <1>4, ReadInv, ShutdownInv, GoneInv, RemoveInv, CreateInv DEF Serve, shutDown
<1>5. CASE UNCHANGED vars
  <2>1. UNCHANGED <<up, devices, table, nextID, stuck, gone, job, client>>
    BY <1>5 DEF vars, serverVars, processVars, registryVars
  <2>2. TypeOK' BY <2>1 DEF IInv, TypeOK, Rows, Row
  <2>3. Requests' BY <2>1 DEF IInv, Requests
  <2>4. OneListing' BY <2>1 DEF IInv, OneListing, IsListed, Used, Publishing, Settled
  <2>5. Tracking' BY <2>1 DEF IInv, Tracking, Tracks, IsListed, Used, Publishing, Settled, For
  <2> QED BY <2>2, <2>3, <2>4, <2>5 DEF IInv
<1> QED BY <1>1, <1>2, <1>3, <1>4, <1>5, RunInv, ContinueInv DEF Next

\* Ids that are reported as removed are not listed.
LEMMA FinalRemovals == IInv => RemovalIsFinal
  BY RowsUsed DEF IInv, OneListing, RemovalIsFinal

\* The inductive invariant of the commands holds throughout.
THEOREM CommandsInvariant == Spec => []IInv
<1>1. IInv /\ [Next]_vars => IInv' BY NextInv
<1> QED BY <1>1, InitInv, PTL DEF Spec

\* The commands and the server's side of their requests keep their types, and a
\* server that goes takes its goroutines and its mappings with it.
THEOREM CommandsTypeCorrect == Spec => []TypeOK
<1>1. IInv => TypeOK BY DEF IInv
<1> QED BY <1>1, CommandsInvariant, PTL

\* What a removal that exits with 0 has removed is not listed again by that server.
THEOREM RemovalsFinal == Spec => []RemovalIsFinal
<1> QED BY FinalRemovals, CommandsInvariant, PTL

-----------------------------------------------------------------------------
(* What a step may take away.                                              *)

\* A step of one shell leaves the requests of the others alone, unless the server goes.
LEMMA OwnRequest ==
    ASSUME IInv, NEW q \in Clients, Serve(q) \/ Run(q) \/ Continue(q), NEW p \in Clients \ {q}, up'
    PROVE  job'[p] = job[p]
<1>t. job \in [Clients -> RequestType] BY DEF IInv, Requests
<1>1. CASE Serve(q)
  <2>1. ~shutDown(q) BY DEF shutDown, Gone
  <2>2. \E j : job' = [job EXCEPT ![q] = j]
    BY <1>1, <1>t, <2>1 DEF Serve, handlePing, handleStatus, handleDeviceList, handleShutdown, handleList, handleRemove,
       validateForwardCreateParams, validateReverseCreateParams, handleRemoveAll, handleCreate, setUp, publish,
       Answer, Refuse, NeverReturns, Step
  <2> QED BY <2>2, <1>t
<1>2. CASE Run(q)
  <2>1. UNCHANGED job \/ \E j : job' = [job EXCEPT ![q] = j]
    BY <1>2 DEF Run, runForwardWithOptions, runReverseWithOptions, runServerWithJSON, runDevicesWithJSON, runStartServer,
       runKillServer, runDevices, runGetState, runReverse, UsageError, runForwardServerCreate, runForwardServerList,
       runForwardServerRemove, runForwardServerRemoveAll, runReverseServerCreate, runReverseServerList,
       runReverseServerRemove, runReverseServerRemoveAll, runServerDoctorWithJSON, SendCustom, Send
  <2> QED BY <2>1, <1>t
<1>3. CASE Continue(q)
  <2>1. UNCHANGED job \/ \E j : job' = [job EXCEPT ![q] = j]
    BY <1>3 DEF Continue, ensureServer, connectionLost, deadline, Ready, NoServer, SendNext, Send
  <2> QED BY <2>1, <1>t
<1> QED BY <1>1, <1>2, <1>3

\* What one step of p's goroutine takes away is p's to take.
LEMMA ServeOwn ==
    ASSUME IInv, NEW p \in Clients, Serve(p), up'
    PROVE  /\ job[p].norebind => Lost = {}
           /\ client[p].same => \A e \in Lost : /\ table[e].device = client[p].device
                                                /\ client[p].verb = "remove" => e = client[p].endpoint
<1>t. TypeOK BY DEF IInv
<1>n. job[p].norebind => job[p].name = "create" BY DEF IInv, Requests
<1>u. UNCHANGED table => Lost = {} BY DEF Lost
<1>1. CASE \/ handlePing(p) \/ handleStatus(p) \/ handleDeviceList(p) \/ handleShutdown(p) \/ handleList(p)
           \/ validateForwardCreateParams(p) \/ validateReverseCreateParams(p) \/ setUp(p)
  <2>1. UNCHANGED table
    BY <1>1 DEF handlePing, handleStatus, handleDeviceList, handleShutdown, handleList, validateForwardCreateParams,
       validateReverseCreateParams, setUp, serverVars, registryVars
  <2> QED BY <2>1, <1>u
<1>2. CASE handleRemove(p)
  <2>1. job[p].step # "unsent" /\ job[p].name = "remove" BY <1>2 DEF handleRemove, At
  <2>2. UNCHANGED table \/ \E rows \in SUBSET Named(p) : table' = Without(rows)
    BY <1>2 DEF handleRemove, NeverReturns
  <2>3. Named(p) \subseteq Rows BY DEF Named
  <2>4. \A e \in Lost : e \in Endpoints /\ Row(e) \in Named(p) BY <1>t, <1>u, <2>2, <2>3, WithoutRows DEF Lost
  <2>5. SUFFICES ASSUME client[p].same, NEW e \in Lost
                 PROVE  /\ table[e].device = client[p].device
                        /\ client[p].verb = "remove" => e = client[p].endpoint
    BY <1>n, <2>1
  <2>6. Tracks(client[p], job[p]) /\ job[p].id # 0 BY <2>1, <2>5, TrackedServed DEF IInv, Tracking
  <2>7. table[e].id = job[p].id /\ Used(e) BY <2>4, <2>6, RowsUsed DEF Named, Lost, Used
  <2> QED BY <2>4, <2>6, <2>7 DEF Tracks, For
<1>3. CASE handleRemoveAll(p)
  <2>1. job[p].step # "unsent" /\ job[p].name = "remove_all" BY <1>3 DEF handleRemoveAll, At
  <2> QED BY <1>n, <2>1, TrackedServed
<1>4. CASE handleCreate(p) \/ publish(p)
  <2>1. job[p].step # "unsent" /\ job[p].name = "create" BY <1>4 DEF handleCreate, publish, At
  <2>2. ~client[p].same BY <2>1, TrackedServed
  <2>3. SUFFICES ASSUME job[p].norebind PROVE Lost = {} BY <2>2
  <2>4. UNCHANGED table \/ (Existing(p) = {} /\ (table' = Without({}) \/ table' = Listing(p)))
    BY <1>4, <2>3 DEF handleCreate, publish, NeverReturns
  <2>5. Existing(p) = {} => \A e \in Endpoints : Used(e) => e # job[p].endpoint BY RowsUsed DEF Existing
  <2>6. CASE Existing(p) = {} /\ table' = Listing(p)
    BY <2>5, <2>6, <1>t DEF Listing, Lost, Used, TypeOK
  <2> QED BY <1>t, <1>u, <2>4, <2>6, WithoutNone
<1>5. ~shutDown(p) BY DEF shutDown, Gone
<1> QED BY <1>1, <1>2, <1>3, <1>4, <1>5 DEF Serve

\* No step costs a mapping that the command it serves is not for.
LEMMA StepLosesOwn ==
    ASSUME IInv, [Next]_vars, NEW p \in Clients, Served(p)
    PROVE  /\ job[p].norebind => Lost = {}
           /\ client[p].same => \A e \in Lost : /\ table[e].device = client[p].device
                                                /\ client[p].verb = "remove" => e = client[p].endpoint
<1>0. up' /\ job'[p] # job[p] BY DEF Served
<1>1. Serve(p) \/ Run(p) \/ Continue(p)
  <2>1. ~(UNCHANGED vars) BY <1>0 DEF vars
  <2>2. ~becomeReady /\ ~serverDies /\ \A d \in Devices : ~register(d) BY <1>0 DEF becomeReady, serverDies, register, Gone
  <2>3. \A q \in Clients : Serve(q) \/ Run(q) \/ Continue(q) => q = p BY <1>0, OwnRequest
  <2> QED BY <2>1, <2>2, <2>3 DEF Next
<1>2. CASE Serve(p) BY <1>0, <1>2, ServeOwn
<1>3. CASE Run(p) \/ Continue(p)
  <2>1. UNCHANGED table
    BY <1>3 DEF Run, runForwardWithOptions, runReverseWithOptions, runServerWithJSON, runDevicesWithJSON, runStartServer,
       runKillServer, runDevices, runGetState, runReverse, Continue, ensureServer, connectionLost, deadline,
       serverVars, registryVars
  <2> QED BY <2>1 DEF Lost
<1> QED BY <1>1, <1>2, <1>3

\* No command costs a mapping it is not for: what a compat removal takes away is of
\* the device and the endpoint it names, and a create with norebind takes nothing.
THEOREM CommandsLoseOnlyTheirOwn == Spec => LosesOnlyItsOwn
<1>1. IInv /\ [Next]_vars =>
        [\A p \in Clients :
           LET c == client[p] IN
           Served(p) =>
             /\ job[p].norebind => Lost = {}
             /\ c.tool = "compat" /\ c.ask = "remove" /\ c.same =>
                  \A e \in Lost : table[e].device = c.device /\ (c.verb = "remove" => e = c.endpoint)]_vars
  BY StepLosesOwn
<1> QED BY <1>1, CommandsInvariant, PTL DEF Spec, LosesOnlyItsOwn

-----------------------------------------------------------------------------
(* The way out of a command that waits, and the table the requests share.   *)

\* A create that has its id, or whose removal of an earlier mapping does not return.
Creating(p) == job[p].name = "create" /\ job[p].step \in {"publish", "stuck"}

\* A device_list is served in one step.  A create takes its id last, and no other create has it.
\* There is nothing when there is no server.
RInv ==
    /\ \A p \in Clients :
         /\ job[p].name = "device_list" => job[p].step = "handle"
         /\ job[p].name = "create" /\ job[p].step \in {"handle", "setup"} => job[p].id = 0
         /\ Creating(p) => job[p].id <= nextID
         /\ \A q \in Clients \ {p} : Creating(p) /\ Creating(q) /\ job[p].id = job[q].id => job[p].id = 0
    /\ ~up => nextID = 0

\* The server's table as the registries promise it: the ids listed, and those spent.
Listed == [e \in Endpoints |-> table[e].id]
Spent == {i \in 1 .. nextID : \A p \in Clients : Creating(p) => job[p].id # i}
Table == INSTANCE MappingTable WITH Keys <- Endpoints, NoId <- 0, table <- Listed, spent <- Spent

\* A create without norebind takes the place of a mapping that came between its two lookups:
\* Withdraw and Publish under one hold of the mutex.
Rebind(e, i) ==
    /\ Listed[e] # 0
    /\ Listed' = [Listed EXCEPT ![e] = i]
    /\ Spent' = Spent \cup {i}

TableStep ==
    \/ Table!Next \/ UNCHANGED <<Listed, Spent>>
    \/ \E e \in Endpoints, i \in Ids \ Spent : Rebind(e, i)

\* What a step does to the request of a shell while there is a server: nothing, an end, a start,
\* a further step of a request that takes several, or a create that gets its id.
Moves(p) ==
    \/ job'[p] = job[p] \/ job'[p] = NoRequest
    \/ job[p] = NoRequest /\ job'[p].step = "handle" /\ (job'[p].name = "create" => job'[p].id = 0)
    \/ /\ job[p].name \in {"create", "remove", "remove_all", "shutdown"} /\ job'[p].name = job[p].name /\ job'[p].id = job[p].id
       /\ \/ job[p].step = "handle" /\ job'[p].step \in {"setup", "stuck", "closing"}
          \/ job[p].step = "publish" /\ job'[p].step = "stuck"
    \/ /\ job[p].name = "create" /\ job'[p].name = "create"
       /\ job[p].step = "setup" /\ job'[p].step = "publish" /\ job'[p].id = nextID + 1 /\ nextID' = nextID + 1

\* A label of a goroutine is all that changes in its request.
LEMMA LabelOnly ==
    ASSUME IInv, NEW p \in Clients, NEW label, job' = [job EXCEPT ![p].step = label]
    PROVE  job'[p].name = job[p].name /\ job'[p].id = job[p].id /\ job'[p].step = label
<1>t. job \in [Clients -> RequestType] BY DEF IInv, Requests
<1>1. job'[p] = [job[p] EXCEPT !.step = label] BY <1>t
<1>2. job[p] \in RequestType BY <1>t
<1> QED BY <1>1, <1>2 DEF RequestType

\* A goroutine of the server moves its request as Moves says.
LEMMA ServeMoves == ASSUME IInv, NEW p \in Clients, Serve(p), up' PROVE Moves(p)
<1>t. job \in [Clients -> RequestType] BY DEF IInv, Requests
<1>a. ASSUME NEW commands, Answer(p, commands) PROVE job'[p] = NoRequest BY <1>a, <1>t DEF Answer
<1>1. CASE \/ handlePing(p) \/ handleStatus(p) \/ handleDeviceList(p) \/ handleList(p)
           \/ validateForwardCreateParams(p) \/ validateReverseCreateParams(p)
  <2>1. \E commands : Answer(p, commands)
    BY <1>1 DEF handlePing, handleStatus, handleDeviceList, handleList, validateForwardCreateParams,
       validateReverseCreateParams, Refuse
  <2> QED BY <1>a, <2>1 DEF Moves
<1>2. CASE handleShutdown(p)
  <2>1. job[p].name = "shutdown" /\ job[p].step = "handle" /\ job' = [job EXCEPT ![p].step = "closing"]
    BY <1>2 DEF handleShutdown, At
  <2> QED BY <2>1, LabelOnly DEF Moves
<1>3. CASE handleRemove(p) \/ handleRemoveAll(p) \/ handleCreate(p) \/ publish(p)
  <2>1. /\ job[p].name \in {"create", "remove", "remove_all"}
        /\ job[p].step = "handle" \/ (job[p].step = "publish" /\ publish(p))
    BY <1>3 DEF handleRemove, handleRemoveAll, handleCreate, publish, At
  <2>2. \/ \E commands : Answer(p, commands)
        \/ Step(p, "stuck")
        \/ handleCreate(p) /\ Step(p, "setup")
    BY <1>3 DEF handleRemove, handleRemoveAll, handleCreate, publish, NeverReturns, Refuse
  <2>3. CASE \E commands : Answer(p, commands) BY <1>a, <2>3 DEF Moves
  <2>4. CASE Step(p, "stuck")
    <3>1. job' = [job EXCEPT ![p].step = "stuck"] BY <2>4 DEF Step
    <3> QED BY <2>1, <3>1, LabelOnly DEF Moves
  <2>5. CASE handleCreate(p) /\ Step(p, "setup")
    <3>1. job' = [job EXCEPT ![p].step = "setup"] /\ job[p].step = "handle" BY <2>5 DEF Step, handleCreate, At
    <3> QED BY <2>1, <3>1, LabelOnly DEF Moves
  <2> QED BY <2>2, <2>3, <2>4, <2>5
<1>4. CASE setUp(p)
  <2>1. job[p].name = "create" /\ job[p].step = "setup" BY <1>4 DEF setUp, At
  <2>2. CASE Refuse(p) BY <1>a, <2>2 DEF Refuse, Moves
  <2>3. CASE nextID' = nextId /\ job' = [job EXCEPT ![p].id = nextId, ![p].step = "publish"]
    <3>1. job[p] \in RequestType BY <1>t
    <3>2. job'[p].name = "create" /\ job'[p].step = "publish" /\ job'[p].id = nextId BY <2>1, <2>3, <3>1, <1>t DEF RequestType
    <3> QED BY <2>1, <2>3, <3>2 DEF Moves, nextId
  <2> QED BY <1>4, <2>2, <2>3 DEF setUp
<1>5. ~shutDown(p) BY DEF shutDown, Gone
<1> QED BY <1>1, <1>2, <1>3, <1>4, <1>5 DEF Serve

\* What Send does to the request of its shell.
LEMMA SendMoves ==
    ASSUME IInv, NEW p \in Clients, NEW c, NEW r \in RequestType, NEW code, Send(p, c, r, code), job[p] = NoRequest,
           r.name = "create" => r.id = 0
    PROVE  Moves(p)
<1>t. job \in [Clients -> RequestType] BY DEF IInv, Requests
<1>1. CASE UNCHANGED job BY <1>1 DEF Moves
<1>2. CASE job' = [job EXCEPT ![p] = [r EXCEPT !.step = "handle"]]
  <2>1. job'[p] = [r EXCEPT !.step = "handle"] BY <1>2, <1>t
  <2>2. job'[p].step = "handle" /\ job'[p].name = r.name /\ job'[p].id = r.id BY <2>1 DEF RequestType
  <2> QED BY <2>2 DEF Moves
<1> QED BY <1>1, <1>2 DEF Send

\* The requests that commands make are well typed, and a create comes without an id.
LEMMA MadeRequest ==
    /\ \A name \in {"ping", "status", "shutdown", "device_list", "list", "remove_all"} :
         Request(name, None, 0, None, FALSE) \in RequestType /\ Request(name, None, 0, None, FALSE).name = name
    /\ \A e \in Endpoints \cup {None}, d \in Devices \cup {None}, n \in BOOLEAN :
         Request("create", e, 0, d, n) \in RequestType /\ Request("create", e, 0, d, n).id = 0
    /\ \A e \in Endpoints \cup {None}, i \in 0 .. MaxIds :
         Request("remove", e, i, None, FALSE) \in RequestType /\ Request("remove", e, i, None, FALSE).name = "remove"
<1>1. 0 \in 0 .. MaxIds BY CommandsAssumption
<1>2. ASSUME NEW name \in {"ping", "status", "shutdown", "device_list", "list", "remove_all"}
      PROVE  Request(name, None, 0, None, FALSE) \in RequestType /\ Request(name, None, 0, None, FALSE).name = name
  BY <1>1 DEF Request, RequestType
<1>3. ASSUME NEW e \in Endpoints \cup {None}, NEW d \in Devices \cup {None}, NEW n \in BOOLEAN
      PROVE  Request("create", e, 0, d, n) \in RequestType /\ Request("create", e, 0, d, n).id = 0
  BY <1>1 DEF Request, RequestType
<1>4. ASSUME NEW e \in Endpoints \cup {None}, NEW i \in 0 .. MaxIds
      PROVE  Request("remove", e, i, None, FALSE) \in RequestType /\ Request("remove", e, i, None, FALSE).name = "remove"
  BY DEF Request, RequestType
<1> QED BY <1>2, <1>3, <1>4

\* A shell's next command, or the next request of its command.
LEMMA RunMoves == ASSUME IInv, NEW p \in Clients, Run(p) \/ Continue(p) PROVE Moves(p)
<1>t. client[p] \in CommandType BY DEF IInv, TypeOK
<1>i. 0 \in 0 .. MaxIds /\ \A i \in Ids : i \in 0 .. MaxIds BY CommandsAssumption DEF Ids
<1>u. UNCHANGED job => Moves(p) BY DEF Moves
<1>n. ASSUME NEW c, NEW name \in {"ping", "status", "shutdown", "device_list", "list", "remove_all"}, NEW code,
             Send(p, c, Request(name, None, 0, None, FALSE), code), job[p] = NoRequest
      PROVE  Moves(p)
  BY <1>n, MadeRequest, SendMoves
<1>c. ASSUME NEW c, NEW r \in CreateRequests \cup RemoveRequests, NEW code, Send(p, c, r, code), job[p] = NoRequest
      PROVE  Moves(p)
  <2>1. r \in RequestType /\ (r.name = "create" => r.id = 0)
    <3>1. CASE r \in CreateRequests BY <3>1, MadeRequest DEF CreateRequests
    <3>2. CASE r \in RemoveRequests BY <3>2, <1>i, MadeRequest DEF RemoveRequests
    <3> QED BY <3>1, <3>2
  <2> QED BY <1>c, <2>1, SendMoves
<1>1. CASE runForwardWithOptions(p) \/ runReverseWithOptions(p)
  <2>1. job[p] = NoRequest BY <1>1 DEF runForwardWithOptions, runReverseWithOptions, CanRun
  <2>2. \/ UNCHANGED job
        \/ \E c, code : \E name \in {"list", "remove_all"} : Send(p, c, Request(name, None, 0, None, FALSE), code)
        \/ \E c, code : \E r \in CreateRequests \cup RemoveRequests : Send(p, c, r, code)
    BY <1>1 DEF runForwardWithOptions, runReverseWithOptions, UsageError, runForwardServerCreate, runForwardServerList,
       runForwardServerRemove, runForwardServerRemoveAll, runReverseServerCreate, runReverseServerList,
       runReverseServerRemove, runReverseServerRemoveAll, SendCustom
  <2> QED BY <1>u, <1>n, <1>c, <2>1, <2>2
<1>2. CASE runServerWithJSON(p) \/ runDevicesWithJSON(p) \/ runKillServer(p)
  <2>1. job[p] = NoRequest BY <1>2 DEF runServerWithJSON, runDevicesWithJSON, runKillServer, CanRun
  <2>2. \/ UNCHANGED job
        \/ \E c, code : \E name \in {"ping", "status", "shutdown", "device_list"} :
             Send(p, c, Request(name, None, 0, None, FALSE), code)
    BY <1>2 DEF runServerWithJSON, runDevicesWithJSON, runKillServer, UsageError, runServerDoctorWithJSON, SendCustom
  <2> QED BY <1>u, <1>n, <2>1, <2>2
<1>3. CASE runStartServer(p) \/ runDevices(p) \/ runGetState(p) \/ runReverse(p) \/ connectionLost(p) \/ deadline(p)
  BY <1>3, <1>u DEF runStartServer, runDevices, runGetState, runReverse, connectionLost, deadline
<1>4. CASE ensureServer(p)
  <2>1. job[p] = NoRequest BY <1>4 DEF ensureServer, IInv, Requests
  <2>2. CASE UNCHANGED job BY <1>u, <2>2
  <2>3. CASE SendNext(p)
    <3>1. CASE \E name \in {"device_list", "list"} : Send(p, client[p], Request(name, None, 0, None, FALSE), 1)
      BY <1>n, <2>1, <3>1
    <3>2. CASE Send(p, client[p], Request("create", client[p].endpoint, 0, client[p].device, client[p].norebind), 1)
      <4>1. /\ client[p].endpoint \in Endpoints \cup {None} /\ client[p].device \in Devices \cup {None}
            /\ client[p].norebind \in BOOLEAN
        BY <1>t DEF CommandType
      <4> QED BY <2>1, <3>2, <4>1, MadeRequest, SendMoves
    <3>3. ASSUME NEW i \in client[p].todo, NEW c, Send(p, c, Request("remove", None, i, None, FALSE), 1) PROVE Moves(p)
      <4>1. i \in 0 .. MaxIds BY <1>i, <1>t DEF CommandType
      <4> QED BY <2>1, <3>3, <4>1, MadeRequest, SendMoves
    <3> QED BY <2>3, <3>1, <3>2, <3>3 DEF SendNext
  <2> QED BY <1>4, <2>2, <2>3 DEF ensureServer, Ready, NoServer
<1> QED BY <1>1, <1>2, <1>3, <1>4 DEF Run, Continue

\* RInv holds before there is a server.
LEMMA InitRequests == Init => RInv
<1> SUFFICES ASSUME Init PROVE RInv OBVIOUS
<1>1. \A p \in Clients : job[p].name = "none" BY NoRequestType DEF Init
<1> QED BY <1>1 DEF Init, RInv, Creating

\* One request moves and the others stay.
LEMMA MoveRequests ==
    ASSUME IInv, RInv, NEW p \in Clients, Moves(p), \A q \in Clients \ {p} : job'[q] = job[q], up',
           nextID' \in {nextID, nextID + 1}
    PROVE  RInv'
<1>t. nextID \in Nat /\ \A q \in Clients : job[q].id \in Nat
  BY CommandsAssumption DEF IInv, TypeOK, Requests, RequestType
<1>r. \A q \in Clients :
        /\ job[q].name = "device_list" => job[q].step = "handle"
        /\ job[q].name = "create" /\ job[q].step \in {"handle", "setup"} => job[q].id = 0
        /\ Creating(q) => job[q].id <= nextID
        /\ \A o \in Clients \ {q} : Creating(q) /\ Creating(o) /\ job[q].id = job[o].id => job[q].id = 0
  BY DEF RInv
<1>n. NoRequest.name = "none" /\ NoRequest.step = "unsent" BY NoRequestType
<1>1. /\ job'[p].name = "device_list" => job'[p].step = "handle"
      /\ job'[p].name = "create" /\ job'[p].step \in {"handle", "setup"} => job'[p].id = 0
  BY <1>r, <1>n DEF Moves
<1>2. Creating(p)' => \/ Creating(p) /\ job'[p].id = job[p].id
                      \/ job'[p].id = 0
                      \/ job'[p].id = nextID + 1 /\ nextID' = nextID + 1
  BY <1>r, <1>n DEF Moves, Creating
<1>3. \A q \in Clients \ {p} : job'[q] = job[q] /\ (Creating(q)' <=> Creating(q)) BY DEF Creating
<1>4. \A q \in Clients : Creating(q)' => job'[q].id <= nextID'
  <2>1. ASSUME NEW q \in Clients, Creating(q)', job'[q].id = job[q].id, Creating(q) PROVE job'[q].id <= nextID'
    <3>1. PICK a \in Nat, b \in Nat : a = job[q].id /\ b = nextID BY <1>t
    <3>2. a <= b BY <2>1, <3>1, <1>r
    <3> QED BY <2>1, <3>1, <3>2
  <2>2. Creating(p)' => job'[p].id <= nextID' BY <1>2, <1>t, <2>1
  <2>3. ASSUME NEW q \in Clients \ {p}, Creating(q)' PROVE job'[q].id <= nextID' BY <1>3, <2>1, <2>3
  <2> QED BY <2>2, <2>3
<1>5. ASSUME NEW q \in Clients \ {p}, Creating(q)', Creating(p)', job'[p].id = job'[q].id PROVE job'[p].id = 0
  <2>1. Creating(q) /\ job'[q].id = job[q].id BY <1>3, <1>5
  <2>2. job[q].id <= nextID /\ job[q].id \in Nat BY <1>r, <1>t, <2>1
  <2>3. job'[q].id # nextID + 1 BY <1>t, <2>1, <2>2
  <2>4. CASE Creating(p) /\ job'[p].id = job[p].id BY <1>5, <1>r, <2>1, <2>4
  <2> QED BY <1>2, <1>5, <2>3, <2>4
<1>6. \A q \in Clients : \A o \in Clients \ {q} : Creating(q)' /\ Creating(o)' /\ job'[q].id = job'[o].id => job'[q].id = 0
  <2>1. ASSUME NEW q \in Clients \ {p}, NEW o \in Clients \ {p}, o # q, Creating(q)', Creating(o)', job'[q].id = job'[o].id
        PROVE  job'[q].id = 0
    BY <1>3, <1>r, <2>1
  <2> QED BY <1>5, <2>1
<1>7. \A q \in Clients \ {p} : /\ job'[q].name = "device_list" => job'[q].step = "handle"
                               /\ job'[q].name = "create" /\ job'[q].step \in {"handle", "setup"} => job'[q].id = 0
  BY <1>r, <1>3
<1> QED BY <1>1, <1>4, <1>6, <1>7 DEF RInv

\* What a step does to the ids handed out.
LEMMA NextIds ==
    ASSUME IInv, NEW p \in Clients, Serve(p) \/ Run(p) \/ Continue(p)
    PROVE  \/ nextID' \in {nextID, nextID + 1} /\ UNCHANGED up
           \/ Gone
<1>1. CASE Run(p) \/ Continue(p)
  BY <1>1 DEF Run, runForwardWithOptions, runReverseWithOptions, runServerWithJSON, runDevicesWithJSON, runStartServer,
       runKillServer, runDevices, runGetState, runReverse, Continue, ensureServer, connectionLost, deadline,
       serverVars, registryVars, processVars
<1>2. CASE Serve(p) /\ ~shutDown(p) /\ ~setUp(p)
  BY <1>2 DEF Serve, handlePing, handleStatus, handleDeviceList, handleShutdown, handleList, handleRemove,
       validateForwardCreateParams, validateReverseCreateParams, handleRemoveAll, handleCreate, publish,
       serverVars, registryVars, processVars
<1>3. CASE setUp(p) BY <1>3 DEF setUp, nextId, processVars
<1>4. CASE shutDown(p) BY <1>4 DEF shutDown
<1> QED BY <1>1, <1>2, <1>3, <1>4

\* A server that goes leaves nothing.
LEMMA GoneRequests == ASSUME Gone PROVE RInv'
<1>1. \A p \in Clients : job'[p].name = "none" BY NoRequestType DEF Gone
<1>2. nextID' = 0 BY DEF Gone
<1> QED BY <1>1, <1>2 DEF RInv, Creating

\* A step of a shell keeps RInv.
LEMMA ShellRequests == ASSUME IInv, RInv, NEW p \in Clients, Serve(p) \/ Run(p) \/ Continue(p) PROVE RInv'
<1>1. CASE Gone BY <1>1, GoneRequests
<1>2. CASE nextID' \in {nextID, nextID + 1} /\ UNCHANGED up /\ up
  <2>1. Moves(p) BY <1>2, ServeMoves, RunMoves
  <2>2. \A q \in Clients \ {p} : job'[q] = job[q] BY <1>2, OwnRequest
  <2> QED BY <1>2, <2>1, <2>2, MoveRequests
<1>3. CASE UNCHANGED up /\ ~up
  <2>1. \A q \in Clients : job[q] = NoRequest BY <1>3 DEF IInv, TypeOK
  <2>2. ~Serve(p) BY <1>3 DEF Serve, At, handlePing, handleStatus, handleDeviceList, handleShutdown, handleList, handleRemove,
       validateForwardCreateParams, validateReverseCreateParams, handleRemoveAll, handleCreate, publish, setUp, shutDown
  <2>3. UNCHANGED nextID
    BY <2>2 DEF Run, runForwardWithOptions, runReverseWithOptions, runServerWithJSON, runDevicesWithJSON, runStartServer,
       runKillServer, runDevices, runGetState, runReverse, Continue, ensureServer, connectionLost, deadline,
       serverVars, registryVars
  <2>4. IInv' BY <2>2, RunInv, ContinueInv
  <2>5. \A q \in Clients : job'[q].name = "none" BY <1>3, <2>4, NoRequestType DEF IInv, TypeOK
  <2> QED BY <1>3, <2>3, <2>5 DEF RInv, Creating
<1> QED BY <1>1, <1>2, <1>3, NextIds

\* So does every other step.
LEMMA NextRequests == ASSUME IInv, RInv, [Next]_vars PROVE RInv'
<1>1. CASE serverDies BY <1>1, GoneRequests DEF serverDies
<1>2. CASE becomeReady \/ (\E d \in Devices : register(d)) \/ UNCHANGED vars
  <2>1. UNCHANGED <<job, nextID>> /\ (~up' => ~up)
    BY <1>2 DEF becomeReady, register, vars, serverVars, registryVars, processVars
  <2> QED BY <2>1 DEF RInv, Creating
<1> QED BY <1>1, <1>2, ShellRequests DEF Next

-----------------------------------------------------------------------------
(* The table.                                                              *)

\* An endpoint is free if nothing is listed under it.
LEMMA ListedUsed ==
    ASSUME IInv
    PROVE  /\ \A e \in Endpoints : Listed[e] = table[e].id
           /\ \A e \in Endpoints : Used(e) <=> Listed[e] # 0
<1>1. \A e \in Endpoints : Listed[e] = table[e].id BY DEF Listed
<1>2. NoMapping.id = 0 BY DEF NoMapping
<1>3. \A e \in Endpoints : Used(e) => table[e].id \in 1 .. nextID BY DEF IInv, OneListing
<1>4. nextID \in Nat BY CommandsAssumption DEF IInv, TypeOK
<1> QED BY <1>1, <1>2, <1>3, <1>4 DEF Used

\* Removals take endpoints out of the table.
LEMMA WithoutWithdraws ==
    ASSUME IInv, NEW rows \in SUBSET Rows, table' = Without(rows), UNCHANGED Spent
    PROVE  Table!Next
<1>1. PICK keys \in SUBSET Endpoints : keys = {e \in Endpoints : \E r \in rows : r.endpoint = e} OBVIOUS
<1>2. NoMapping.id = 0 BY DEF NoMapping
<1>3. \A e \in Endpoints : table'[e] = IF e \in keys THEN NoMapping ELSE table[e] BY <1>1 DEF Without
<1>4. Listed' = [e \in Endpoints |-> IF e \in keys THEN 0 ELSE Listed[e]] BY <1>2, <1>3 DEF Listed
<1>5. Table!Withdraw(keys) BY <1>4 DEF Table!Withdraw
<1> QED BY <1>5 DEF Table!Next

\* The table and the ids in the hands of creates stay.
LEMMA TableStays ==
    ASSUME UNCHANGED nextID,
           \A p \in Clients : \A i \in 1 .. nextID : Creating(p)' /\ job'[p].id = i <=> Creating(p) /\ job[p].id = i
    PROVE  UNCHANGED Spent
  BY DEF Spent

\* A request that has no id moves: no id is spent or handed out by it.
LEMMA NoIdSpent ==
    ASSUME IInv, RInv, NEW p \in Clients, Moves(p), \A q \in Clients \ {p} : job'[q] = job[q], UNCHANGED nextID,
           job[p].step = "publish" => Creating(p)' /\ job'[p].id = job[p].id, job[p].step # "stuck" \/ job'[p] = job[p]
    PROVE  UNCHANGED Spent
<1>t. nextID \in Nat BY CommandsAssumption DEF IInv, TypeOK
<1>n. NoRequest.name = "none" /\ NoRequest.step = "unsent" BY NoRequestType
<1>1. ASSUME NEW i \in 1 .. nextID PROVE Creating(p)' /\ job'[p].id = i <=> Creating(p) /\ job[p].id = i
  <2>1. i # 0 BY <1>t
  <2>2. CASE job'[p] = job[p] BY <2>2 DEF Creating
  <2>3. CASE job[p].step \notin {"publish", "stuck"}
    BY <1>n, <1>t, <2>1, <2>3 DEF Moves, Creating, RInv
  <2>4. CASE job[p].step = "publish" /\ job'[p] # job[p]
    <3>1. job[p].name = "create" BY <1>n, <2>4 DEF Moves, Creating
    <3> QED BY <2>4, <3>1 DEF Creating
  <2> QED BY <2>2, <2>3, <2>4
<1>2. \A q \in Clients \ {p} : \A i \in 1 .. nextID : Creating(q)' /\ job'[q].id = i <=> Creating(q) /\ job[q].id = i
  BY DEF Creating
<1> QED BY <1>1, <1>2, TableStays

\* A create that ends spends its id.
LEMMA IdSpent ==
    ASSUME IInv, RInv, NEW p \in Clients, NEW n, n = job[p].id, job[p].step = "publish", job[p].name = "create",
           job'[p] = NoRequest, \A q \in Clients \ {p} : job'[q] = job[q], UNCHANGED nextID
    PROVE  n \in Ids \ Spent /\ Spent' = Spent \cup {n}
<1>t. nextID \in Nat /\ MaxIds \in Nat /\ nextID <= MaxIds BY CommandsAssumption DEF IInv, TypeOK
<1>1. n \in 1 .. nextID BY DEF IInv, OneListing, Publishing
<1>2. n \in Ids BY <1>1, <1>t DEF Ids
<1>3. Creating(p) BY DEF Creating
<1>4. n \notin Spent BY <1>3 DEF Spent
<1>5. ~Creating(p)' BY NoRequestType DEF Creating
<1>6. \A q \in Clients \ {p} : (Creating(q)' <=> Creating(q)) /\ job'[q].id = job[q].id BY DEF Creating
<1>7. \A q \in Clients \ {p} : Creating(q) => job[q].id # n BY <1>1, <1>3, <1>t DEF RInv
<1>8. \A i \in 1 .. nextID :
        (\A q \in Clients : Creating(q)' => job'[q].id # i) <=> i = n \/ (\A q \in Clients : Creating(q) => job[q].id # i)
  <2> SUFFICES ASSUME NEW i \in 1 .. nextID
               PROVE  (\A q \in Clients : Creating(q)' => job'[q].id # i)
                      <=> i = n \/ (\A q \in Clients : Creating(q) => job[q].id # i)
    OBVIOUS
  <2>1. CASE i = n BY <1>5, <1>6, <1>7, <2>1
  <2>2. CASE i # n BY <1>3, <1>5, <1>6, <2>2
  <2> QED BY <2>1, <2>2
<1>9. Spent' = Spent \cup {n} BY <1>1, <1>8 DEF Spent
<1> QED BY <1>2, <1>4, <1>9

\* The steps in which a create gets an id, with which it goes on or fails.
LEMMA SetUpTable == ASSUME IInv, RInv, NEW p \in Clients, setUp(p), up' PROVE TableStep
<1>t. nextID \in Nat /\ job \in [Clients -> RequestType] BY CommandsAssumption DEF IInv, TypeOK, Requests
<1>m. Moves(p) /\ \A q \in Clients \ {p} : job'[q] = job[q] BY ServeMoves, OwnRequest DEF Serve
<1>0. job[p].step = "setup" /\ job[p].name = "create" /\ UNCHANGED table BY DEF setUp, At
<1>l. UNCHANGED Listed BY <1>0 DEF Listed
<1>c. \A q \in Clients \ {p} : (Creating(q)' <=> Creating(q)) /\ job'[q].id = job[q].id BY <1>m DEF Creating
<1>d. ~Creating(p) /\ \A q \in Clients : Creating(q) => job[q].id \in 0 .. nextID
  BY <1>0, <1>t DEF Creating, RInv, RequestType
<1>1. CASE UNCHANGED nextID
  <2>1. UNCHANGED Spent BY <1>0, <1>1, <1>m, NoIdSpent
  <2> QED BY <1>l, <2>1 DEF TableStep
<1>2. CASE Refuse(p) /\ nextID' = nextID + 1 /\ nextID' \in Ids
  <2>1. job'[p] = NoRequest BY <1>2, <1>t DEF Refuse, Answer
  <2>2. ~Creating(p)' BY <2>1, NoRequestType DEF Creating
  <2>3. PICK n \in Ids : n = nextID + 1 BY <1>2
  <2>4. \A i : i \in 1 .. nextID' <=> i \in 1 .. nextID \/ i = n BY <1>2, <1>t, <2>3
  <2>5. \A q \in Clients : Creating(q)' => job'[q].id # n BY <1>c, <1>d, <1>t, <2>2, <2>3
  <2>6. n \notin Spent BY <1>t, <2>3 DEF Spent
  <2>7. Spent' = Spent \cup {n} BY <1>c, <1>d, <2>2, <2>4, <2>5 DEF Spent
  <2>8. Table!Discard(n) BY <1>l, <2>7 DEF Table!Discard
  <2> QED BY <2>6, <2>8 DEF TableStep, Table!Next
<1>3. CASE nextID' = nextID + 1 /\ job' = [job EXCEPT ![p].id = nextId, ![p].step = "publish"]
  <2>1. job[p] \in RequestType BY <1>t
  <2>2. job'[p].name = "create" /\ job'[p].step = "publish" /\ job'[p].id = nextID + 1
    BY <1>0, <1>3, <2>1, <1>t DEF RequestType, nextId
  <2>3. Creating(p)' BY <2>2 DEF Creating
  <2>4. \A i : i \in 1 .. nextID' <=> i \in 1 .. nextID \/ i = nextID + 1 BY <1>3, <1>t
  <2>5. \A i \in 1 .. nextID : i # nextID + 1 BY <1>t
  <2>6. UNCHANGED Spent BY <1>c, <1>d, <2>2, <2>3, <2>4, <2>5 DEF Spent
  <2> QED BY <1>l, <2>6 DEF TableStep
<1> QED BY <1>1, <1>2, <1>3 DEF setUp, nextId

\* The step in which a create lists its mapping.
LEMMA PublishTable == ASSUME IInv, RInv, NEW p \in Clients, publish(p), up' PROVE TableStep
<1>t. TypeOK /\ job \in [Clients -> RequestType] BY DEF IInv, Requests
<1>m. Moves(p) /\ \A q \in Clients \ {p} : job'[q] = job[q] BY ServeMoves, OwnRequest DEF Serve
<1>0. job[p].step = "publish" /\ job[p].name = "create" /\ UNCHANGED nextID BY DEF publish, At
<1>a. ASSUME NEW commands, Answer(p, commands) PROVE job'[p] = NoRequest BY <1>a, <1>t DEF Answer
<1>n. PICK n : n = job[p].id OBVIOUS
<1>s. job'[p] = NoRequest => n \in Ids \ Spent /\ Spent' = Spent \cup {n} BY <1>0, <1>m, <1>n, IdSpent
<1>d. ASSUME job'[p] = NoRequest, UNCHANGED table PROVE TableStep
  <2>1. UNCHANGED Listed BY <1>d DEF Listed
  <2>2. Table!Discard(n) BY <1>s, <1>d, <2>1 DEF Table!Discard
  <2> QED BY <1>s, <1>d, <2>2 DEF TableStep, Table!Next
<1>1. CASE Refuse(p) /\ UNCHANGED table BY <1>1, <1>a, <1>d DEF Refuse
<1>2. CASE NeverReturns(p, Existing(p))
  <2>1. PICK some \in SUBSET Existing(p) : table' = Without(some) BY <1>2 DEF NeverReturns
  <2>2. some \in SUBSET Rows BY DEF Existing
  <2>3. job'[p].name = "create" /\ job'[p].id = job[p].id /\ job'[p].step = "stuck" BY <1>0, <1>2, LabelOnly DEF NeverReturns, Step
  <2>4. Creating(p)' BY <2>3 DEF Creating
  <2>5. UNCHANGED Spent BY <1>0, <1>m, <2>3, <2>4, NoIdSpent
  <2> QED BY <2>1, <2>2, <2>5, WithoutWithdraws DEF TableStep
<1>3. CASE table' = Listing(p) /\ Answer(p, {Ended(0)})
  <2>1. job'[p] = NoRequest BY <1>3, <1>a
  <2>2. CASE job[p].endpoint \notin Endpoints
    <3>1. UNCHANGED table BY <1>3, <1>t, <2>2 DEF Listing, TypeOK
    <3> QED BY <1>d, <2>1, <3>1
  <2>3. CASE job[p].endpoint \in Endpoints
    <3>1. PICK e \in Endpoints : e = job[p].endpoint BY <2>3
    <3>2. table'[e].id = n /\ \A f \in Endpoints \ {e} : table'[f] = table[f]
      BY <1>3, <1>t, <1>n, <3>1 DEF Listing, TypeOK
    <3>3. Listed' = [Listed EXCEPT ![e] = n]
      <4>1. Listed'[e] = n /\ \A f \in Endpoints \ {e} : Listed'[f] = Listed[f] BY <3>2 DEF Listed
      <4> QED BY <4>1 DEF Listed
    <3>4. CASE Listed[e] = 0
      <4>1. Table!Publish(e, n) BY <1>s, <2>1, <3>3, <3>4 DEF Table!Publish
      <4> QED BY <1>s, <2>1, <4>1 DEF TableStep, Table!Next
    <3>5. CASE Listed[e] # 0
      <4>1. Rebind(e, n) BY <1>s, <2>1, <3>3, <3>5 DEF Rebind
      <4> QED BY <1>s, <2>1, <4>1 DEF TableStep
    <3> QED BY <3>4, <3>5
  <2> QED BY <2>2, <2>3
<1> QED BY <1>1, <1>2, <1>3 DEF publish

\* The other steps of the server: lookups and removals.
LEMMA ServeTable == ASSUME IInv, RInv, NEW p \in Clients, Serve(p), up' PROVE TableStep
<1>t. TypeOK BY DEF IInv
<1>m. Moves(p) /\ \A q \in Clients \ {p} : job'[q] = job[q] BY ServeMoves, OwnRequest
<1>1. CASE \/ handlePing(p) \/ handleStatus(p) \/ handleDeviceList(p) \/ handleShutdown(p) \/ handleList(p)
           \/ validateForwardCreateParams(p) \/ validateReverseCreateParams(p)
  <2>1. job[p].step = "handle" /\ UNCHANGED <<table, nextID>>
    BY <1>1 DEF handlePing, handleStatus, handleDeviceList, handleShutdown, handleList, validateForwardCreateParams,
       validateReverseCreateParams, At, serverVars, registryVars
  <2>2. UNCHANGED Spent BY <1>m, <2>1, NoIdSpent
  <2> QED BY <2>1, <2>2 DEF TableStep, Listed
<1>2. CASE handleRemove(p) \/ handleRemoveAll(p) \/ handleCreate(p)
  <2>1. job[p].step = "handle" /\ UNCHANGED nextID BY <1>2 DEF handleRemove, handleRemoveAll, handleCreate, At
  <2>2. UNCHANGED Spent BY <1>m, <2>1, NoIdSpent
  <2>3. Empty = Without(Rows)
    <3>1. \A e \in Endpoints : Used(e) <=> \E r \in Rows : r.endpoint = e BY RowsUsed
    <3> QED BY <3>1 DEF Empty, Without, Used
  <2>4. Named(p) \in SUBSET Rows /\ Existing(p) \in SUBSET Rows /\ Rows \in SUBSET Rows BY DEF Named, Existing
  <2>5. UNCHANGED table \/ \E rows \in SUBSET Rows : table' = Without(rows)
    BY <1>2, <2>3, <2>4 DEF handleRemove, handleRemoveAll, handleCreate, NeverReturns
  <2>6. CASE UNCHANGED table BY <2>2, <2>6 DEF TableStep, Listed
  <2> QED BY <2>2, <2>5, <2>6, WithoutWithdraws DEF TableStep
<1>3. ~shutDown(p) BY DEF shutDown, Gone
<1> QED BY <1>1, <1>2, <1>3, SetUpTable, PublishTable DEF Serve

\* Every step of the commands, while there is a server, is a step of its table.
LEMMA StepTable == ASSUME IInv, RInv, [Next]_vars, up, up' PROVE TableStep
<1>1. ASSUME UNCHANGED <<table, nextID, job>> PROVE TableStep
  <2>1. UNCHANGED Listed BY <1>1 DEF Listed
  <2>2. UNCHANGED Spent BY <1>1 DEF Spent, Creating
  <2> QED BY <2>1, <2>2 DEF TableStep
<1>2. CASE becomeReady \/ serverDies \/ (\E d \in Devices : register(d)) \/ UNCHANGED vars
  <2>1. ~becomeReady /\ ~serverDies BY DEF becomeReady, serverDies, Gone
  <2> QED BY <1>1, <1>2, <2>1 DEF register, vars, serverVars, registryVars
<1>3. ASSUME NEW p \in Clients, Run(p) \/ Continue(p) PROVE TableStep
  <2>1. UNCHANGED <<table, nextID>>
    BY <1>3 DEF Run, runForwardWithOptions, runReverseWithOptions, runServerWithJSON, runDevicesWithJSON, runStartServer,
       runKillServer, runDevices, runGetState, runReverse, Continue, ensureServer, connectionLost, deadline,
       serverVars, registryVars
  <2>2. CASE UNCHANGED job BY <1>1, <2>1, <2>2
  <2>3. CASE job[p] = NoRequest
    <3>1. Moves(p) /\ \A q \in Clients \ {p} : job'[q] = job[q] BY <1>3, RunMoves, OwnRequest
    <3>2. UNCHANGED Spent BY <2>1, <2>3, <3>1, NoIdSpent, NoRequestType
    <3> QED BY <2>1, <3>2 DEF TableStep, Listed
  <2>4. job[p] = NoRequest \/ UNCHANGED job
    BY <1>3 DEF IInv, Requests, Run, runForwardWithOptions, runReverseWithOptions, runServerWithJSON, runDevicesWithJSON,
       runStartServer, runKillServer, runDevices, runGetState, runReverse, CanRun, Continue, ensureServer, connectionLost,
       deadline
  <2> QED BY <2>2, <2>3, <2>4
<1> QED BY <1>2, <1>3, ServeTable DEF Next

\* A server starts with an empty table of which no id is spent.
LEMMA NoServerNoTable == IInv /\ RInv => (~up => Table!Init)
<1> SUFFICES ASSUME IInv, RInv, ~up PROVE Table!Init OBVIOUS
<1>1. Rows = {} /\ nextID = 0 BY DEF IInv, TypeOK, RInv
<1>2. \A e \in Endpoints : ~Used(e) BY <1>1, RowsUsed
<1>3. \A e \in Endpoints : Listed[e] = 0 BY <1>2, ListedUsed
<1>4. Listed = [e \in Endpoints |-> 0] BY <1>3 DEF Listed
<1>5. Spent = {} BY <1>1 DEF Spent
<1> QED BY <1>4, <1>5 DEF Table!Init

\* The table of ServerCommands is the one the registries promise (MappingTable), from the start of
\* each server to its end: a create lists a fresh id under a free endpoint, or takes the place of
\* the mapping there under one hold of the mutex (create without norebind), a listed mapping goes
\* only by being removed, and no id is used twice.
THEOREM CommandsKeepTable == Spec => [](~up => Table!Init) /\ [][up /\ up' => TableStep]_vars
<1>1. IInv /\ RInv /\ [Next]_vars => RInv' BY NextRequests
<1>2. IInv /\ RInv /\ [Next]_vars => [up /\ up' => TableStep]_vars BY StepTable
<1> QED BY <1>1, <1>2, InitRequests, NoServerNoTable, CommandsInvariant, PTL DEF Spec
==============================================================================

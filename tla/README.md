# A TLA+ model of adb-go

adb-go is a Go implementation of the host side of ADB: a client library
(`adb.go`, `client/`), the wire protocol (`protocol/`, `auth/`), a USB transport
(`internal/usb/`), a command line tool (`cmd/adb-go`) and a background server
(`cmd/adb-gos`, `internal/server/`) that keeps port forwards alive between
invocations of the tool.

This directory models the parts that keep state and run concurrently, checks
them with TLC on small instances and proves their main invariants with TLAPS for
every instance. Paths below are relative to the root of the repository, and
`PROJECT.json` maps every definition to the lines it stands for.

## 1. Inventory

| part | state | operations | what makes it correct |
|---|---|---|---|
| stream layer, `protocol/stream.go`, `Close` of `connection.go` | `streams`, `nextLocalID`, `openHandlers`, `readerErr`; per stream `remoteID`, `openCh`, `dataCh`, `buf`, `closed`, `err` | `OpenContext`, `Read`, `Write`, `Close`, `HandleOpen`, `RemoveOpenHandler`, `readLoop`, `closeAllStreams`, `Connection.Close` | bytes arrive in order; EOF means complete; each stream is closed exactly once; nobody who waits is forgotten |
| framing, `protocol/message.go` | `writeMu`; header and payload are two writes | `ReadMessage`, `WriteMessage`, `writeFull` | the device never takes one message for a part of another |
| handshake, `protocol/connection.go` | `credentialIndex`, `publicKeyOffered`, the goroutine of `closeOnCancel` | `HandshakeWithOptions` | each key is tried once; a connect ends, and one that fails leaves no connection |
| auth, `auth/auth.go` | none | key parsing, signing | cryptography |
| client, `client/client.go`, `transport.go` | one `Connection` | `ConnectTCP`, `ConnectUSB`, `OpenService`, `Shell`, `Close` | cancellation unblocks; nothing leaks on failure |
| process-scoped forwards, `client/forward.go` | `closed`, `active`, `bridgeWG`, `done` | `ForwardLocalTCP`, `acceptLoop`, `handleConn`, `Close`, `Wait` | `Close` leaves no bridge, `Wait` means idle, Ctrl+C ends |
| process-scoped reverses, `client/reverse.go` | `closed`, `active`, `activeBridges`, callbacks, `done` | `ReverseTCPWithOptions`, `handleStream`, `Close` | one killforward; a closed session is idle |
| sync, install, `client/sync.go`, `install.go` | position in the transfer, the local destination, the remote file | `PushFile`, `PullFileWithOptions`, `InstallAPKWithOptions` | success means all of it; nothing else is overwritten; the temporary APK is removed |
| queries, `client/properties.go`, `screencap.go`, ... | a file, for screenshots | one command each | as above; parsing |
| scan, `client/tcp_scan.go` | pool of workers | `ScanTCP` | every address is tried, cancellation ends the pool |
| USB, `internal/usb/` | descriptor, mutex, pending bytes | bulk `Read`, `Write`, `Close`, discovery | closing does not wait for a transfer |
| background forwards, `internal/server/forward_registry.go` | `byID`, `byLocal`, entries with `listener` and `active` | `create`, `remove`, `removeAll`, `acceptAndBridge`, `bridge`, `record*`, `diagnostics` | indexes agree; listed forwards listen; no listener or connection leaks |
| background reverses, `internal/server/reverse_registry.go` | `byID`, `byRemote`, entries with a session | `create`, `remove`, `removeAll`, callbacks | as above, and removal returns |
| server lifecycle, `server_unix.go`, `cmd/adb-gos/main.go` | listener, `shutdownOnce`, `done`, the socket path | `Listen`, `Serve`, `handleConn`, `Shutdown` | one server owns the path; shutdown ends; a crash does not block the next start |
| device registry, `internal/server/device.go` | a map | `register`, `list` | no concurrent use of the map |
| control protocol and commands, `internal/server`, `cmd/adb-go/internal/custom`, `compat` | per command: the request it waits for, ids from an earlier listing; per server: the tables of mappings and devices | `forward`, `reverse`, `server`, `devices`, `doctor` of adb-go; `adb reverse`, `start-server`, `kill-server`, `devices`, `get-state` | a removal is final; no command costs a mapping it is not for |
| systemd service, `cmd/adb-go/internal/custom/systemd.go` | the unit file, what the manager has loaded, enabled and runs | `server service install`, `reinstall`, `uninstall`, `start`, `stop`, `restart` | a command that succeeds has taken effect whatever failed before |
| command-line parsing, facade, fake device | none of their own | | |

How the parts interact:

- Every user of a connection calls the stream layer from goroutines of its own;
  the one goroutine in `readLoop` delivers to all of them. The shared state is
  under `c.mu` and each stream's `mu`, and channels (`openCh`, `dataCh`) carry
  answers and data from the reader to the callers.
- The server runs one goroutine per control request; requests meet in the two
  registries under `r.mu`, which `create` releases while it does I/O.
- A background forward owns a listener, a goroutine that accepts and one that
  bridges per connection, each with an ADB client of its own. A background
  reverse owns an ADB client and a `client.Reverse`, whose goroutines call back
  into the registry.
- `main` ends the process when `Serve` returns, whatever other goroutines do.
- A command of the tool is a process of its own. It pings the server, starts one if
  there is none, and sends a request with a deadline of 2 s (the server's own set-up
  of a mapping may take 10). The commands that are compatible with `adb` need several
  requests, and use ids that a former one has listed.
- systemd runs the server that the service commands have installed, and starts it
  again when it fails, beside servers that other commands start at the same socket.

The behaviours that are hard to test, each at its line, are the `hazards` of
`PROJECT.json`. They are of five kinds: a lookup used after its lock was
released (stream looked up and closed, entry looked up and removed); work that a
removal cannot see yet (a connection between `Accept` and `addActive`, a client
between dial and `setClient`); waiting with a lock held (`removeLocked`, a USB transfer, a write under `writeMu`);
processes that share one socket path; and commands of several requests or steps,
with other commands, failures and restarts in between.

## 2. Modules

| module | models | proofs |
|---|---|---|
| `Connection` | the stream layer, with the device and the transport as environment | `ConnectionProofs` |
| `ForwardRegistry` | the background forwards, with the operating system's ports and the host programs as environment | `ForwardRegistryProofs`, `ForwardBridgeProofs` |
| `ReverseRegistry` | the background reverses composed with the `client.Reverse` session of each entry, with the devices' tables as environment | `ReverseRegistryProofs` |
| `ServerLifecycle` | any number of server processes on one socket path, from `Listen` to the exit of `main` | `ServerLifecycleProofs` |
| `ClientSession` | one `client.Client`: dial, handshake, shell, pull, push, install, screencap, reboot and their cancellation, with the device and other programs as environment | in `ForegroundForwardProofs` |
| `ForegroundForward` | `adb-go forward` without a server: `ClientSession` for the connection, a `client.Forward` on it, the framing of messages under `writeMu` and the mutex of the USB transport | `ForegroundForwardProofs` |
| `MappingTable` | abstract: what a registry promises, a table from endpoints to ids that are never listed twice; `ForwardRegistry` and `ReverseRegistry` implement it (`ImplementsTable`), and the tables of `ServerCommands` keep to it | in `ForwardRegistryProofs`, `ReverseRegistryProofs` and `ServerCommandsProofs` |
| `StreamPipe` | abstract: what a stream promises to the goroutine that reads it, the bytes the far end wrote, in order and once, then io.EOF if it is done or an error if the stream was cut; `Connection` implements it (`ImplementsPipe`) | in `ConnectionProofs` |
| `ServerCommands` | commands in several shells and the goroutines that serve their requests, with a table of mappings in the server | `ServerCommandsProofs` |
| `SystemdService` | the service commands and systemd's user manager, composed with `ServerCommands` | `SystemdServiceProofs` |

Each has an `MC` module that declares model values and definitions for TLC. A
definition with a lower case first letter is the function of that
name in the code, or one of its halves where the function unlocks or blocks in
between. Definitions introduced by "Mutant:" are variations of the one that
follows, each a plausible slip in that function; a property is kept only if such
a slip breaks it.

### Connection

`Threads` are goroutines that call the package; `Reader` runs `readLoop`. A
step is one critical section, one channel operation or one packet written under
`writeMu`. So `Stream.Close` is three steps (detach the stream from
`c.streams`; mark it closed and close `dataCh`; signal `openCh`), and a WRTE is
handled in three (look the stream up; write OKAY; send on `dataCh`). `todo[p]`
holds the streams goroutine `p` took out of the map and has still to close,
which for `closeAllStreams` is the whole map. `Read` follows the code's two
stages: first `buf`, then a chunk of `dataCh`, then `closed` and `err`.

The device follows the ADB protocol: one unacknowledged WRTE per stream, no CLSE
in answer to a CLSE; it may refuse, close and disappear at any moment. Bytes are
numbered in the order it writes them, which is all that the properties about
data need. Packets are atomic, and writing one to a transport that is gone fails. A
packet that reaches the host damaged fails `ReadMessage`'s test of magic or checksum:
the reader stops then although the transport is up (`readFailed`), and what the program
writes still reaches the device. `Closers` and `Writers` say which goroutines call `Connection.Close` and
on which streams the device writes, to keep an instance small.

`Pipe` maps this to `StreamPipe`, one pipe per id of the host. `Sent` and `Shut` are
read off the device's stream that is joined to it; `read` is what `Read` has returned.
`Cut` tells which streams may end in an error: those that the program closes or has
closed (`OwnClose`), and all of them once nothing more can be read (`Lost`: the transport
is not up, or the reader has given up). A stream that
the device closed is not cut, so an error on it, or an early io.EOF, would be no step
of the pipe.

### ForwardRegistry

`create` is `lookup` (the first critical section), `listen` (`net.Listen`,
without the lock) and `register` (the second one). `Resolve` says which addresses
`net.Listen` may report for a requested one, so that port 0 is covered; `foreign`
are ports other processes hold. `known` records what `setClient` and `setStream`
have stored in the `forwardConn`, which is all that `forwardConn.close` can
close. A bridge's steps are those of `bridge`: dial, store, open, store, record,
two copies, deferred closes, `removeActive`. `net.Listen` may fail for any reason
(`listenError`), and `Accept` too (`acceptFails`), which ends the accept loop.

### ReverseRegistry

`mu` is a variable because `removeLocked` keeps it through all of
`Reverse.Close`, which waits for the bridges of the session, whose callbacks
need it. A closer is a caller or a session's watcher (the goroutine of
`ReverseTCPWithOptions` that waits for the context); both run the same steps of
`Close`: `closed`, the handler, the active bridges, killforward, the wait group. The
context is cancelled one step before a caller gets to `closed`, so the watcher it wakes
may get there first, after a removal as well as in the second lookup of a create with
norebind. `Losses` are the sessions whose ADB connection may be lost.
`table` is what each device listens for. It changes with `forward:` and
`killforward:` requests by whoever sends them, and outlives the ADB connection
that asked for it, because the code relies on an explicit killforward; it is
marked external.

### ServerLifecycle

`Listen` is `lstat`, `ping`, `remove`, `bind`; `Shutdown` is the listener, the
forwards, the reverses, the socket and `done`, in the code's order, in whatever
goroutine calls first. `start` may happen while another process is anywhere in
these steps. `path` tells whose socket is at the path; a crash leaves it there.
Of the registries it keeps the reverses and those a device still listens for, with the
requests that create one, remove one or remove all, and of the
device registry when a request is inside the map: two at once, one of them
writing, end the process as Go's runtime does (`mapRace`).

### ClientSession

The stream layer appears here as `Connection` shows it to be: a stream delivers
what the device wrote, in order, then EOF if the device ended it; once this side
has closed it, or the transport is gone, a part of that and then an error
(`Broken`). The device may stop taking data for good (`deviceStalls`): a write then blocks
with `writeMu` held, and so does a `Stream.Close` that has a CLSE to write, whoever calls
it; reads go on, and only the loss or the close of the transport ends it. `watcher` is the goroutine of `Connection.closeOnCancel`, `cancelCloses`
that of the function of the same name in `client.go`. `pc` names the call an
operation is in; an installation runs three services one after another on
streams of its own (`service` is `sync` at first, `pm` and then `rm`), and what follows
what is `installNext`. Local files are one path with an owner and the chunks written
to it; the device's side of a transfer is `remote` and `installed`.

### ForegroundForward

`command` says whether the process runs one of the operations of `ClientSession` or
a forward; both begin with its connect. A forward has `main` (connect, `Wait`, the
deferred `Close`, the client's `Close`), the `acceptLoop`, the `watch` goroutine that
calls `Close` when the context ends, and per connection the steps of `handleConn`:
open, `addActive` of the host connection and of the stream, two copies, whose
`closeBoth` goes through one `sync.Once`. A message is a header and, for OPEN and
WRTE, a payload, written in two steps with `writeMu` held (`writer`); `due` is what the
device expects next, so that a header which arrives in place of a payload is seen
(`misframed`); `cut` is set when a payload's write fails. Over USB every transfer,
the reader's too, holds the transport's mutex (`BusFree`). A stalled transport keeps a
writer in the middle of its message, and `Close` in front of the streams it has to close.

### ServerCommands

A client is a process of the tool: `ask` is the request it is about to send, `todo`
the ids it has still to remove, `pc` whether it pings, waits or has ended. `job[p]` is
the goroutine that serves its request, which goes on when the client has given up
(`deadline`). A create is looked up, set up and published in three steps, as
`MappingTable` promises of both registries; `registry` chooses, once per behaviour,
which of the two the commands use, as the two share nothing. A removal of a
reverse may hang (`rev_hang` shows how) with the registry's mutex held: `stuck`. The
server may die and be started again any number of times, with an empty table and ids
from 1; `same` is history and tells whether the server whose listing a compat removal
has read is still the one that runs.

### SystemdService

A service command is the list of its steps (write or remove the unit, reload, enable or
disable, start, stop; a restart is a stop and a start); each may fail, which ends the
command where it is, so a restart that fails may leave the service stopped.
`unitFile`, `loaded` and `ran` are the unit on disk, in the manager and in the process;
`done` is history: the last service command that succeeded. The service
competes for the socket with servers that `start-server` starts: the one that comes
second fails and is started again after `RestartSec`.

## 3. Runs

| run | instance | properties |
|---|---|---|
| `conn_accept` | 1 goroutine, 1 stream the device opens, 2 bytes in chunks of 1 or 2, `dataCh` of 1, fair | `TypeOK`, `CloseOnce`, `DeadReaderClosesHeld`, `ImplementsPipe`, `DeadStreamEnds` |
| `conn_open` | 1 goroutine, 2 streams one after or beside the other, 2 bytes on the first, `dataCh` of 1, fair | `OpenSignalled`, `HeldMatchesPeer`, `OpenAnswered` |
| `conn_panic` | 1 goroutine, 1 stream, 1 byte | `NoSendOnClosedChannel` is violated |
| `fwd` | 2 requests at a time, 2 forwards, 2 addresses and port 0, 1 connection, fair | `TypeOK`, `IndexAgrees`, `NoListenerLeak`, `BridgeCleansUp`, `DiagnosticsAddUp`, `BridgesEnd`, `ImplementsTable` |
| `fwd_removed` | 1 forward, 1 connection | `RemovalClosesBridges` is violated |
| `rev` | 2 requests at a time, 2 endpoints, 2 sessions, 1 bridge, 2 creates, the ADB connection of one session may be lost, fair | `TypeOK`, `SessionClosesOnce`, `IndexAgrees`, `NoClientLeak`, `ClosedBridgesUnblock`, `ImplementsTable` |
| `rev_hang` | 1 session, 1 bridge, fair, with a mutex that starves nobody | `RemovalReturns` is violated |
| `srv_life` | 2 processes, 2 requests, fair | `TypeOK`, `SocketOwned`, `ShutdownEnds`, `StaleSocketRecovered` |
| `srv_exit` | 1 process, 1 request | `ShutdownUnregisters` is violated |
| `cli_ops` | 1 operation of any kind, 2 chunks, 3 credentials, another program at the destination; or a forward over TCP or USB with 1 connection; fair | `ForwardTypeOK`, `SuccessMeansDone`, `LeavesNothingBehind`, `NoClobber`, `CallsEnd`, `WaitMeansIdle`, `CloseEndsBridges`, `Framed`, `InterruptEnds` |
| `cli_blocked` | as `cli_ops` | `CancelUnblocks` is violated |
| `commands` | 2 shells, 2 endpoints, 2 devices, 2 ids per server, 2 unit texts, any number of crashes and restarts | `ServiceTypeOK`, `RemovalIsFinal`, `LosesOnlyItsOwn`, `ServiceCommandsTakeEffect` |

**Why the bounds are enough.** Each instance has what the property's shortest
violation under a slip in the code needs, which the mutants of `PROJECT.json`
confirm, and one more where that is affordable. Closing needs one goroutine besides the
reader: any two closers can race, and a third adds only another loser (`CloseOnce`,
`OpenSignalled` and `DeadReaderClosesHeld` are proved for any number).
`dataCh` of capacity 1 (16 in the code) fills at once, so the reader that blocks
on a full channel is reached, in `conn_open` with another goroutine waiting for the
OKAY of its own stream behind it. Two bytes give both a chunk larger than what `Read`
takes and two chunks in a row. Two addresses, port 0 and a foreign listener give
every outcome of `net.Listen`; two forwards give a create that overlaps the removal
or the rebind of what it looked up, and the safety of any number is proved. Two processes give every overlap of a start with a start, a
shutdown or a slow server. Operations of one client share only the transport and
the local path, so one operation, a transport that anybody may close and another
program at the path stand for all of them; two chunks give a transfer that breaks
off before, between and after them. Connections of a foreground forward meet in
`writeMu`, `f.mu` and `active` only, where the reader, `Close` and the watcher
already compete with the one there is. Two shells give one command that comes between
the requests of another; two ids per server, with restarts, give an id that was handed
out, removed and handed out again by the next server. One service command runs at a
time: they are typed by one user, and two at once have no promise to keep. The safety properties with a proof below hold for
every bound; the bounds of the code-sized counters (`MaxOpens`, `MaxForwards`,
`MaxCreates`, ...) are in the guards and named in each module's `CONSTANTS`.
Deadlock is checked for the forward registry. The others may stop: a closed
connection, a session that is gone, processes that have all ended.

**Fairness.** `Connection`: every goroutine that can run does (Go's scheduler),
the program reads what it holds (every user of the package runs `io.Copy` on its
streams) and the device handles what it receives. No fairness is assumed of
calls, closes, failures or what the device starts by itself. `ForwardRegistry`:
the steps of a bridge, and `Accept` once its listener is closed; not the copies,
which end only when a side ends. `ReverseRegistry`: goroutines that can run do, a
copy only once its connections are closed; `rev_hang` assumes more, strong fairness for
steps that take `r.mu`, as `sync.Mutex` does not starve a waiter, so that what it shows
is not starvation. `ServerLifecycle`: main and the body of `Shutdown`,
except `closeReverses`, which may hang. `ClientSession`: the steps of a call and of
the goroutines that watch contexts, timers, and that a device which is not
`silent` answers the handshake; nothing of what the device does afterwards, so a
call may wait for ever unless its context ends. `ForegroundForward`: the steps of its
goroutines, with strong fairness where they wait for `writeMu` or `f.mu`. A write of
either module needs a transport that takes data, so fairness promises nothing of one on a
stalled transport, over TCP or USB, nor of a transfer over USB, which may hold the
transport's mutex for ever. `ServerCommands` and `SystemdService` state no liveness.

## 4. Disagreements with the documents

Five runs show a behaviour that contradicts what a document or comment says
(`findings` in `PROJECT.json` has the quotations).

- `conn_panic`: `receive` sends on `dataCh` without the stream's lock, after the
  lookup. A `Close` in between closes the channel and the send panics.
- `fwd_removed`: a connection accepted before a removal and added to
  `entry.active` after it is bridged, and nothing can close it any more.
- `rev_hang`: `removeLocked` holds `r.mu` while `Close` waits for the bridges; a
  bridge that has already read its callback blocks on `r.mu`. Every later request
  hangs too.
- `srv_exit`: `Shutdown` closes the control listener first, so `Serve` returns,
  `main` returns and the process may end before the reverses are unregistered.
- `cli_blocked`: the device takes no more data and the context of an operation ends
  while it writes. `OpenContext` does not look at its context while it writes the OPEN; a
  `Write` holds `writeMu`, and the `Stream.Close` that `closeOnCancel` calls needs `writeMu`
  for its CLSE before it closes anything. The operation never returns, where
  `docs/init/SPEC.md:100` says that cancellation unblocks writes. `CallsEnd` and
  `InterruptEnds`, which pass, are stated up to this case; over USB an interrupt ends
  even then, as the transport's own watcher closes the descriptor.

Other behaviours that the model shows and no run reports, kept here for whoever
changes this code:

- An `OpenContext` that registers its stream after a dying reader has emptied
  the map is woken by nobody; only its context ends the wait. `OpenAnswered` names this
  opener as its one exception.
- A forward whose `Accept` fails (`forward_registry.go:187-191`) ends its accept loop but
  stays listed as `listening`, with its listener open and nobody to accept;
  `docs/persistent-forwarding-design.md:261-263` says "Listener-level failures move the
  registration to `degraded` or remove it". The state is reached in `fwd` (`acceptFails`),
  and `IndexAgrees` claims only that a listed forward has its listener and was given an
  accept loop.
- A bridge that ends late records `degraded` or `listening` on an entry that a removal
  has stopped or a rebind replaced (`forward_registry.go:250`); nothing reads it.
- `removeLocked` of the forwards closes streams with `r.mu` held, and a device that takes
  no data keeps it there: every later request waits, and the commands that sent them give
  up after their deadline.
- Two overlapping creates for one address report a foreign conflict where
  `docs/persistent-forwarding-design.md:295-298` speaks of an unmanaged process.
- When the watcher wins the race for `Close`, the removal may close the ADB client
  before killforward is sent: the device keeps the listener
  (`docs/reverse-forwarding-design.md:179-180`).
- Two overlapping reverse creates for one endpoint: the removal of the older entry
  sends a killforward that unregisters the newer one (`:173-174`).
- `byRemote` ignores the device, so a create for one device rebinds, or is refused
  by, a reverse of another (`:97-98`).
- `ActiveConnections` of a reverse is computed under one lock and stored under
  another, so the listed number may stay wrong (`client/reverse.go:86-87`).
- A context that ends just as `HandshakeWithOptions` returns can still close the
  connection it returned: `select` may prefer `ctx.Done()` to `stop`
  (`protocol/connection.go:188`).
- A push that fails, or is cancelled before its answer is read, leaves a partial
  or complete file on the device. `InstallAPKWithOptions` removes its temporary
  APK only after a push that succeeded, so `LeavesNothingBehind` starts there.
- A pull that fails leaves a partial local file, on which the next pull without
  `Overwrite` fails; `ScreencapFile` removes its own.
- A create over an endpoint of another device, sent by `adb -s SERIAL reverse`,
  replaces that device's mapping; `docs/reverse-forwarding-design.md:188-191` speaks of
  the selected device only.
- A rebind withdraws the old mapping before the new one is set up; if that fails, the
  endpoint has none.
- A create that the client gave up after 2 s is listed when its set-up succeeds later.
- `tcp:08081` and `tcp:8081` are different keys of the registries.
- Closing a `Client` does not end its forward: `acceptLoop` keeps accepting, and each
  connection is closed when its open fails. `client/README.md:307-308` and `:355` say
  that it ends.
- Over USB the reader waits with the transport's mutex held and no timeout, so an open
  or a write waits until the device sends something.
- After a payload's write has failed, the connection stays in use although the device
  is out of step; `Framed` is stated up to that.
- `server service install` over a running service enables the new unit but does not
  restart the process; only `reinstall` does (`cmd/adb-go/README.md:699`).
- `systemctl stop` sends SIGTERM, and adb-gos handles only `os.Interrupt`: the socket
  stays behind and the reverses stay registered on the devices.
- A service that cannot listen because another server runs is started again every two
  seconds, which stays below systemd's default start limit.
- `client/sync.go:21-24` keeps a DATA packet "comfortably within" the payload
  size, but a full one is 4096 bytes and a header of 8, and `MaxPayload` is 4096.

`SocketOwned` is stated for starts without contention, recorded in `contended`:
two starts that overlap, a start during a shutdown, and a server that does not
answer a ping in 200 ms can all remove the socket of a running server, because
`Lstat`, ping, `Remove` and `Listen` are separate steps.

## 5. Proofs

TLAPS checks these for every value of the constants that meets the modules'
assumptions. All of them (`ConnectionAssumption`, `ForwardAssumption` of two modules,
`ReverseAssumption`, `LifecycleAssumption`, `ClientAssumption`, `CommandsAssumption`,
`UnitsAssumption`) are of two kinds: bounds are naturals, and values with a
meaning of their own are not members of the sets they stand beside (no caller is the
mark of a free mutex, no device is called `any`, no program is the owner `absent`).
TLC evaluates them in every run.

**Connection** (`TypeCorrect`, `InductiveInvariant`, `ClosedAtMostOnce`,
`NoLostWakeup`, `NoOrphanAfterReader`). None of the properties is inductive by
itself. That nothing the program holds is left open after the reader died rests
on a notion of ownership: `Owned(i)` says that stream `i` is registered, closed, or
in the `todo` of a closer. The invariant `IInv` has eleven parts. A registered
stream is open (`RegisteredOpen`); ids not allotted are untouched (`Fresh`); a goroutine
that waits in `OpenContext` has an id of its own, not yet held, and owned
(`Openers`); what is held was answered and is owned (`HeldOwned`); after the dying
reader swapped the map, no registered stream has been answered, so nothing can
become held unowned (`DeadReader`); detached streams are never dropped
(`TodoClosing`). The steps that matter are one lemma each for closing, for the two
ways a stream is created, and for the reader; every other step leaves the
variables of the invariant alone, and `IInvFrame` covers it.

**Connection, the two ends** (`LinkInvariant`, `HeldStreamsJoined`). That a held stream
and one of the device know each other, and no third, depends on what is in flight: an
OKAY fixes `remoteID` long after the device sent it. `LInv` therefore says what every
packet means. An OKAY or a WRTE to the host names two ids that the device has joined; a CLSE
with no id of the device answers an OPEN that was refused, and none is on its way any more;
an OKAY or a WRTE to the device names two ids the host has joined (`ToHost`, `ToPeer`).
Each side asks for a stream once (`AskedOnce`, `OfferedOnce`), and the tables of the two
are injective and never contradict each other (`PeerSide`, `HostSide`). `ReaderAt`
carries this through the steps of `handleStreamMessage`, between which the
program's goroutines run.

**Connection, the data** (`DataInvariant`, `ReadsWhatWasWritten`). `DInv` follows the
bytes of a stream, numbered in the order in which the device writes them. What Read has
returned, `buf` and `dataCh` are one run of them from 1 on (`Queued`). For a stream that
still takes packets, the chunk in readLoop's hands continues that run and those on the
wire continue it to the last byte sent, in order and without overlap or gap (`InOrder`).
That io.EOF means the end needs two facts more: nothing follows a CLSE on its stream
(`LastIsClse`), and a stream is closed without an error only when all that was sent
is in its queue (`CleanEnds`), so that a stream which `Close` cut short, and whose packets
are dropped, cannot look complete. The proof uses `LInv` where the device joins a stream:
nothing was sent on it before. The capacity of `dataCh`, the sizes of chunks and the
number of bytes are arbitrary. `FaithfulDelivery`, which follows, is stated over the state
of `Connection`; no run checks it any more, as `ImplementsPipe` says the same of every
step.

**Every stream is a StreamPipe** (`CloseInvariant`, `PanicNeedsOwnClose`,
`StreamsArePipes`). `DInv` accounts for bytes and for io.EOF. That `Read` fails only on a
stream that was cut needs an invariant about who closes what and why, `CInv`. The error of a
stream is set when it is closed and is the cause its closer carries (`ErrSet`,
`FireErr`); a goroutine of the program closes only in `Stream.Close` or `Connection.Close`
(`ThreadCause`); while it can read from the device the reader closes with an error only a stream
that was refused, which `OpenContext` has not returned (`ReaderCause`, `AbruptCut`). `BInv`
says that nothing is received before it is written, which bounds what a `Deliver`
returns. Every step is then a step of the pipe or a stutter: `Write` is a WRTE of the
device, `Shut` its close, `Cut` a close of the program, the loss of the transport or the
end of the reader,
`Deliver`, `Eof` and `Error` are `Read` (`StepPipe`).

The same invariant bounds the finding of `conn_panic`. A stream closed under a reader that
has looked it up was closed by the program (`FoundClosed`), so `PanicNeedsOwnClose`: the
send on a closed channel needs the program's own `Stream.Close` or `Connection.Close`; a
device that closes streams or goes away does not lead to it.

**ForwardRegistry** (`RegistryTypeCorrect`, `RegistryInvariant`,
`ListedForwardsListen`, `ListenersOwned`, `SecondLookupDead`). The strengthening
needed is that open listeners have distinct addresses, which the operating system
guarantees (`Exclusive`), and that a create between `listen` and `register` owns
its entry alone (`Creating`). From the two follows that the second lookup of `create` never
finds anything: whoever is registered under the address would have to listen on
it. The rebind branch there, which would close the listener just opened, is dead.

**The registry implements MappingTable** (`RegistryImplementsTable`, in
`ForwardRegistryProofs`): every step of `ForwardRegistry` is a `Publish`, a `Withdraw`, a
`Discard` or a stutter of the table `byLocal` with the ids that no create still has in
its hands (`Spent`). That `Publish` finds the address free is `SecondLookupDead`; that its
id is fresh is `Creating`. The lemmas follow the actions: `RemoveWithdraws`,
`RegisterPublishes`, `StutterTable`.

**Bridges of background forwards** (`BridgeInvariant`, `BridgesCleanUp`,
`StatusAddsUp`, in `ForwardBridgeProofs`). A removal can only close what the bridge has
stored by then, so the invariant says at each step of a bridge what exists and is
stored (`Stored`), what the bridge has closed itself on its way out (`Closed`), and
that a connection is in the `active` of its own entry exactly between `addActive` and
`removeActive` (`Accounted`). From it follow that an ended bridge leaves nothing open
and that the summary of `diagnostics` adds up, as the sets it counts are parts of
finite intervals.

**ServerLifecycle** (`LifecycleTypeCorrect`, `LifecycleInvariant`,
`SocketIsOwned`, `DoneClosedOnce`). `Phases` relates where main is to the listener
and the shutdown; without contention, of two live processes one is starting and
the other serves (`Pairs`), nobody serves when a start removes or binds (`Clear`), and
whoever serves owns the path (`Owned`).

**ReverseRegistry** (`ReverseInvariant`, `ReverseTypeCorrect`, `IndexesAgree`,
`ClientsOwned`, `SessionsCloseOnce`, `ReverseImplementsTable`). The mutex is part of
the argument here: `Locked` says that a caller has it exactly while it is in a removal
or indexes a new entry. Under it an entry is either in both indexes or owned by the
one create that has its number (`Creating`); the entry a removal works on is listed no
more and those it has still to remove are (`Removals`), so the id that `ImplementsTable`
withdraws is the one the code removes. `OneCloser` says that past the test of `closed` a session has one
closer, the caller or the watcher, and that until it gets there nobody has sent
killforward; `SessionClosesOnce` follows. The refinement maps the table to `byRemote`
and the spent ids to those handed out which no create holds.

**ServerCommands** (`CommandsInvariant`, `CommandsTypeCorrect`, `RemovalsFinal`,
`CommandsLoseOnlyTheirOwn`, `CommandsKeepTable`). The question is what an id that a command has read from a
listing still means when the command sends it. `OneListing`: ids are handed out once and
listed once. `Settled(i)`: `i` was handed out and no create is still about to publish
it, so that once it is not listed it never will be. `Tracking`: as long as the server is the
one that was asked (`same`), the ids a command has still to remove are settled and, where
listed, listed for what the command is about, and those it is done with are not listed.
`Requests` says that a shell waits for one request at a time.

`RInv` says that no two creates under way
have an id in common, which `CommandsKeepTable` needs: from the start of a server to its
end, every step of any number of commands takes its table through a step of
`MappingTable`, or through a `Rebind`, in which a create replaces a mapping that came
between its two lookups (a `Withdraw` and a `Publish` in one hold of the mutex). This is
what the registries were proved to implement, so the commands rely on no more than that.

**SystemdService** (`ServiceInvariant`, `ServiceTypeCorrect`, `ServiceTakesEffect`,
`ServiceRemovalsFinal`, `ServiceLosesOnlyItsOwn`, `ServiceKeepsTable`). `Progress` says,
for each command, which lists of steps it can have left, and for `reinstall` and
`uninstall` what those already done have achieved; `OnePlan` that the effect of an
earlier command is claimed only while no new one runs; `Effect` that this effect still
holds; `Process` ties the unit a process was started from to whether one runs. The
steps of `ServerCommands` keep all of it, and the service's steps keep the
invariant of the commands, as for them a service that stops is a server that dies. The
last three theorems are those of the commands again, for a server that systemd stops and
restarts.

**ClientSession** (`ClientInvariant`, `ClientOperations`, `ClientNoClobber`, in
`ForegroundForwardProofs`). `Place` lists where an operation of each kind can be and
with which service. `Reading` says what is on its way to the operation: as many chunks
as the device has sent, in order, with nothing after the end; `Answered` what a final
answer that is on its way or was read says of the device. The temporary APK is
accounted for by `CleansUp`: an rm whose stream has ended has removed it, or was cut off.
Of the local path, `Owns` says that an operation which writes it owns it, with the chunks
it has got, unless a pull that may overwrite is about, and `Screenshots` that of the
operations which write a screenshot there is one, who owns it up to such a pull. An operation
changes only what is its own and the path, so it is enough to look at one operation
at a time (`StepInv`); that is how any number of callers is covered.

**ForegroundForward** (`ForwardInvariant`, `ForwardTypeCorrect`, `ForwardWaits`,
`ForwardCloses`, `ForwardFramed`, `ProcessSucceeds`, `ProcessLeavesNothing`,
`ProcessNoClobber`). Of a connection, `Served` says what is open at each step of
`handleConn` and its copies, `Registered` that what a bridge uses is in `active` before
`closed` is set, and afterwards closed or in what the one `Close` has still to close
(`OneClose`: only one call goes past the test). `Frames`: the device expects the payload of
whoever holds `writeMu`, unless a payload's write has failed. A
step of one connection leaves the parts of the others alone, so one is looked at
at a time (`BridgeInv`).

Only model-checked: the liveness properties (`DeadStreamEnds`, `OpenAnswered`,
`BridgesEnd`, `ClosedBridgesUnblock`, `ShutdownEnds`, `StaleSocketRecovered`, `CallsEnd`,
`InterruptEnds`), as this prover does not do fairness. Every other invariant and action property of the passing runs has its
theorem. The five runs that expect a violation have nothing to prove.

## 6. Not modelled

Parsing and validating parameters, JSON, addresses and command lines, printing
and logging: no state. Cryptography in `auth`. The facade, the test device. What
`Wait` of a session returns to a second caller. The 2^32nd stream of a connection.
Non-Unix builds of the server, which only report that it is unsupported.

`ScanTCP`: its goroutines share nothing and send on a channel with room for every
result, so no order of steps can matter. The bytes of messages, USB descriptors,
property lists and PNG data: parsers of one input, which tests reach. Sizes of
packets (`client/sync.go:24`), as what a device does with a larger one is not in the
repository. `adb-go reverse` in the foreground, which is a session of
`ReverseRegistry` without the registry around it.

## 7. Plan

The modules, abstract specifications and theorems planned are done. What a change to the
code would call for first: `Stream.receive` that does not send on a closed channel
(`conn_panic` becomes an invariant), removals that close bridges not yet in `active`
(`fwd_removed`), `Reverse.Close` without `r.mu` (`rev_hang`), a `main` that waits for
`Shutdown` (`srv_exit`), and cancellation that closes the transport, or a deadline on
writes (`cli_blocked`). The liveness properties wait for a prover that does fairness.

Runs that ask one question of one module are merged where the instance allows it,
so that the whole set stays quick enough to run with every change to the code.

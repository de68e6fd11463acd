# Vyntra VPN: TLA+ models of the app and of the Outline SDK in its tree

Vyntra VPN is an Android app in Flutter. It picks an OpenVPN server from a
public feed, dials it through a plugin, and limits a connection to a session of
one hour. Its repository also carries the source of the Outline SDK, in Go, under
`outline-sdk-main/`: stream wrappers, DNS and Happy Eyeballs, a search for a way
past a censor, an IP device, a local web proxy and a command-line client. The app
does not call the SDK yet; the two are separate programs that share a tree.

The app is small and hard because everything is asynchronous: a controller whose
calls, timers and callbacks all change the same fields, and a session clock that
survives restarts. The SDK is hard because goroutines share connections, locks,
timers and channels that must all come to an end. These modules model both, TLC
checks them on small instances, and TLAPS proves the central safety properties
for every instance. SDK paths below are relative to
`outline-sdk-main/outline-sdk-main/`.

## Inventory

### The app

| Part | State it keeps | Operations | Talks to |
|---|---|---|---|
| Session clock, `lib/core/vpn/session_manager.dart` | start time, ticking timer, persisted start | `initialize`, `startSession`, `endSession`, the tick, the expiry handler | preferences; calls the controller back on expiry |
| VPN controller, `lib/core/vpn/vpn_controller.dart` | `VpnState`, current server, fetched servers, 45 s timeout, 2 s check timer, notification flag; persisted state and server | `init`, `connect`, `connectToServer`, `_attemptConnection`, `refreshStage`, `disconnect`, `_handleNativeStage` | session clock, preferences, OpenVPN plugin, native status channel |
| Home screen, `lib/features/home/home_screen.dart` | server list, spinner; list and timestamp in the preferences | button, choice of a server, resume hook, load, hard refresh | controller, server feed |
| Native side, `MainActivity.kt` | last stage emitted | `isVpnConnected`, stage stream, action channels | controller, through platform channels |
| OpenVPN service (plugin, external) | the tunnel | connect, disconnect | Android |
| Preferences (plugin, external) | in-memory copy, device copy, writes under way | set, remove, get | device |
| Server list services, `unified_vpn_service.dart`, `vpngate_service.dart`, `outline_service.dart` | a list and its timestamp each, in the preferences | fetch, `forceRefresh`, `clearCache` | HTTP endpoints; called by nothing in `lib/` yet |
| Reconnect watchdog, background service | backoff, timer | schedule, reset | disabled where they would be started |
| Server feed, ranking, notifications, endpoints, other screens | none that another part reads | fetch, parse, rank, show | HTTP, system |

All Dart code shares one thread, so nothing is torn, but every `await` is a point
where any other handler may run, and no handler is ever cancelled. A connect in
flight survives a disconnect; a poll answered late overrules what the user did
meanwhile; the timeout fires between two servers; a session save is overtaken by
the end of the session; the process dies between two unawaited writes; `init()`
runs twice in each launch because the provider and the home screen both call it
before either has finished.

What makes it correct: at most one start time per session, always under the
timer, equal to its record, and the record on its way to the device; *connected*
comes with a timed session and *connecting* resolves; no tunnel is left behind;
what is shown is what is persisted, and a launch settles on what is true; the
hour is enforced while the app runs; what counts as fresh is recent although list
and timestamp are two keys, and a failing endpoint does not cost a stored list.

### The SDK

| Part | State it keeps | Operations | Talks to |
|---|---|---|---|
| Stream writers, `transport/split`, `transport/tlsfrag`, `x/disorder` | split iterator; the hello being collected or its header; hop limit | `Write`, `ReadFrom` | the base connection |
| Shadowsocks stream, `transport/shadowsocks/stream.go`, `stream_dialer.go` | sealing buffer, lazily queued address, lock, flush timer; reader's counter and pooled slice | `Write`, `LazyWrite`, `Flush`, `ReadFrom`, `CloseWrite`, `Read` | the proxy connection |
| DNS resolvers, `dns/resolver.go` | one connection per query | query over UDP, TCP, TLS, HTTPS | the network |
| Happy Eyeballs, `transport/happyeyeballs.go` | pending operations, addresses, attempts, two delays | one select loop | resolvers, a base dialer |
| Smart dialer, `x/smart` and its file cache in `x/examples/smart-proxy` | the race under way, the cached strategy and its file | `NewDialer` and its races, `Get`, `Put` | the dialers it tests |
| DNS cache, `x/smart/cache.go` | an LRU list with expiry | `RemoveExpired`, `SearchCache`, `AddToCache` | a resolver |
| Proxy dials, `transport/socks5`, `transport/tls`, `x/httpconnect` | the connection to the proxy, pipes and a copying goroutine | dial, associate, connect, close | the proxy |
| UDP sessions, `network/lwip2transport/udp.go`, `network/packet_listener_proxy.go`, `network/dnstruncate` | sender map and lock, a socket, timer and reader per session | `ReceiveTo`, `closeSession`, `WriteTo`, `Close` | lwIP, the socket |
| IP device, `network/lwip2transport/device.go`, `tcp.go` | two unbuffered channels and `done`; two copies per relay | `Read`, `WriteTo`, `Write`, `Close`, output, relay | lwIP, a stream dialer |
| Local web proxy, `x/httpproxy`, `x/mobileproxy` | requests under way, relays of hijacked connections | serve, `AddURLProxy`, `Stop` | `net/http`, dialers |
| WebSocket connection, `x/websocket/endpoint.go` | pending reader, two sticky errors, two locks | dial, `Read`, `Write`, `CloseRead`, `CloseWrite`, `Close` | gorilla/websocket |
| Psiphon dialer, `x/psiphon/psiphon.go` | stored stop function and tunnel, lock | `Start`, `Stop` | the tunnel library |
| outline-cli, `x/examples/outline-cli` | deferred undo steps; the machine's resolver files, IPv6 flag, routes | one run, each step of which may fail | Linux |
| Config URLs, reports, system proxy, socket options, ciphers, tools, example apps | none, or the system's | parse, send, set, run | |

Hard here: a packet lent over two rendezvous; a reader that ends before its
session is in the map; a lock held across a close that comes back for it; a
buffer read outside its lock beside a flush timer; writes that fail half-way; a
dial that outlives its context; a stored function overwritten while its owner
waits; runs killed between two changes of the machine.

What makes it correct: no byte is lost, doubled or put in the wrong record; a
reader gets a prefix of what was written; nothing is given up before everything
was tried; nothing is handed out that the peer did not grant; what was opened
comes to an end; what was changed is put back.

`PROJECT.json` lists the hazards line by line, with the properties for each.

## Modules

| Module | Models |
|---|---|
| `Preferences` | the key/value store as `lib/` uses it: a device copy and a queue of writes; the owner of a key keeps its in-memory copy |
| `SessionManager` | `session_manager.dart`: one operator per method, used by its own `Next` and by the controller |
| `SessionLease` | what the session clock promises: a lease and its record, four actions |
| `VpnController` | `vpn_controller.dart`, the calls of the home screen, the native replies; EXTENDS `SessionManager` and runs its operators inside its own turns |
| `FeedCaches` | the three caching services, one action per turn of a call |
| `HomeServers` | the server list of `home_screen.dart`; EXTENDS `FeedCaches` for the cache itself |
| `BaseStream` | a caller, a base write that takes all or a part and fails, and the count the caller was told |
| `SplitWriter`, `TlsFragWriters`, `StreamWriters` | the writers over `BaseStream`; the last adds `x/disorder` and joins them |
| `BytePipe` | what a stream promises: its reader gets a prefix of what was put in |
| `ShadowsocksStream` | caller, timer and reader of one connection; implements `BytePipe` |
| `ServerLists` | composes `FeedCaches` with `HomeServers` |
| `StreamWrappers` | composes `StreamWriters` and `ShadowsocksStream` |
| `DnsQueries`, `HappyEyeballs` | the queries of both families and the select loop that dials their answers; the second EXTENDS the first |
| `SmartSearch`, `DnsCache`, `ProxyDials` | the search with its cache and file; the DNS cache; one dial through a proxy |
| `Dialing` | composes the four above |
| `UdpSessions`, `LwipDevice`, `ProxyServer`, `WebsocketConn`, `PsiphonDialer`, `OutlineCli` | one part each |
| `Serving` | composes the six above |
| `SessionManagerProofs`, `VpnControllerProofs`, `ShadowsocksProofs` | the theorems about the module named |
| `ServerListsProofs`, `StreamWritersProofs`, `DialingProofs`, `ServingProofs` | the theorems about the parts of a composition and then about the composition; `IpDeviceProofs`, about `UdpSessions` and `LwipDevice`, is what `ServingProofs` goes on from |
| `MC...` | who and what takes part in a TLC run |

`SmartSearch` and `DnsCache`, or `LwipDevice` and `UdpSessions`, share no
variable in the code, so their composition is a choice: in `StreamWrappers`,
`Dialing`, `Serving` and `ServerLists` the variable `wrapper`, `part` or `user`
says which of them a behaviour follows while the others keep an initial state. Parts that do share
state are one state machine: the controller with the session clock and the
preferences, the home screen with the caches it clears, the dial with its queries, the UDP
handler with its sessions and timers.

### How the app's code maps to actions

An action is a *turn*: what the event loop runs from one resumption to the next
await that really waits. `SharedPreferences.getInstance()` is loaded before the
home screen is built, so its awaits go on in the same turn. A task is one
invocation in flight (a tap, a timer callback, a native event); `pc` names the
await it is suspended in:

| `pc` | suspended in |
|---|---|
| `engine` | `engine.initialize()` in `init` |
| `fetching` | the server feed in `connect` |
| `saving`, `recording` | `_saveCurrentServer` before and after an attempt |
| `preparing` | reachability check, config decoding, `.ovpn` file |
| `dialing` | `engine.connect` |
| `polling` | the delay and the status check of the confirmation loop |
| `starting` | the save inside `startSession` |
| `ending`, `clearing` | `endSession`, then `_clearSavedServerInfo` |
| `checking`, `refreshing` | a status check of the timer, of a stage, of `refreshStage` |

* A write changes the in-memory copy at once and joins the FIFO `writes`; its
  caller resumes when the write has been applied (`Landed`). Start time and
  duration, written one after the other, are one write; so are the seven keys of
  the saved server (see *not modelled*).
* `_isVpnServiceConnected` first reads `_engine?.status`, which is the method
  itself and never the words it is searched for, and then asks the native side.
  `Reported` is that answer, taken when the reply is handled. A tunnel being torn
  down (`stopping`) is still reported: the code does not await
  `engine.disconnect()`.
* The native side emits a stage only on listen: `vpnControl` has no caller in
  `lib/`, and the notification action needs `NotificationService.init`, which
  nothing calls. So only the "disconnected" branch of `_handleNativeStage` can
  run, and `VpnState.reconnecting` is never set.
* `engine.connect` may be suspended for any time (the system asks for
  permission) and may throw; the feed may return any list of `ServerLists`; the
  tunnel may come up, fail or drop at any time.
* A kill forgets memory, tasks and pending writes, and leaves the device copy and
  the tunnel as they are.
* In `FeedCaches` a list is the time at which the endpoint sent it, or
  `NoServers`. A write takes effect in the turn that issues it and the next one
  follows in a turn of its own, so a kill, a clear or another call may come
  between the list and its timestamp. `Window` and `Within` keep the two
  comparisons of the code apart: the services drop a list *older than* one or two
  hours, the home screen shows one of *less than* one whole hour.
* `ParseCsv` gives no servers for any input, as `_parseServers` does: line 212 of
  `vpngate_service.dart` deletes the line breaks that line 215 splits at.

### How the SDK's code maps to actions

A goroutine is a variable that names where it is; an action is what it does
between two points where another goroutine may run: a channel operation, a lock,
a call of the network. A `select` is one action per case. A function and its
deferred calls are split only where another actor may come between.

* Bytes are opaque and numbered; a header byte of a TLS record knows the length
  the header declares. A sealed block of Shadowsocks is its plaintext with the
  counter it was sealed with, so that opening it with another counter fails.
* A base write takes everything, or a part and fails; afterwards the caller goes
  on from the count it was told, as a caller of `io.Writer` does. Inside
  `ReadFrom` what had been read is lost to the caller: the connection is broken.
* DNS packets are answers that match their question or forged ones that do not.
  A proxy, a WebSocket peer or a server may answer anything at any time.
* In `SmartSearch` an entry is a model value whose test may pass, fail, or wait for
  a server's response, for which `testDialer` has no deadline; `Direct` is the TLS
  entry `""`, which the winning config leaves out. The file is `Torn` between the truncation and the write of `os.WriteFile`, and a kill may
  come there.
* Addresses of the UDP handler share only its lock, so the model follows one
  address with several callers in `ReceiveTo`; `mu = "stuck"` is the handler
  waiting for its own lock.
* A relay's copy to the target reads, then writes, and only the target can end the
  write: the closer closes the client, and the target is closed by the handler,
  which waits for the target to end.
* A WebSocket message is read in the Read that got it, or in a later one while its
  reader is pending; its rest may never come, and it may be empty.
* lwIP, `net/http`, gorilla/websocket, the tunnel library and Linux are external:
  modelled from how the code uses them, and marked so in the map.

Operators under a comment `Fault:` are faulty variants of the operator that
follows, one plausible slip each. They take no part in the specification;
`PROJECT.json` ("mutants") says which property each of them breaks.

## Runs

| Run | Who takes part | Shows |
|---|---|---|
| `session` | two callers, two `initialize`, one kill, two writes in flight | `TimedSession`, `SessionEnds`, and that the clock implements the lease |
| `connect` | one `connect` over no or one server, disconnect, resume, check callback, expiry, native stage, no kill | `ConnectedIsTimed`, `NoOrphanTunnel` (which a second server breaks, see below) |
| `connect_live` | one `connect` over no, one or two servers, resume, check, expiry | once the feed has answered: `ConnectingResolves`, whatever `engine.connect` does, and `AttemptsEnd`, if that answers too; `LimitEnforced` |
| `restart` | both `init()` calls, a server chosen from the list, a kill, a resume, an expiry, native stages | `StatePersisted`, `ColdStartSettles` |
| `lists` | two calls on one service, any of the three, and a kill; or a launch, two refreshes, a relaunch and a feed that goes up and down | `FreshIsRecent`, `KeptListAnswers` under every interleaving of the writes of two calls; `ScreenIsStored`, `RefreshRecovers` |
| `streams` | each writer over a failing base; a Shadowsocks connection with its timer and reader | `ReshapedOnce`: the stream is cut as its argument says, once; `Conserved`: what is on the wire is what the caller was told, in the right records; `BufferAlone`, `CleanEnd`; `ImplementsPipe`; `EverythingArrives` |
| `dialing` | a dial over each resolver, with or without a deadline; two searches with a kill anywhere; two queries on one cache; one dial of each kind through a proxy | `AllTried`: no early end of the dial; `SearchExhausts`: no early end of the search; `CacheNamesWinner`; `ServedNewest`: the cache never goes back to an older answer; `DeadlineEndsAll`; `DialsSettle`: only what was granted is handed out, and the one connection left behind is named |
| `serving` | two packets at once for one address, two sessions; a device with three packets and a relay; two clients of the local proxy; a WebSocket connection; three Starts and a Stop; three runs of outline-cli | `SocketsTimed`, `PacketLent`, `RunsRestore`, `SessionsEnd`, `DeviceEnds`, `RelaysEnd`, `ReadEnds`; that the tunnel Psiphon hands out runs when it does (`TunnelRuns`, in `ServingTypeOK`) |

Runs that TLC ends with a counterexample, each a disagreement with a text of the
repository:

| Run | The text | What happens |
|---|---|---|
| `relaunch_unlimited` | "1-Hour Sessions - Free usage limit" (`README.md:12`) | a launch ends the expired session and restores *connected* without one, and nothing will take the tunnel down |
| `header_resumed` | "the first fragmented record content will have that length" (`transport/tlsfrag/stream_dialer.go:111`) | a base write ends inside the first record's header; the next one is given the whole record's length, so bytes of the second record's content go out in the first |
| `device_read_blocks` | "blocking until a packet arrives or this device is closed" (`network/lwip2transport/device.go:142`) | `Close` sends the output call back after `Read` has taken its packet; `Read` then sends its count to nobody |
| `psiphon_stop_loses` | "returns when the Dialer is completely stopped" (`x/psiphon/psiphon.go:194`) | the Start that ends clears the stop function that a later Start has stored; `Stop` returns and that tunnel runs on |

Other things the models have that no run claims anything about:

* `connectToServer` whose polling runs out leaves *connecting* with its timeout
  cancelled, and the button dead (`vpn_controller.dart:1089`); `ConnectingResolves`
  holds of `connect()`, which `connect_live` checks.
* A check or a poll answered after `disconnect()` sets *connected* again. It
  comes with a session, so `ConnectedIsTimed` holds.
* An attempt still suspended in `engine.connect` when the timeout cleans up dials
  afterwards. With one `connect()` its own polling finds the tunnel and sets
  *connected*; with a second attempt the tunnel may outlive its failure.
* `NoOrphanTunnel` fails as soon as a list holds two servers, which is why
  `connect` has one and the theorem about it assumes so. TLC's trace: the tunnel
  to the first server comes up after the last poll has looked; a resume or the
  check timer sees it and sets *connected*; the tunnel drops before the attempt's
  last look, so `connect()` goes on to the second server and dials it while the
  state still says *connected*; the first poll of that attempt finds the state
  *connected* and ends it; a stage that is handled before the service is up
  sets *disconnected*; and the tunnel comes up behind a state that denies it,
  with no attempt left to notice, until something asks for the native side's
  state again.
* `startSession` that resumes after `endSession` starts the timer over no session
  (`session_manager.dart:71`), and the next tick handles an expiry that ends
  nothing.
* `CloseWrite` of a Shadowsocks connection before its first data half-closes it
  ahead of the queued address. `EverythingArrives` excludes it.
* Two overlapping packets of one address may leave the UDP handler waiting for its
  own lock, when a truncating session is in the map without being its receiver's
  own. `StuckByOverlap` says that this takes the overlap the code's TODO is about.
* After a TLS entry `""` has won, the next search takes the config's own order,
  where an entry that has just failed may come first
  (`x/smart/strategy_result.go:79`); `CacheNamesWinner` excepts it.
* A server that shakes hands and never answers a test's request holds `NewDialer`
  until its context is done, and `x/mobileproxy` gives it one that never is
  (`mobileproxy/stream_dialer.go:127`). A target that stops reading holds a relay's
  upward copy, with the handler behind it if the target does not end either
  (`x/httpproxy/connect_handler.go:128`). `SearchExhausts` and `RelaysEnd` name
  them as their only exceptions.
* Left open for good: the connection of a SOCKS5 association granted with an address
  that cannot be parsed (`transport/socks5/packet_listener.go:166`), and a TLS
  resolver's connection whose handshake fails. `DialsSettle` and `DeadlineEndsAll`
  name them as `leaked`.
* An empty binary WebSocket message gives its reader `io.EOF` and the stream goes on
  (`x/websocket/endpoint.go:184`): whoever takes that for the end loses the rest.
  `ReadEnds` is about the errors that stay.
* `DialStream` of the Psiphon dialer uses its copy of the tunnel after the unlock,
  when the tunnel may have stopped (`x/psiphon/psiphon.go:79`).
* After a kill, a run of outline-cli finds its own resolver file in place and renames
  it over the user's in the backup (`dns_linux.go:56`). `RunsRestore` compares with
  what the run found, which is then that file.
* HTTPS dials of `x/httpconnect` with default options have no certificate
  verifier to call; the model ends them in `panicked`.

### Bounds

*The app.* `Tick` stops at `Horizon`, the latest time a session can expire; no
caller starts a session after `LastStart`. `MaxWrites` bounds the writes in flight
behind which a caller of `SessionManager` issues another (two are enough for a
start to be overtaken by an end). `MaxKills` is 0 or 1, `MaxInits` 2: each launch
calls `init()` twice. `MaxPolls` stands for the 15 rounds of the confirmation
loop: what matters is whether it goes round again or ends. A task that stands for
a tap runs once; callbacks of timers, expiries and stages are started again, one
at a time for each. With `Duration` 1 or 2 a session can expire while its start is
being saved, while it polls, and while a disconnect is under way. In `lists` an
hour is one unit and the clock stops at 3, so that a list of the two-hour window
can be fresh, of exactly the age of its window, and expired while a call is
between two awaits, and a relaunch of the app can meet a list of the same hour or
of an earlier one.

*Streams.* A hello of three content bytes with a byte after it, one whose header
claims more than a record holds, and a stream that is none; calls of up to five
bytes, so that one call may hold the whole hello; headers of two bytes, records of at
most three, and an MTU of three, so that the second header leaves with one byte of
what follows; split plans that are empty, repeat, and have a count of zero; fragments of
one, three and all but one byte; a disorder at the first and at the second write.
Base writes that end inside the first record's header are left out of `streams`
(`CutHeaders = FALSE`): `header_resumed` has them in and shows what is wrong with
them, and `streams` shows that everything else is kept right. A Shadowsocks buffer of two bytes holds the address with one byte of the
data, and not with two.

*Dialing.* One address per family (the second family is the second address),
one forged packet, two entries of each sort in the largest config, and configs
without TLS, without DNS, without fallback and with an entry that is malformed;
one config with the TLS entry `""` beside another; two calls, so that the second
finds what the first stored; a cache of two entries
with two keys and a lifetime of two, in a time of four.

*Serving.* Two callers and two sessions are what the race on the map takes; three
packets let a session be refreshed, end and be replaced. Two output calls, one of
them within `Write`, contend for the device, and a third packet follows. Three
Starts are what it takes for one to wait while another has stored its stop
function. Three runs of outline-cli: one that is killed, one that finds what it
left, and one after that.

Tasks that stand for a tap, dials, searches and device calls end and do not come
back, so their runs turn the deadlock check off; `session` and `lists` keep it
on.

### Fairness

`FairSpec` and `ControllerFairSpec` are weakly fair to the clock's periodic timer,
to the 45 s timeout, to each task and to the writes: the event loop runs what is
ready and the platform answers. Not so while a task waits for what has no timeout
(`Outside(t)`): `APIs.getVPNServers` in `connect()`, before any timer is armed, and
`engine.connect`, which may wait for the user. `ConnectingResolves` and
`AttemptsEnd` except a wait there that never ends, and nothing else. Nothing is
assumed of the user, of the tunnel, or of the process staying alive. `HomeFairSpec` is fair
to each task, and to a load only while the feed is up: `APIs.getVPNServers` has no
timeout, so nothing makes a request to a dead feed end, and `RefreshRecovers`
excuses a feed that goes down accordingly.

In the SDK a goroutine that can run does run, and a timer or a deadline that is set
fires; nothing is assumed of a peer, of a packet arriving, of a caller calling
again, or of a context being cancelled, unless it has a deadline. So
`EyeballsFairness` is fair to the deadline only if there is one, `UdpFairness` to
the idle timer and to a read of a socket that is closed, `ProxyFairness` to the closer,
to a copy that has nothing more to read or whose write meets a closed target, and to
the copy downwards only when target and client are both gone, `WebsocketFairness` to
a Read but not to the rest of a message, `DeviceFairness` to the channel cases that `done` opens.
`SSFairness` is strongly fair to the timer's flush and to the caller's own loop,
because each waits for the lock the other takes and lets go of, and Go's mutex
hands it over to one that waits; a caller that reads a source with nothing left is
under no obligation. `SearchFairness` is fair to a test as far as its timeout goes,
that is to its dial and its handshake, and not to the server's response (`Answered`);
and to the select's case of a context that is done.

In the compositions a behaviour follows one part. The conditions of the
others ask nothing, because no action of theirs is enabled in `Next`; where an
initial state of theirs would leave one enabled, it is stated only for the
behaviours that follow it (`wrapper = "shadowsocks"`, `part = "eyeballs"`, `user = "home"`).

## Proofs

Each theorem holds for every value of the constants that meets the module's
assumptions, which TLC evaluates in every run.

| Module | Theorems | Inductive invariant and why it is needed |
|---|---|---|
| `SessionManagerProofs` | `TypeCorrect`, `SessionIsTimed`, `SessionIsOnRecord`, `RecordIsDestined`, `StartIsIdempotent`, `SessionIsALease` | `TypeOK`, `TimedSession`, `SessionOnRecord`, `RecordReachesDisk` together: an `initialize` that adopts a record is harmless to a running session only because the record is that session's, and a kill keeps types only because the device holds a past start. `SendDestined` and `LandDestined` carry the queue of writes. The refinement maps `lease <- sessionStartTime`, `record <- savedStart`. |
| `VpnControllerProofs` | `StateIsPersisted` | each step sends writes that lead a key from its old value in memory to its new one (`Leads`), so the youngest pending write of a key, or the device, has the value in memory (`DestinedIn`). One lemma for each operation of the session clock, then one for each turn. |
| | `ConnectedStateIsTimed`: `[](kills = 0 => ConnectedIsTimed)` | `TimedInv`: without a kill the record a launch reads is none (`Fresh`), and each task that is about to change state or session finds what its turn relies on (`Ready`). After a kill the property fails, which is what `relaunch_unlimited` is about. |
| | `ControllerTypes` | `TypeInv`: what is in memory has its type because what is on the device and in the queue of writes has (`FlowInv`), the flags and places theirs (`FlagsOK`, `TurnsOK`), and the launches are counted as the set of `init` calls that got past the engine (`CountInv`) |
| | `SingleAttemptLeavesNoOrphan`: `[](kills = 0 => NoOrphanTunnel)` if there is one attempt and no list of more than one server (`Single`) | `OrphanInv`: a tunnel that starts has an attempt that polls for it, one that is up has such an attempt or a state that says *connected* (`Attended`); what a failed refresh restores is the state as it is (`Unchanging`) |
| `ServerListsProofs` | `FreshListsAreRecent`, `RefreshesAreNew`, `KeptListsAnswer`, `EmptyIsNeverStored`, `FeedTypes` | what is stored needs what is on its way to be stored: `Sent`, `InFlight` (a call about to write a timestamp holds a list of this unit of the clock or the one before), `Stamped` (a timestamp is at most one unit later than the list it may be read with), `RefreshFrom`, `SureKept` |
| | `ScreenAgrees` | `HomeInv`: the list on the screen is the stored one or a task is underway that stores or resets it, and a spinner that is on belongs to a load |
| | `HomeTypes`, `ListsSafe` | `HomeKeys`: a task about to write a timestamp does so for the stored list or one older than it. `ListsSafe` is the conjunction for the composition |
| `StreamWritersProofs` | `WritersTypes` | `TypeInv`: what each writer's counters may be while a call is under way |
| | `NothingIsLost`: `Conserved`, unless base writes may end inside a header (`CutHeaders`) and the writer is the one `header_resumed` is about | `Carried`: what the writer has taken over is on the wire or in what it holds back, a hello in two records; one lemma for each way a call of the base can end, one for each writer |
| | `StreamIsReshapedOnce` | `SplitsInv`: the iterator is one segment ahead of the wire (`Ahead`), so that no write reaches beyond the plan's next point, and each point that was passed ended a write. Needs what `CleanSplits` and the sums before a split compute, for every plan |
| | `WrappersAreAlone`, `WrappersSafe` | the composition steps one part at a time |
| `ShadowsocksProofs` | `BufferIsAlone` | `WriterInv`: who holds the lock is where the two threads are (`Locked`), a flush needs `needFlush` and the loop without the lock begins when that is false for good (`Unlocked`), what was read beside a flush fits behind it (`Fits`), and the buffer never overflows (`Contents`) |
| | `EndIsClean` | `Parity`: the reader's counter is even exactly before a size block |
| | `StreamIsAPipe`: the connection implements `BytePipe` | `FlowInv`: whatever an end holds stands where it should in the caller's bytes (`Standing`), and the blocks under way carry exactly what is between what the reader has and what the writer has queued, up to the break if there was one (`Chained`). `put <- written`, `got <- got`; every step of the timer, of the seals, the writes and the reads is a stutter, a `Put` or a `Get` |
| `DialingProofs` | `EveryAddressIsTried` | `EyeballsInv`: `opsPending` is the number of lookups, addresses and attempts still to come (`Pending`), which is why it reaches zero only when there are none (`Exhausted`); counted with the cardinality theorems of the library |
| | `CacheIsTheWinner` | a search that resumes a cached fallback returns without storing anything, so the invariant says what it was started with (`Resumed`), what is stored of what was found (`Kept`), that what was found comes from the config (`Chosen`, so that the next call finds it there), and how memory and file differ during `Put` (`InPut`, `Written`) |
| | `NothingIsLeft` (the safety part of `SearchExhausts`), `SearchTypesHold` | `Why`: what each stage of the search has behind it, and that each test that ended was reported or is waiting to be (`Reported`). It assumes that a config names the system's resolver once and not as a fallback (`OneSystem`): the search refuses an entry by its name |
| | `NewestIsServed` | `CacheInv`: of two entries of one name the first is the newer (`NewestFirst`), and while a query searches nothing in the cache had expired when it began (`Fresh`). That holds because `RemoveExpired` comes first, whatever other queries add between the two |
| | `OnlyGrantedIsHeld` (half of `DialsSettle`), `FailureClosesOrLeaks` (its other half, with the exception it names) | `GrantedSoFar`: what the peer has granted by the time the dial has got this far |
| | `DialingTypes`, `DialingSafe` | the same for the composition |
| `IpDeviceProofs` | `SocketsAreTimed`, `UdpTypes` | `UdpInv`: socket and timer are taken by one action under one condition |
| | `StuckOnlyByOverlap`, `DeadEntriesBornDead` (conjuncts of `SessionsEnd`) | `EntryInv`: unless calls overlapped, one call at a time makes a session, and every open receiver is that of the session in the map or in the hands of that call |
| | `PacketIsLent`, `DeviceTypes`, `HalfClosedGoesOn` (a conjunct of `DeviceEnds`) | `Answering`: while the device is open nothing waits for an answer but the call whose packet the reader holds; `ShutByCopy`: an end is shut only by the copy that uses it |
| `ServingProofs` | `RunsRestoreAll`, `CliTypes` | `CliInv`: for each setting, whether it differs from what was found is told by the undo steps still deferred (`DeviceDeferred`, `IPv6Deferred`, `RuleDeferred`, `FilesDeferred`) |
| | `UsedTunnelRuns` (in `ServingTypeOK`) | `PsiphonInv`: the types and the property itself are inductive; a `Start` that stops a tunnel takes it away in the same step, whoever's it is |
| | `StreamEndIsFinal` (the safety part of `ReadEnds`) | `EndStays`: once a Read has returned an error of the connection, one of the two sticky errors stands in the way of every Read, also of one that goes on with a message that broke off |
| | `RelayReadsToEnd` (the safety part of `RelaysEnd`) | only a hijacked connection is relayed |
| | `PartsAreAlone`, `ServingTypes`, `ServingSafe` | the same for the composition |

Assumptions on the constants, each named and evaluated by TLC in the runs:
durations, sizes and bounds are naturals, `Null` is neither a time, a task, a server
nor a state; the kinds of tasks of the controller are disjoint but for a server
chosen from the list, which is an attempt and a disconnect in one; a process calls
`init` finitely often; streams, lists, plans and configs are finite sequences;
a TLS header has at least one byte; the address of a Shadowsocks target fits the
buffer; no config has an entry called `Nothing`, the model's word for none. None restricts how many of anything there are.
`Single`, `OneSystem` and `~CutHeaders` are hypotheses of the theorems that need
them, and the runs or the traces above show what happens without.

How induction is done without an induction theorem: the provers cannot instantiate
those of the library, so a least counterexample is taken instead. `LeastOf`, from
well-foundedness of `<` on the naturals, gives the first index at which what a
recursive function computes would be otherwise, and the equation at that index
contradicts it; cardinalities are counted up with the finite-set theorems. The
models' recursive functions are written for this (`clean`, `before`, `lengths` of
`SplitWriter`).

Only model-checked: everything under fairness, because the prover has neither
fairness nor `ENABLED` - `SessionEnds`, `ConnectingResolves`, `AttemptsEnd`,
`LimitEnforced`, `ColdStartSettles`, `RefreshRecovers`, `EverythingArrives`,
`DeadlineEndsAll`, `DeviceEnds`, `SessionsEnd`, and the progress parts of
`SearchExhausts`, `DialsSettle`, `RelaysEnd` and `ReadEnds` - and `NoOrphanTunnel`
beyond its hypothesis, where it is false. Every other property of a run, invariant
or action property, is a theorem.

## Not modelled

* The seven keys of the saved server one by one, and a load of a mixture.
* Server sorting and scoring, CSV parsing, the selectors of the services, the
  `.ovpn` files and their clean-up, the text of configs and of notices. The
  warnings at 10 and 5 minutes change no state.
* `dispose`, `updateNotification` (no caller that runs), the watchdog and the
  background service (both commented out where they would be started): there is no
  "Auto-Reconnect" of `README.md:11` to check yet. A failing
  `engine.initialize()`, after which `init` gives up for the launch.
* Screens other than the calls they make; the stateless HTTP endpoints.
* Of the SDK: config URLs (`x/configurl`), which parse a string into the dialers
  above and keep no state; reports (`x/report`), collectors called one after
  another, whose retry loop is the next candidate; `x/sysproxy` and socket options,
  single calls of the system; ciphers, salts and key derivation, opaque in the
  models; the command lines and example apps that run one component once.
* Two overlapping `Close`s of the IP device, which may both close its channel
  (`network/lwip2transport/device.go:99`).
* A split iterator shared by two connections of one dialer; a second `Stop` of the
  mobile proxy, which dereferences nil; other platforms than Linux for outline-cli.

## Order of work

The modules were written so that what most of the system rests on came first, and
each so that it can be proved about as well as checked: recursive functions and no
recursive operator, one action per operation, invariants in named parts.

1. The session clock with its lease, then the controller on top of it, then the
   caches and the home screen.
2. The SDK's streams, for which data integrity is all; then what dials; then what
   runs long.
3. Proofs, in the order in which their invariants are least obvious.

What would come next: `SavedServer`, the seven keys written and removed one await
at a time; the ranking as pure operators against a reference order; the retry loop
of `x/report`; the controller's session as a lease, which is proved of the session
clock alone; and what does hold of a tunnel behind two servers, once an observer
has looked again.
